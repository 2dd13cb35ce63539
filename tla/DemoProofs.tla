----------------------------- MODULE DemoProofs -----------------------------
(***************************************************************************)
(* The shape of the board manager's state, whatever goes wrong, and how    *)
(* many connections a session has: the counts _demo_connection_counts      *)
(* keeps never fall below zero nor beyond the connections that are open.   *)
(*                                                                         *)
(* The shape is not inductive by itself: that a timer which is scheduled   *)
(* is one of the tasks needs the horizon of BoardProofs, that a session id *)
(* goes to the agent needs the point its task is at, and that the state a  *)
(* reset returns is one of the board's needs that it was answered well.    *)
(*                                                                         *)
(* The agent of this model is the service that FpgaAgent's agent is: what  *)
(* has been sent and not received stands behind all that has, so the Web   *)
(* API's own steps are not seen in the agent's line (InService).           *)
(*                                                                         *)
(* Every demo runs on a board that is its own, as long as nothing but      *)
(* starts fails: for any number of users, sessions and demos, the active   *)
(* session runs on its own bitstream and ELF, a session is programmed onto *)
(* a cleared board, no demo process is forgotten, and nobody is timed out  *)
(* who is connected.                                                       *)
(*                                                                         *)
(* That is not inductive either: what the board will hold depends on the   *)
(* requests that are still under way.  A reset that has been sent but not  *)
(* answered counts as done (Will), which is right only because the agent   *)
(* serves requests in order, the request of the board's session is the     *)
(* last one (Asked), and nobody cancels a task that waits for a reset the  *)
(* next session depends on (MayDrop).                                      *)
(***************************************************************************)
EXTENDS BoardProofs

-----------------------------------------------------------------------------
(* The shape of the state, and the connections counted *)

Requests == [op : {"pl", "ps", "reset"}, ses : SessionIds, by : Tasks \cup {NoTask},
             stage : {"sent", "admitted", "running"}]

\* A task that is suspended for a session, and one that has been told a state.
TaskShape(k) ==
    /\ k \in [pc : Points, ses : SessionIds \cup {NoSession}, run : SessionIds \cup {NoSession},
              call : {"none", "out", "ok", "error"}, ans : View \cup {NoView}]
    /\ k.pc \notin {"done", "idle"} => k.ses \in SessionIds
    /\ k.pc = "failreset" /\ k.call = "ok" => k.ans \in View

\* What LockOrder does not say of the Web API's state.
Shape(w) ==
    /\ w.fpga \in View
    /\ w.runtime \in SessionIds \cup {NoSession}
    /\ w.expiry \in Tasks \cup {NoTask}
    /\ w.disc \subseteq SessionIds
    /\ w.counts = [s \in SessionIds |-> w.counts[s]]
    /\ \A t \in Tasks : TaskShape(w.tasks[t])
    /\ w.calls \in Seq(Requests)
    /\ w.zombies \subseteq {"up", "down"} \X (SessionIds \cup {NoSession})

\* Between two states of a step: a count is only reset once its session is
\* over, and nobody is timed out but the sessions of who.
Accounts(w, v, who) ==
    /\ Forward(w.store, v.store)
    /\ \A s \in SessionIds : \/ v.counts[s] = w.counts[s]
                             \/ v.counts[s] = 0 /\ StatusOf(v.store, s) \in Ending
    /\ \A s \in SessionIds : v.store.ses[s].reason = "timed_out" =>
                                w.store.ses[s].reason = "timed_out" \/ s \in who

\* The agent gets further requests.  What becomes of those it has is its own.
Grown(c, d) ==
    /\ DOMAIN c \subseteq DOMAIN d
    /\ \A i \in DOMAIN d : IF i \in DOMAIN c
                           THEN d[i].op = c[i].op /\ d[i].ses = c[i].ses /\ d[i].stage = c[i].stage
                           ELSE d[i].stage = "sent"

\* Between two states of a run in the Web API.
Steady(w, v, who) == Accounts(w, v, who) /\ Grown(w.calls, v.calls)

LEMMA SteadySame ==
    ASSUME NEW w, NEW v, v.store = w.store, v.counts = w.counts, v.calls = w.calls
    PROVE  Steady(w, v, {})
BY DEF Steady, Accounts, Grown, Forward

LEMMA SteadyBlames ==
    ASSUME NEW w, NEW v, NEW u, NEW who, Steady(w, v, who), Steady(v, u, {})
    PROVE  Steady(w, u, who)
BY DEF Steady, Accounts, Grown, Forward

LEMMA SteadyTwice ==
    ASSUME NEW w, NEW v, NEW u, NEW who, Steady(w, v, {}), Steady(v, u, who)
    PROVE  Steady(w, u, who)
BY DEF Steady, Accounts, Grown, Forward

\* Another store.
LEMMA StoreShape ==
    ASSUME NEW w, IsWeb(w), Shape(w), NEW m, Forward(w.store, m), NEW who,
           \A s \in SessionIds : m.ses[s].reason = "timed_out" =>
                                    w.store.ses[s].reason = "timed_out" \/ s \in who
    PROVE  LET v == [w EXCEPT !.store = m]
           IN  /\ Shape(v) /\ v.store = m /\ v.tasks = w.tasks /\ v.runtime = w.runtime
               /\ v.counts = w.counts /\ Steady(w, v, who)
<1> DEFINE v == [w EXCEPT !.store = m]
<1>1. /\ v.store = m /\ v.fpga = w.fpga /\ v.runtime = w.runtime /\ v.expiry = w.expiry
      /\ v.disc = w.disc /\ v.counts = w.counts /\ v.tasks = w.tasks /\ v.calls = w.calls
      /\ v.zombies = w.zombies
  BY DEF IsWeb
<1> HIDE DEF v
<1>2. Shape(v)
  BY <1>1 DEF Shape
<1>3. Steady(w, v, who)
  BY <1>1 DEF Steady, Accounts, Grown
<1> QED
  BY <1>1, <1>2, <1>3 DEF v

-----------------------------------------------------------------------------
(* The parts of the state a suspension and a cancellation change *)

LEMMA AtParts ==
    ASSUME NEW w, IsWeb(w), NEW t, NEW k
    PROVE  LET v == At(w, t, k)
           IN  /\ v.calls = w.calls /\ v.expiry = w.expiry /\ v.zombies = w.zombies
               /\ v.runtime = w.runtime /\ v.counts = w.counts /\ v.fpga = w.fpga
<1> DEFINE d == Put(w.tasks, t, k)
           v == [w EXCEPT !.tasks = d]
<1>1. At(w, t, k) = v
  BY DEF At, Put
<1> HIDE DEF d
<1> QED
  BY <1>1 DEF IsWeb

\* The requests of a task that is gone are carried out for nobody.
Orphaned(calls, t) ==
    [i \in DOMAIN calls |->
        IF calls[i].by = t THEN [calls[i] EXCEPT !.by = NoTask] ELSE calls[i]]

\* None of the tasks that sent them is left.
Orphans(calls) == [i \in DOMAIN calls |-> [calls[i] EXCEPT !.by = NoTask]]

LEMMA OrphanedGrown ==
    ASSUME NEW c \in Seq(Requests) PROVE Grown(c, Orphans(c)) /\ \A t : Grown(c, Orphaned(c, t))
<1>1. \A r \in Requests : LET o == [r EXCEPT !.by = NoTask]
                          IN  o.op = r.op /\ o.ses = r.ses /\ o.stage = r.stage
  BY DEF Requests
<1>2. \A i \in DOMAIN c : c[i] \in Requests
  OBVIOUS
<1> QED
  BY <1>1, <1>2 DEF Grown, Orphaned, Orphans

LEMMA CancelParts ==
    ASSUME NEW w, IsWeb(w), NEW t
    PROVE  LET v == CancelTask(w, t)
           IN  /\ v.calls = Orphaned(w.calls, t)
               /\ v.zombies = w.zombies \cup Thread(w.tasks[t])
               /\ v.expiry = w.expiry /\ v.runtime = w.runtime /\ v.counts = w.counts
               /\ v.fpga = w.fpga
<1> DEFINE c == [i \in DOMAIN w.calls |->
                    IF w.calls[i].by = t THEN [w.calls[i] EXCEPT !.by = NoTask] ELSE w.calls[i]]
           z == w.zombies \cup Thread(w.tasks[t])
           f == LeaveLock(w.flow, t)
           d == [w.tasks EXCEPT ![t] = Done]
           v1 == [w EXCEPT !.tasks = d]
           v2 == [v1 EXCEPT !.flow = f]
           v3 == [v2 EXCEPT !.calls = c]
           v4 == [v3 EXCEPT !.zombies = z]
<1>1. CancelTask(w, t) = [w EXCEPT !.tasks[t] = Done, !.flow = f, !.calls = c, !.zombies = z]
  BY DEF CancelTask
<1>2. CancelTask(w, t) = [w EXCEPT !.tasks = d, !.flow = f, !.calls = c, !.zombies = z]
  <2> HIDE DEF c, z, f
  <2> QED
    BY <1>1
<1>3. CancelTask(w, t) = v4
  <2> HIDE DEF c, z, f, d
  <2> QED
    BY <1>2
<1> HIDE DEF c, z, f, d
<1>5. IsWeb(v1) /\ v1.calls = w.calls /\ v1.zombies = w.zombies /\ v1.expiry = w.expiry
      /\ v1.runtime = w.runtime /\ v1.counts = w.counts /\ v1.fpga = w.fpga
  BY DEF IsWeb
<1> HIDE DEF v1
<1>6. IsWeb(v2) /\ v2.calls = w.calls /\ v2.zombies = w.zombies /\ v2.expiry = w.expiry
      /\ v2.runtime = w.runtime /\ v2.counts = w.counts /\ v2.fpga = w.fpga
  BY <1>5 DEF IsWeb
<1> HIDE DEF v2
<1>7. IsWeb(v3) /\ v3.calls = c /\ v3.zombies = w.zombies /\ v3.expiry = w.expiry
      /\ v3.runtime = w.runtime /\ v3.counts = w.counts /\ v3.fpga = w.fpga
  BY <1>6 DEF IsWeb
<1> HIDE DEF v3
<1>8. v4.calls = c /\ v4.zombies = z /\ v4.expiry = w.expiry
      /\ v4.runtime = w.runtime /\ v4.counts = w.counts /\ v4.fpga = w.fpga
  BY <1>7 DEF IsWeb
<1> HIDE DEF v4
<1>9. c = Orphaned(w.calls, t)
  BY DEF c, Orphaned
<1> QED
  BY <1>3, <1>8, <1>9 DEF z

LEMMA ThreadShape ==
    ASSUME NEW k, TaskShape(k)
    PROVE  Thread(k) \subseteq {"up", "down"} \X (SessionIds \cup {NoSession})
BY DEF TaskShape, Thread

LEMMA RestShape ==
    \A t : TaskShape(Rest(t)) /\ TaskShape(Done)
BY DEF TaskShape, Rest, Done, Suspended, Points, NoView

LEMMA SuspendedShape ==
    ASSUME NEW pc \in Points, NEW s \in SessionIds
    PROVE  /\ TaskShape(Suspended(pc, s))
           /\ TaskShape([Suspended(pc, s) EXCEPT !.call = "out"])
           /\ \A r \in SessionIds \cup {NoSession} : TaskShape([Suspended(pc, s) EXCEPT !.run = r])
BY DEF TaskShape, Suspended, NoView

\* The running task suspends.
LEMMA AtShape ==
    ASSUME NEW w, NEW t, Runs(w, t), Shape(w), NEW k, TaskShape(k)
    PROVE  Shape(At(w, t, k)) /\ Steady(w, At(w, t, k), {})
<1> DEFINE v == At(w, t, k)
<1>1. /\ v.store = w.store /\ v.fpga = w.fpga /\ v.runtime = w.runtime /\ v.expiry = w.expiry
      /\ v.disc = w.disc /\ v.counts = w.counts /\ v.tasks = Put(w.tasks, t, k)
      /\ v.calls = w.calls /\ v.zombies = w.zombies
  BY AtFields, AtParts DEF Runs
<1> HIDE DEF v
<1>2. \A x \in Tasks : v.tasks[x] = IF x = t THEN k ELSE w.tasks[x]
  BY <1>1 DEF Put, Runs
<1>3. \A x \in Tasks : TaskShape(v.tasks[x])
  BY <1>2 DEF Shape
<1>4. Shape(v)
  BY <1>1, <1>3 DEF Shape
<1> QED
  BY <1>1, <1>4, SteadySame DEF v

LEMMA SendShape ==
    ASSUME NEW w, NEW t, Runs(w, t), Shape(w), NEW pc \in Calling, NEW s \in SessionIds
    PROVE  Shape(Send(w, t, pc, s)) /\ Steady(w, Send(w, t, pc, s), {})
<1> DEFINE r == [op |-> Op(pc), ses |-> s, by |-> t, stage |-> "sent"]
           c == Append(w.calls, r)
           u == [w EXCEPT !.calls = c]
           k == [Suspended(pc, s) EXCEPT !.call = "out"]
<1>1. Send(w, t, pc, s) = At(u, t, k)
  BY DEF Send
<1>2. TaskShape(k)
  BY SuspendedShape DEF Points
<1>3. c \in Seq(Requests)
  <2>1. r \in Requests
    BY DEF Requests, Op, Runs
  <2> HIDE DEF r
  <2> QED
    BY <2>1 DEF Shape
<1> HIDE DEF c, k
<1>4. /\ IsWeb(u) /\ u.store = w.store /\ u.fpga = w.fpga /\ u.runtime = w.runtime
      /\ u.expiry = w.expiry /\ u.disc = w.disc /\ u.counts = w.counts /\ u.tasks = w.tasks
      /\ u.calls = c /\ u.zombies = w.zombies
  BY DEF Runs, IsWeb
<1> HIDE DEF u
<1>5. Runs(u, t) /\ Shape(u)
  BY <1>3, <1>4 DEF Runs, Shape
<1>6. Grown(w.calls, c)
  <2> DEFINE l == Len(w.calls)
  <2>1. /\ DOMAIN w.calls = 1..l /\ l \in Nat /\ DOMAIN c = 1..(l + 1)
        /\ \A i \in 1..(l + 1) : c[i] = IF i = l + 1 THEN r ELSE w.calls[i]
    BY DEF Shape, c
  <2> HIDE DEF c, l
  <2>2. r.stage = "sent"
    OBVIOUS
  <2> HIDE DEF r
  <2> QED
    BY <2>1, <2>2 DEF Grown
<1>7. Steady(w, u, {})
  BY <1>4, <1>6 DEF Steady, Accounts, Forward
<1> QED
  BY <1>1, <1>2, <1>5, <1>7, AtShape, SteadyTwice

LEMMA StopShape ==
    ASSUME NEW w, NEW t, Runs(w, t), Shape(w), NEW pc \in Stopping, NEW s \in SessionIds,
           NEW r \in SessionIds \cup {NoSession}
    PROVE  Shape(Stops(w, t, pc, s, r)) /\ Steady(w, Stops(w, t, pc, s, r), {})
<1> DEFINE u == [w EXCEPT !.runtime = NoSession]
           k == [Suspended(pc, s) EXCEPT !.run = r]
<1>1. Stops(w, t, pc, s, r) = At(u, t, k)
  BY DEF Stops
<1>2. TaskShape(k)
  BY SuspendedShape DEF Points
<1> HIDE DEF k
<1>3. /\ IsWeb(u) /\ u.store = w.store /\ u.fpga = w.fpga /\ u.runtime = NoSession
      /\ u.expiry = w.expiry /\ u.disc = w.disc /\ u.counts = w.counts /\ u.tasks = w.tasks
      /\ u.calls = w.calls /\ u.zombies = w.zombies
  BY DEF Runs, IsWeb
<1> HIDE DEF u
<1>4. Runs(u, t) /\ Shape(u) /\ Steady(w, u, {})
  BY <1>3, SteadySame DEF Runs, Shape
<1> QED
  BY <1>1, <1>2, <1>4, AtShape, SteadyTwice

LEMMA ReturnShape ==
    ASSUME NEW w, NEW t, Runs(w, t), Shape(w)
    PROVE  Shape(Return(w, t)) /\ Steady(w, Return(w, t), {})
<1> DEFINE k == Rest(t)
           v == At(w, t, k)
           l == v.disc \ {Subject(t)}
           r == Return(w, t)
<1>1. r \in {[v EXCEPT !.expiry = NoTask], [v EXCEPT !.disc = l], v}
  BY DEF Return
<1>2. Shape(v) /\ Steady(w, v, {})
  BY AtShape, RestShape
<1>3. IsWeb(v)
  BY AtFields DEF Runs
<1>4. l \subseteq v.disc
  OBVIOUS
<1> HIDE DEF r, v, l
<1>5. /\ r.store = v.store /\ r.fpga = v.fpga /\ r.runtime = v.runtime
      /\ r.expiry \in {v.expiry, NoTask} /\ r.disc \in {v.disc, l} /\ r.counts = v.counts
      /\ r.tasks = v.tasks /\ r.calls = v.calls /\ r.zombies = v.zombies
  BY <1>1, <1>3 DEF IsWeb
<1>6. Shape(r) /\ Steady(v, r, {})
  BY <1>2, <1>4, <1>5, SteadySame DEF Shape
<1> QED
  BY <1>2, <1>6, SteadyTwice DEF r

\* A task is cancelled.
LEMMA CancelShape ==
    ASSUME NEW w, NEW t, Runs(w, t), Shape(w), NEW x \in Tasks
    PROVE  Shape(CancelTask(w, x)) /\ Steady(w, CancelTask(w, x), {})
<1> DEFINE v == CancelTask(w, x)
           c == Orphaned(w.calls, x)
           z == w.zombies \cup Thread(w.tasks[x])
<1>1. /\ v.store = w.store /\ v.fpga = w.fpga /\ v.runtime = w.runtime /\ v.expiry = w.expiry
      /\ v.disc = w.disc /\ v.counts = w.counts /\ v.tasks = Put(w.tasks, x, Done)
      /\ v.calls = c /\ v.zombies = z
  <2>1. /\ v.store = w.store /\ v.disc = w.disc /\ v.tasks = Put(w.tasks, x, Done)
    BY CancelFields DEF Runs
  <2>2. IsWeb(w)
    BY DEF Runs
  <2>3. /\ v.fpga = w.fpga /\ v.runtime = w.runtime /\ v.expiry = w.expiry
        /\ v.counts = w.counts
    BY <2>2, CancelParts
  <2>4. v.calls = c
    BY <2>2, CancelParts
  <2>5. v.zombies = z
    BY <2>2, CancelParts
  <2> QED
    BY <2>1, <2>3, <2>4, <2>5
<1>2. c \in Seq(Requests)
  <2>1. Len(w.calls) \in Nat /\ DOMAIN w.calls = 1..Len(w.calls)
        /\ \A i \in 1..Len(w.calls) : w.calls[i] \in Requests
    BY DEF Shape
  <2>2. \A r \in Requests : [r EXCEPT !.by = NoTask] \in Requests
    BY DEF Requests
  <2>3. c \in [1..Len(w.calls) -> Requests]
    BY <2>1, <2>2 DEF Orphaned
  <2> QED
    BY <2>1, <2>3, SeqDef
<1>3. z \subseteq {"up", "down"} \X (SessionIds \cup {NoSession})
  BY ThreadShape DEF Shape
<1> HIDE DEF v, c, z
<1>4. \A y \in Tasks : TaskShape(v.tasks[y])
  BY <1>1, RestShape DEF Shape, Put, Runs
<1>5. Shape(v)
  BY <1>1, <1>2, <1>3, <1>4 DEF Shape
<1>6. Grown(w.calls, v.calls)
  <2>1. v.calls = Orphaned(w.calls, x) /\ w.calls \in Seq(Requests)
    BY <1>1 DEF c, Shape
  <2> QED
    BY <2>1, OrphanedGrown
<1>7. Steady(w, v, {})
  BY <1>1, <1>6 DEF Steady, Accounts, Forward
<1> QED
  BY <1>5, <1>7 DEF v

LEMMA CancelExpiryShape ==
    ASSUME NEW w, NEW t, Runs(w, t), Shape(w), NEW by
    PROVE  LET v == CancelExpiry(w, by)
           IN  Shape(v) /\ Steady(w, v, {}) /\ v.counts = w.counts
<1> DEFINE x == w.expiry
           u == [w EXCEPT !.expiry = NoTask]
<1>1. CancelExpiry(w, by) = IF x = NoTask \/ x = by THEN u ELSE CancelTask(u, x)
  BY DEF CancelExpiry
<1>2. /\ IsWeb(u) /\ u.store = w.store /\ u.fpga = w.fpga /\ u.runtime = w.runtime
      /\ u.expiry = NoTask /\ u.disc = w.disc /\ u.counts = w.counts /\ u.tasks = w.tasks
      /\ u.calls = w.calls /\ u.zombies = w.zombies
  BY DEF Runs, IsWeb
<1> HIDE DEF u
<1>3. Runs(u, t) /\ Shape(u) /\ Steady(w, u, {})
  BY <1>2, SteadySame DEF Runs, Shape
<1>4. ASSUME x # NoTask
      PROVE  /\ Shape(CancelTask(u, x)) /\ Steady(w, CancelTask(u, x), {})
             /\ CancelTask(u, x).counts = u.counts
  <2>1. x \in Tasks
    BY <1>4 DEF Shape
  <2>2. CancelTask(u, x).counts = u.counts
    BY <1>2, CancelParts
  <2>3. Shape(CancelTask(u, x)) /\ Steady(u, CancelTask(u, x), {})
    BY <1>3, <2>1, CancelShape
  <2> QED
    BY <1>3, <2>2, <2>3, SteadyTwice
<1> QED
  BY <1>1, <1>2, <1>3, <1>4

\* The timer that is scheduled is one of the tasks.
LEMMA ScheduleExpiryShape ==
    ASSUME NEW w, NEW t, Runs(w, t), Shape(w), NEW by, ActiveIs(w.store, "active"),
           Timed(ScheduleExpiry(w, by, w.store.active), t)
    PROVE  LET v == ScheduleExpiry(w, by, w.store.active)
           IN  Shape(v) /\ Steady(w, v, {})
<1> DEFINE s == w.store.active
           due == w.store.ses[s].expires
           x == Expirer(s, due)
           c == CancelExpiry(w, by)
           k == Suspended("sleep", s)
           d == Put(c.tasks, x, k)
           u == [c EXCEPT !.expiry = x]
           v == [u EXCEPT !.tasks = d]
           z == ScheduleExpiry(w, by, s)
<1>1. z = IF due = NoTime THEN c ELSE [c EXCEPT !.expiry = x, !.tasks[x] = k]
  BY DEF ScheduleExpiry
<1>2. Shape(c) /\ Steady(w, c, {}) /\ Runs(c, t)
  BY CancelExpiryShape, CancelExpiryRuns
<1>3. z.store = w.store
  BY ScheduleExpiryRuns
<1>4. due # NoTime => x \in Tasks
  <2> HIDE DEF z
  <2> QED
    BY <1>3 DEF Timed, Due, Alarm, z
<1>5. s \in SessionIds
  BY StoreFacts DEF Runs, StoreOK, ActiveIs
<1>6. TaskShape(k)
  BY <1>5, SuspendedShape DEF Points
<1> HIDE DEF c, z, x, due, k
<1>7. [c EXCEPT !.expiry = x, !.tasks[x] = k] = v
  <2>1. [c EXCEPT !.expiry = x, !.tasks[x] = k] = [c EXCEPT !.expiry = x, !.tasks = d]
    BY <1>2 DEF Put, IsWeb, Runs
  <2> HIDE DEF d
  <2> QED
    BY <2>1
<1> HIDE DEF d
<1>8. /\ IsWeb(u) /\ u.store = c.store /\ u.fpga = c.fpga /\ u.runtime = c.runtime
      /\ u.expiry = x /\ u.disc = c.disc /\ u.counts = c.counts
      /\ u.calls = c.calls /\ u.zombies = c.zombies
  BY <1>2 DEF Runs, IsWeb
<1> HIDE DEF u
<1>9. /\ v.store = c.store /\ v.fpga = c.fpga /\ v.runtime = c.runtime
      /\ v.expiry = x /\ v.disc = c.disc /\ v.counts = c.counts /\ v.tasks = d
      /\ v.calls = c.calls /\ v.zombies = c.zombies
  BY <1>8 DEF IsWeb
<1> HIDE DEF v
<1>10. \A y \in Tasks : TaskShape(d[y])
  BY <1>2, <1>6 DEF d, Put, Runs, Shape
<1>11. due # NoTime => Shape(v)
  BY <1>2, <1>4, <1>9, <1>10 DEF Shape
<1>12. Steady(w, v, {})
  BY <1>2, <1>9, SteadySame, SteadyTwice
<1> QED
  BY <1>1, <1>2, <1>7, <1>11, <1>12 DEF z, s

LEMMA CancelDisconnectShape ==
    ASSUME NEW w, NEW t, Runs(w, t), Shape(w), NEW by, NEW s \in SessionIds
    PROVE  LET v == CancelDisconnect(w, by, s)
           IN  Shape(v) /\ v.store = w.store /\ v.counts = w.counts /\ Steady(w, v, {})
<1> DEFINE x == Disconnector(s)
           l == w.disc \ {s}
           u == [w EXCEPT !.disc = l]
<1>1. CancelDisconnect(w, by, s) = IF s \notin w.disc \/ x = by THEN u ELSE CancelTask(u, x)
  BY DEF CancelDisconnect
<1>2. x \in Tasks
  BY TaskFacts
<1>3. l \subseteq w.disc
  OBVIOUS
<1> HIDE DEF l, x
<1>4. /\ IsWeb(u) /\ u.store = w.store /\ u.fpga = w.fpga /\ u.runtime = w.runtime
      /\ u.expiry = w.expiry /\ u.disc = l /\ u.counts = w.counts /\ u.tasks = w.tasks
      /\ u.calls = w.calls /\ u.zombies = w.zombies
  BY DEF Runs, IsWeb
<1> HIDE DEF u
<1>5. Runs(u, t) /\ Shape(u) /\ Steady(w, u, {})
  BY <1>3, <1>4, SteadySame DEF Runs, Shape
<1>6. Shape(CancelTask(u, x)) /\ Steady(u, CancelTask(u, x), {})
  BY <1>2, <1>5, CancelShape
<1>7. Steady(w, CancelTask(u, x), {})
  BY <1>5, <1>6, SteadyTwice
<1>8. CancelTask(u, x).store = u.store
  BY <1>2, <1>4, CancelFields
<1>9. CancelTask(u, x).counts = u.counts
  BY <1>2, <1>4, CancelParts
<1> QED
  BY <1>1, <1>4, <1>5, <1>6, <1>7, <1>8, <1>9

LEMMA ReleaseShape ==
    ASSUME NEW w, NEW t, Runs(w, t), Shape(w)
    PROVE  Shape(Release(w)) /\ Steady(w, Release(w), {}) /\ Release(w).counts = w.counts
<1> DEFINE q == Tail(w.flow)
           v == [w EXCEPT !.flow = q]
<1>1. Release(w) = v
  BY DEF Release
<1> HIDE DEF q
<1>2. /\ v.store = w.store /\ v.fpga = w.fpga /\ v.runtime = w.runtime
      /\ v.expiry = w.expiry /\ v.disc = w.disc /\ v.counts = w.counts /\ v.tasks = w.tasks
      /\ v.calls = w.calls /\ v.zombies = w.zombies
  BY DEF Runs, IsWeb
<1> HIDE DEF v
<1>3. Shape(v) /\ Steady(w, v, {})
  BY <1>2, SteadySame DEF Shape
<1> QED
  BY <1>1, <1>2, <1>3

-----------------------------------------------------------------------------
(* Nobody is timed out but by the store method that is told so *)

Blameless(m, o) ==
    \A s \in SessionIds : o.ses[s].reason = "timed_out" => m.ses[s].reason = "timed_out"

LEMMA UpdateBlameless ==
    ASSUME NEW m, m \in Store, NEW i, NEW s, s.reason = "timed_out" => m.ses[i].reason = "timed_out",
           NEW o, o.ses = [m.ses EXCEPT ![i] = s]
    PROVE  Blameless(m, o)
<1>1. \A j \in SessionIds : o.ses[j] = IF j = i THEN s ELSE m.ses[j]
  BY StoreFacts
<1> QED
  BY <1>1 DEF Blameless

LEMMA SessionFields ==
    ASSUME NEW r \in DemoSession
    PROVE  r = [user |-> r.user, demo |-> r.demo, status |-> r.status, started |-> r.started,
                expires |-> r.expires, reason |-> r.reason]
BY DEF DemoSession

LEMMA LeaveBlameless ==
    ASSUME NEW m, StoreOK(m), m.active # NoSession, NEW reason,
           reason = "timed_out" => m.ses[m.active].reason = "timed_out"
    PROVE  Blameless(m, LeaveBoard(m, reason))
<1> DEFINE i == m.active
           s == [m.ses[i] EXCEPT !.status = "ended", !.reason = reason]
           f == Update(m, i, s)
           o == LeaveBoard(m, reason)
<1>1. o = [m EXCEPT !.active = NoSession, !.ses = f]
  BY DEF LeaveBoard
<1>2. f = [m.ses EXCEPT ![i] = s]
  BY DEF Update
<1>3. m.ses[i] \in DemoSession /\ m \in Store
  BY StoreFacts DEF StoreOK
<1>4. s.reason = reason
  BY <1>3, SessionFields
<1> HIDE DEF s, f, o
<1>5. o.ses = f
  BY <1>1, <1>3 DEF Store
<1>6. s.reason = "timed_out" => m.ses[i].reason = "timed_out"
  BY <1>4
<1> HIDE DEF i
<1> QED
  BY <1>2, <1>3, <1>5, <1>6, UpdateBlameless DEF o

LEMMA FinishBlameless ==
    ASSUME NEW m, StoreOK(m) PROVE Blameless(m, FinishActive(m))
<1>1. CASE m.active = NoSession
  BY <1>1 DEF FinishActive, Blameless
<1>2. CASE m.active # NoSession
  BY <1>2, LeaveBlameless DEF FinishActive
<1> QED
  BY <1>1, <1>2

LEMMA FailStartBlameless ==
    ASSUME NEW m, StoreOK(m), NEW s, CanActivate(m, s) PROVE Blameless(m, FailStart(m, s))
BY LeaveBlameless DEF FailStart, CanActivate, IsActive

\* The end that begins is the owner's.
LEMMA BeginEndBlames ==
    ASSUME NEW m, StoreOK(m), m.active # NoSession, NEW reason
    PROVE  /\ reason # "timed_out" => Blameless(m, BeginEnd(m, reason))
           /\ \A j \in SessionIds : BeginEnd(m, reason).ses[j].reason = "timed_out" =>
                                       m.ses[j].reason = "timed_out" \/ j = m.active
<1> DEFINE i == m.active
           s == [m.ses[i] EXCEPT !.status = "ending", !.reason = reason]
           f == Update(m, i, s)
           o == BeginEnd(m, reason)
<1>1. o = [m EXCEPT !.ses = f]
  BY DEF BeginEnd
<1>2. f = [m.ses EXCEPT ![i] = s]
  BY DEF Update
<1>3. m.ses[i] \in DemoSession /\ m \in Store
  BY StoreFacts DEF StoreOK
<1>4. s.reason = reason
  BY <1>3, SessionFields
<1> HIDE DEF s, f, o
<1>5. o.ses = f
  BY <1>1, <1>3 DEF Store
<1>6. \A j \in SessionIds : o.ses[j] = IF j = i THEN s ELSE m.ses[j]
  BY <1>2, <1>3, <1>5, StoreFacts
<1> QED
  BY <1>2, <1>3, <1>4, <1>5, <1>6, UpdateBlameless DEF o

LEMMA BeginNextBlameless ==
    ASSUME NEW m, StoreOK(m), CanBegin(m) PROVE Blameless(m, BeginNext(m))
<1> DEFINE i == Head(m.queue)
           q == Tail(m.queue)
           s == [m.ses[i] EXCEPT !.status = "starting"]
           f == Update(m, i, s)
           o == BeginNext(m)
<1>1. o = [m EXCEPT !.queue = q, !.active = i, !.ses = f]
  BY DEF BeginNext
<1>2. f = [m.ses EXCEPT ![i] = s]
  BY DEF Update
<1>3. m.ses[i] \in DemoSession /\ m \in Store
  BY StoreFacts DEF StoreOK, CanBegin
<1>4. s.reason = m.ses[i].reason
  BY <1>3, SessionFields
<1> HIDE DEF s, f, o, q, i
<1>5. o.ses = f
  BY <1>1, <1>3 DEF Store
<1> QED
  BY <1>2, <1>3, <1>4, <1>5, UpdateBlameless DEF o

LEMMA ActivateBlameless ==
    ASSUME NEW m, StoreOK(m), NEW i, CanActivate(m, i), NEW n PROVE Blameless(m, Activate(m, i, n))
<1> DEFINE e == IF m.queue # << >> THEN n + Contended ELSE NoTime
           s == [m.ses[i] EXCEPT !.status = "active", !.started = n, !.expires = e]
           f == Update(m, i, s)
           o == Activate(m, i, n)
<1>1. o = [m EXCEPT !.ses = f]
  BY DEF Activate
<1>2. f = [m.ses EXCEPT ![i] = s]
  BY DEF Update
<1>3. m.ses[i] \in DemoSession /\ m \in Store
  BY StoreFacts DEF StoreOK, CanActivate, IsActive
<1> HIDE DEF e
<1>4. s.reason = m.ses[i].reason
  BY <1>3, SessionFields
<1> HIDE DEF s, f, o
<1>5. o.ses = f
  BY <1>1, <1>3 DEF Store
<1> QED
  BY <1>2, <1>3, <1>4, <1>5, UpdateBlameless DEF o

LEMMA BeginActiveEndBlames ==
    ASSUME NEW m, StoreOK(m), NEW reason
    PROVE  /\ reason # "timed_out" => Blameless(m, BeginActiveEnd(m, reason))
           /\ \A j \in SessionIds : BeginActiveEnd(m, reason).ses[j].reason = "timed_out" =>
                                       m.ses[j].reason = "timed_out" \/ j = m.active
BY BeginEndBlames DEF BeginActiveEnd, Blameless

\* Lifting or setting a deadline blames nobody.
LEMMA ExpiresBlameless ==
    ASSUME NEW m, m \in Store, NEW i \in SessionIds, NEW e, NEW o,
           o.ses = Update(m, i, [m.ses[i] EXCEPT !.expires = e])
    PROVE  Blameless(m, o)
<1> DEFINE s == [m.ses[i] EXCEPT !.expires = e]
<1>1. m.ses[i] \in DemoSession
  BY StoreFacts
<1>2. s.reason = m.ses[i].reason
  BY <1>1, SessionFields
<1> HIDE DEF s
<1>3. o.ses = [m.ses EXCEPT ![i] = s]
  BY DEF Update, s
<1> QED
  BY <1>2, <1>3, UpdateBlameless

LEMMA BlamelessTwice ==
    ASSUME NEW m, NEW o, NEW p, Blameless(m, o), Blameless(o, p) PROVE Blameless(m, p)
BY DEF Blameless

LEMMA CancelBlameless ==
    ASSUME NEW m, StoreOK(m), NEW i \in SessionIds PROVE Blameless(m, Cancel(m, i))
<1> DEFINE q == RemoveFromQueue(m.queue, i)
           s == [m.ses[i] EXCEPT !.status = "ended", !.reason = "cancelled"]
           f == [m.ses EXCEPT ![i] = s]
           p == [m EXCEPT !.queue = q, !.ses = f]
           g == ClearExpiryIfQueueEmpty(p)
           a == m.active
           o == Cancel(m, i)
<1>1. o = [p EXCEPT !.ses = g]
  BY DEF Cancel, Update
<1>2. m.ses[i] \in DemoSession /\ m \in Store
  BY StoreFacts DEF StoreOK
<1>3. s.reason = "cancelled" /\ s \in DemoSession
  BY <1>2 DEF DemoSession, SessionStatus, SessionEndReason
<1> HIDE DEF s
<1>4. f \in [SessionIds -> DemoSession]
  BY <1>3, SessionsType DEF StoreOK
<1> HIDE DEF q, f
<1>5. DOMAIN m = {"ses", "count", "queue", "active"}
  BY <1>2 DEF Store
<1>6. p.ses = f /\ p.active = a /\ o.ses = g
  <2> HIDE DEF g
  <2>1. DOMAIN p = DOMAIN m
    OBVIOUS
  <2>2. p.ses = f
    BY <1>5
  <2>3. p.active = a
    BY <1>5
  <2> HIDE DEF p, o
  <2> QED
    BY <1>1, <1>5, <2>1, <2>2, <2>3
<1> HIDE DEF p, g
<1>7. Blameless(m, p)
  BY <1>2, <1>3, <1>6, UpdateBlameless DEF f
<1>8. g \in {p.ses, Update(p, a, [p.ses[a] EXCEPT !.expires = NoTime])}
  BY <1>6 DEF g, ClearExpiryIfQueueEmpty
<1>9. CASE g = p.ses
  BY <1>6, <1>7, <1>9 DEF Blameless, o
<1>10. CASE g # p.ses
  <2> DEFINE t == [p.ses[a] EXCEPT !.expires = NoTime]
  <2>1. a \in SessionIds
    BY <1>2, <1>6, <1>10, StoreFacts DEF g, ClearExpiryIfQueueEmpty, ActiveIs
  <2>2. g = [p.ses EXCEPT ![a] = t]
    BY <1>8, <1>10 DEF Update
  <2>3. t.reason = p.ses[a].reason
    BY <1>4, <1>6, <2>1, SessionFields
  <2> HIDE DEF t
  <2>4. \A j \in SessionIds : g[j] = IF j = a THEN t ELSE p.ses[j]
    BY <1>4, <1>6, <2>2
  <2>5. Blameless(p, o)
    BY <1>6, <2>3, <2>4 DEF Blameless
  <2> QED
    BY <1>7, <2>5, BlamelessTwice
<1> QED
  BY <1>9, <1>10

LEMMA CreateBlameless ==
    ASSUME NEW m, StoreOK(m), NEW u \in Users, NEW d \in Demos, NEW k \in Nat
    PROVE  Blameless(m, Create(m, u, d, k))
<1> DEFINE i == m.count + 1
           q == Append(m.queue, i)
           s == NewSession(u, d)
           f == [m.ses EXCEPT ![i] = s]
           p == CreateWithoutDeadline(m, u, d, k)
           a == m.active
           o == Create(m, u, d, k)
           limits == ActiveIs(m, "active") /\ m.ses[a].expires = NoTime
           t == [m.ses[a] EXCEPT !.expires = ContendedExpiry(m.ses[a], k)]
           g == [p.ses EXCEPT ![a] = t]
<1>1. p = [m EXCEPT !.count = i, !.queue = q, !.ses = f]
  BY DEF CreateWithoutDeadline, Update
<1>2. o = IF limits THEN [p EXCEPT !.ses = g] ELSE p
  BY DEF Create, Update
<1>3. m \in Store
  BY DEF StoreOK
<1>4. s.reason = "none" /\ s \in DemoSession
  BY DEF NewSession, Blank, DemoSession, SessionStatus, Time
<1> HIDE DEF s, i
<1>5. DOMAIN f = SessionIds
  BY <1>3, StoreFacts
<1> HIDE DEF q, f, p
<1>6. p = [ses |-> f, count |-> i, queue |-> q, active |-> a]
  BY <1>1, <1>3 DEF Store
<1>7. p.ses = f
  BY <1>6
<1>8. Blameless(m, p)
  BY <1>3, <1>4, <1>7, UpdateBlameless DEF f
<1>9. CASE limits
  <2>1. a \in SessionIds
    BY <1>3, <1>9, StoreFacts DEF ActiveIs
  <2>2. t.reason = m.ses[a].reason
    BY <1>3, <2>1, StoreFacts, SessionFields
  <2> HIDE DEF t
  <2>3. \A j \in SessionIds : g[j] = IF j = a THEN t ELSE p.ses[j]
    BY <1>5, <1>7
  <2> HIDE DEF g
  <2>4. o.ses = g
    BY <1>2, <1>6, <1>9
  <2> HIDE DEF o
  <2> QED
    BY <1>8, <2>2, <2>3, <2>4 DEF Blameless, o
<1>10. CASE ~limits
  BY <1>2, <1>8, <1>10
<1> QED
  BY <1>9, <1>10

\* A store method that blames nobody.
LEMMA BlamelessShape ==
    ASSUME NEW w, IsWeb(w), Shape(w), NEW m, Forward(w.store, m), Blameless(w.store, m)
    PROVE  LET v == [w EXCEPT !.store = m]
           IN  Shape(v) /\ v.store = m /\ v.runtime = w.runtime /\ v.counts = w.counts /\ Steady(w, v, {})
BY StoreShape DEF Blameless

-----------------------------------------------------------------------------
(* The methods *)

\* What a method leaves when it is done with w.
Shaped(w, v, who) == Shape(v) /\ Steady(w, v, who)

LEMMA ShapedTwice ==
    ASSUME NEW w, NEW v, NEW u, NEW who, Shaped(w, v, {}), Shaped(v, u, who) PROVE Shaped(w, u, who)
BY SteadyTwice DEF Shaped

LEMMA ShapedMethods ==
    ASSUME NEW w, NEW t, Runs(w, t), Shape(w)
    PROVE  /\ Shaped(w, w, {})
           /\ Shaped(w, Return(w, t), {})
           /\ Shaped(w, Release(w), {})
           /\ \A k : TaskShape(k) => Shaped(w, At(w, t, k), {})
           /\ \A pc \in Calling, s \in SessionIds : Shaped(w, Send(w, t, pc, s), {})
           /\ \A pc \in Stopping, s \in SessionIds : Shaped(w, Stops(w, t, pc, s, w.runtime), {})
<1>1. w.runtime \in SessionIds \cup {NoSession}
  BY DEF Shape
<1>2. Shaped(w, w, {})
  BY SteadySame DEF Shaped
<1>3. Shaped(w, Return(w, t), {}) /\ Shaped(w, Release(w), {})
  BY ReturnShape, ReleaseShape DEF Shaped
<1>4. \A k : TaskShape(k) => Shaped(w, At(w, t, k), {})
  BY AtShape DEF Shaped
<1>5. \A pc \in Calling, s \in SessionIds : Shaped(w, Send(w, t, pc, s), {})
  BY SendShape DEF Shaped
<1>6. \A pc \in Stopping, s \in SessionIds : Shaped(w, Stops(w, t, pc, s, w.runtime), {})
  BY <1>1, StopShape DEF Shaped
<1> QED
  BY <1>2, <1>3, <1>4, <1>5, <1>6

LEMMA StartedShape ==
    ASSUME NEW w, NEW t, NEW s \in SessionIds, Good(now, w, t), Shape(w)
    PROVE  Shaped(w, Started(w, t, s), {})
<1>1. Runs(w, t) /\ IsWeb(w) /\ StoreOK(w.store) /\ now \in Nat
  BY DEF Good, Ready, Punctual, Runs
<1>2. CASE CanActivate(w.store, s)
  <2> DEFINE m == Activate(w.store, s, now)
             v == [w EXCEPT !.store = m]
             u == ScheduleExpiry(v, t, s)
  <2>1. Started(w, t, s) = Return(u, t)
    BY <1>2 DEF Started
  <2>2. Good(now, u, t)
    BY <1>2, ActivateGood
  <2>3. /\ StoreOK(m) /\ Forward(w.store, m) /\ ActiveIs(m, "active") /\ Blameless(w.store, m)
        /\ m.active = s
    BY <1>1, <1>2, ActivateOK, ActivateBlameless, ActivateTimely, GoodFacts
  <2> HIDE DEF m
  <2>4. Runs(v, t) /\ Shaped(w, v, {}) /\ v.store = m
    BY <1>1, <2>3, StoreRuns, BlamelessShape DEF Shaped
  <2> HIDE DEF v
  <2>5. Timed(u, t) /\ Runs(u, t)
    BY <2>2 DEF Good, Ready
  <2>6. Shaped(v, u, {})
    BY <2>3, <2>4, <2>5, ScheduleExpiryShape DEF Shaped
  <2> HIDE DEF u
  <2>7. Shaped(w, u, {})
    BY <2>4, <2>6, ShapedTwice
  <2>8. Shaped(u, Return(u, t), {})
    BY <2>5, <2>7, ShapedMethods DEF Shaped
  <2> QED
    BY <2>1, <2>7, <2>8, ShapedTwice
<1>3. CASE ~CanActivate(w.store, s)
  <2>1. Started(w, t, s) = IF w.runtime = NoSession THEN Return(w, t)
                           ELSE Stops(w, t, "latestop", s, w.runtime)
    BY <1>3 DEF Started, Stops
  <2>2. "latestop" \in Stopping
    BY DEF Stopping
  <2> QED
    BY <1>1, <2>1, <2>2, ShapedMethods
<1> QED
  BY <1>2, <1>3

LEMMA ProgrammedShape ==
    ASSUME NEW w, NEW t, NEW s \in SessionIds, Good(now, w, t), Shape(w)
    PROVE  Shaped(w, Programmed(w, t, s), {})
<1>1. TaskShape(Suspended("rt", s))
  BY SuspendedShape DEF Points
<1>2. Shaped(w, At(w, t, Suspended("rt", s)), {})
  BY <1>1, ShapedMethods DEF Good, Ready
<1> QED
  BY <1>2, StartedShape DEF Programmed

LEMMA ProgramPSShape ==
    ASSUME NEW w, NEW t, NEW s \in SessionIds, Good(now, w, t), Shape(w)
    PROVE  Shaped(w, ProgramPS(w, t, s), {})
<1>1. Shaped(w, Send(w, t, "ps", s), {})
  BY ShapedMethods DEF Good, Ready, Calling
<1> QED
  BY <1>1, ProgrammedShape DEF ProgramPS

LEMMA ProgramPLShape ==
    ASSUME NEW w, NEW t, NEW s \in SessionIds, Good(now, w, t), Shape(w)
    PROVE  Shaped(w, ProgramPL(w, t, s), {})
<1>1. Shaped(w, Send(w, t, "pl", s), {})
  BY ShapedMethods DEF Good, Ready, Calling
<1> QED
  BY <1>1, ProgramPSShape DEF ProgramPL

LEMMA TryStartNextShape ==
    ASSUME NEW w, NEW t, Good(now, w, t), Shape(w)
    PROVE  Shaped(w, TryStartNext(w, t), {})
<1>1. Runs(w, t) /\ IsWeb(w) /\ StoreOK(w.store)
  BY DEF Good, Ready, Runs
<1>2. CASE MayStart(w) /\ CanBegin(w.store)
  <2> DEFINE m == BeginNext(w.store)
             v == [w EXCEPT !.store = m]
             s == Head(w.store.queue)
  <2>1. Timely(now, w.store, m) /\ Due(m) = NoTime
    BY <1>2, GoodFacts, BeginNextTimely
  <2>2. TryStartNext(w, t) = ProgramPL(v, t, s)
    BY <1>2 DEF TryStartNext
  <2>3. s \in SessionIds
    BY <1>1, <1>2, StoreFacts DEF StoreOK, CanBegin
  <2>4. Forward(w.store, m) /\ Blameless(w.store, m)
    BY <1>1, <1>2, BeginNextOK, BeginNextBlameless
  <2> HIDE DEF m, s
  <2>5. Good(now, v, t)
    BY <2>1, GoodFacts, StoreReady
  <2>6. Shaped(w, v, {})
    BY <1>1, <2>4, BlamelessShape DEF Shaped
  <2> HIDE DEF v
  <2>7. Shaped(v, ProgramPL(v, t, s), {})
    BY <2>3, <2>5, <2>6, ProgramPLShape DEF Shaped
  <2> QED
    BY <2>2, <2>6, <2>7, ShapedTwice
<1>3. CASE ~(MayStart(w) /\ CanBegin(w.store))
  BY <1>1, <1>3, ShapedMethods DEF TryStartNext
<1> QED
  BY <1>2, <1>3

LEMMA StartFailedShape ==
    ASSUME NEW n, NEW w, NEW t, NEW s \in SessionIds, Good(n, w, t), Shape(w)
    PROVE  Shaped(w, StartFailed(w, t, s), {})
<1> DEFINE m == IF CanActivate(w.store, s) THEN FailStart(w.store, s) ELSE w.store
           v == [w EXCEPT !.store = m]
<1>1. Runs(w, t) /\ IsWeb(w) /\ StoreOK(w.store)
  BY DEF Good, Ready, Runs
<1>2. StoreOK(m) /\ Forward(w.store, m) /\ Blameless(w.store, m)
  BY <1>1, FailStartOK, FailStartBlameless DEF Forward, Blameless
<1>3. StartFailed(w, t, s) = Send(v, t, "failreset", s)
  BY DEF StartFailed
<1> HIDE DEF m
<1>4. Runs(v, t) /\ Shaped(w, v, {})
  BY <1>1, <1>2, StoreRuns, BlamelessShape DEF Shaped
<1> HIDE DEF v
<1>5. Shaped(v, Send(v, t, "failreset", s), {})
  BY <1>4, ShapedMethods DEF Shaped, Calling
<1> QED
  BY <1>3, <1>4, <1>5, ShapedTwice

LEMMA StartErrorShape ==
    ASSUME NEW n, NEW w, NEW t, NEW s \in SessionIds, Good(n, w, t), Shape(w)
    PROVE  Shaped(w, StartError(w, t, s), {})
<1>1. Shaped(w, Stops(w, t, "failstop", s, w.runtime), {})
  BY ShapedMethods DEF Good, Ready, Stopping
<1> QED
  BY <1>1, StartFailedShape DEF StartError, Stops

LEMMA EndUnderLockShape ==
    ASSUME NEW w, NEW t, NEW s \in SessionIds, Runs(w, t), Shape(w)
    PROVE  Shaped(w, EndUnderLock(w, t, s), {})
<1>1. Shaped(w, Stops(w, t, "stop", s, w.runtime), {})
  BY ShapedMethods DEF Stopping
<1>2. Shaped(w, Send(w, t, "reset", s), {})
  BY ShapedMethods DEF Calling
<1> QED
  BY <1>1, <1>2 DEF EndUnderLock, Stops

\* Only a disconnect timer blames, and it blames the owner.
Blamed(w, t) == IF Kind(t) = "disconnect" THEN {ActiveId(w)} ELSE {}

LEMMA LockedShape ==
    ASSUME NEW w, NEW t, Runs(w, t), Shape(w), Kind(t) \in LockKinds
    PROVE  Shaped(w, Locked(w, t), Blamed(w, t))
<1>1. IsWeb(w) /\ StoreOK(w.store)
  BY DEF Runs
<1>2. CASE Kind(t) = "end"
  <2>1. Subject(t) \in SessionIds
    BY <1>2, TaskFacts DEF Runs, Tasks, Kind, Subject, Watch, Creator, Ender, Disconnector, Expirer
  <2> QED
    BY <1>2, <2>1, EndUnderLockShape DEF Locked, Blamed
<1>3. CASE Kind(t) # "end" /\ ActiveId(w) = NoSession
  <2>1. Locked(w, t) = Return(Release(w), t)
    BY <1>3 DEF Locked
  <2>2. Runs(Release(w), t) /\ Shaped(w, Release(w), {})
    BY ReleaseRuns, ShapedMethods
  <2>3. Shaped(Release(w), Return(Release(w), t), {})
    BY <2>2, ShapedMethods DEF Shaped
  <2>4. Shaped(w, Locked(w, t), {})
    BY <2>1, <2>2, <2>3, ShapedTwice
  <2> QED
    BY <2>4 DEF Shaped, Steady, Accounts
<1>4. CASE Kind(t) # "end" /\ ActiveId(w) # NoSession
  <2> DEFINE m == BeginActiveEnd(w.store, Reason(t))
             v == [w EXCEPT !.store = m]
             a == ActiveId(w)
             who == Blamed(w, t)
  <2>1. Reason(t) \in SessionEndReason /\ (Reason(t) = "timed_out" => Kind(t) = "disconnect")
    BY <1>4 DEF Reason, LockKinds, SessionEndReason, TimeLimit
  <2>2. StoreOK(m) /\ Forward(w.store, m)
    BY <1>1, <2>1, BeginActiveEndOK
  <2>3. \A s \in SessionIds : m.ses[s].reason = "timed_out" =>
                                 w.store.ses[s].reason = "timed_out" \/ s \in who
    BY <1>1, <2>1, BeginActiveEndBlames DEF Blamed, Blameless, ActiveId
  <2>4. a \in SessionIds
    BY <1>1, <1>4, StoreFacts DEF StoreOK, ActiveId
  <2>5. Locked(w, t) = EndUnderLock(v, t, a)
    BY <1>4 DEF Locked
  <2> HIDE DEF m, who, a
  <2>6. Runs(v, t)
    BY <2>2, StoreRuns
  <2>7. Shaped(w, v, who)
    BY <1>1, <2>2, <2>3, StoreShape DEF Shaped
  <2> HIDE DEF v
  <2>8. Shaped(v, EndUnderLock(v, t, a), {})
    BY <2>4, <2>6, <2>7, EndUnderLockShape DEF Shaped
  <2>9. Shaped(w, EndUnderLock(v, t, a), who)
    BY <2>7, <2>8, SteadyBlames DEF Shaped
  <2> QED
    BY <2>5, <2>9 DEF who
<1> QED
  BY <1>2, <1>3, <1>4

LEMMA AcquireShape ==
    ASSUME NEW w, NEW t, Runs(w, t), Shape(w), Kind(t) \in LockKinds
    PROVE  Shaped(w, Acquire(w, t), Blamed(w, t))
<1> DEFINE q == Append(w.flow, t)
           v == [w EXCEPT !.flow = q]
           k == Suspended("lock", Subject(t))
<1>1. Acquire(w, t) = IF w.flow = << >> THEN Locked(v, t) ELSE At(v, t, k)
  BY DEF Acquire
<1>2. TaskShape(k)
  <2>1. Subject(t) \in SessionIds
    BY TaskFacts DEF Runs, LockKinds, Tasks, Kind, Subject, Watch, Creator, Ender, Disconnector, Expirer
  <2> QED
    BY <2>1, SuspendedShape DEF Points
<1> HIDE DEF q, k
<1>3. /\ IsWeb(v) /\ v.store = w.store /\ v.fpga = w.fpga /\ v.runtime = w.runtime
      /\ v.expiry = w.expiry /\ v.disc = w.disc /\ v.counts = w.counts /\ v.tasks = w.tasks
      /\ v.calls = w.calls /\ v.zombies = w.zombies
  BY DEF Runs, IsWeb
<1> HIDE DEF v
<1>4. Runs(v, t) /\ Shaped(w, v, {}) /\ Blamed(v, t) = Blamed(w, t)
  BY <1>3, SteadySame DEF Runs, Shape, Shaped, Blamed, ActiveId
<1>5. Shaped(v, Locked(v, t), Blamed(w, t))
  BY <1>4, LockedShape DEF Shaped
<1>6. Shaped(w, Locked(v, t), Blamed(w, t))
  BY <1>4, <1>5, ShapedTwice
<1>7. Shaped(v, At(v, t, k), {})
  BY <1>2, <1>4, ShapedMethods DEF Shaped
<1>8. Shaped(w, At(v, t, k), Blamed(w, t))
  <2>1. Shaped(w, At(v, t, k), {})
    BY <1>4, <1>7, ShapedTwice
  <2> QED
    BY <2>1 DEF Shaped, Steady, Accounts
<1> QED
  BY <1>1, <1>6, <1>8

LEMMA FinishEnds ==
    ASSUME NEW m, StoreOK(m), m.active # NoSession
    PROVE  StatusOf(FinishActive(m), m.active) = "ended"
<1> DEFINE i == m.active
           r == m.ses[i].reason
           s == [m.ses[i] EXCEPT !.status = "ended", !.reason = r]
           f == Update(m, i, s)
           o == FinishActive(m)
<1>1. o = [m EXCEPT !.active = NoSession, !.ses = f]
  BY DEF FinishActive, LeaveBoard
<1>2. i \in SessionIds /\ m.ses[i] \in DemoSession /\ m \in Store
  BY StoreFacts DEF StoreOK
<1>3. s.status = "ended"
  BY <1>2, SessionFields
<1>4. f[i] = s
  <2> HIDE DEF s
  <2> QED
    BY <1>2, StoreFacts DEF Update
<1> HIDE DEF s, f, o
<1>5. o.ses = f
  BY <1>1, <1>2 DEF Store
<1> QED
  BY <1>3, <1>4, <1>5 DEF StatusOf, o

LEMMA FinishShape ==
    ASSUME NEW n, NEW w, NEW t, Ready(n, w, t), Shape(w)
    PROVE  LET v == [w EXCEPT !.store = FinishActive(@)]
           IN  /\ Good(n, v, t) /\ Shaped(w, v, {}) /\ v.store = FinishActive(w.store)
               /\ v.counts = w.counts
<1> DEFINE m == FinishActive(w.store)
<1>1. IsWeb(w) /\ StoreOK(w.store)
  BY DEF Ready, Runs
<1>2. Forward(w.store, m) /\ Blameless(w.store, m)
  BY <1>1, FinishOK, FinishBlameless
<1>3. Good(n, [w EXCEPT !.store = FinishActive(@)], t)
  BY FinishGood
<1>4. [w EXCEPT !.store = FinishActive(@)] = [w EXCEPT !.store = m]
  OBVIOUS
<1> HIDE DEF m
<1>5. /\ Shaped(w, [w EXCEPT !.store = m], {}) /\ [w EXCEPT !.store = m].store = m
      /\ [w EXCEPT !.store = m].counts = w.counts
  BY <1>1, <1>2, BlamelessShape DEF Shaped
<1> QED
  BY <1>3, <1>4, <1>5 DEF m

\* The counts of the session that has left the board are dropped.
LEMMA EndedShape ==
    ASSUME NEW w, NEW t, Ready(now, w, t), Shape(w)
    PROVE  Shaped(w, Ended(w, t), {})
<1> DEFINE a == ActiveId(w)
           f == [w EXCEPT !.store = FinishActive(@)]
           c == [f.counts EXCEPT ![a] = 0]
           h == [f EXCEPT !.counts = c]
           v == IF Kind(t) = "end" \/ a = NoSession THEN f ELSE CancelDisconnect(h, t, a)
<1>1. Ended(w, t) = TryStartNext(Release(v), t)
  BY DEF Ended
<1>2. Good(now, f, t) /\ Shaped(w, f, {}) /\ f.counts = w.counts
  BY FinishShape
<1>3. a # NoSession => a \in SessionIds /\ StatusOf(f.store, a) = "ended"
  <2>1. StoreOK(w.store) /\ f.store = FinishActive(w.store)
    BY FinishShape DEF Ready, Runs
  <2> QED
    BY <2>1, FinishEnds, StoreFacts DEF ActiveId, StoreOK
<1> HIDE DEF a, f
<1>4. \A s \in SessionIds : c[s] = IF s = a THEN 0 ELSE w.counts[s]
  BY <1>2 DEF Shape
<1>5. c = [s \in SessionIds |-> c[s]]
  BY <1>2 DEF Shape
<1> HIDE DEF c
<1>6. /\ IsWeb(h) /\ h.store = f.store /\ h.fpga = f.fpga /\ h.runtime = f.runtime
      /\ h.expiry = f.expiry /\ h.disc = f.disc /\ h.counts = c /\ h.tasks = f.tasks
      /\ h.calls = f.calls /\ h.zombies = f.zombies
  BY <1>2 DEF Good, Ready, Runs, IsWeb
<1> HIDE DEF h
<1>7. Ready(now, h, t) /\ Timed(h, t)
  BY <1>2, <1>6, SameReady DEF Good
<1>8. a # NoSession => Shaped(w, h, {})
  <2>1. Shape(h)
    BY <1>2, <1>5, <1>6 DEF Shape, Shaped
  <2> QED
    BY <1>2, <1>3, <1>4, <1>6, <2>1 DEF Shaped, Steady, Accounts, Ending
<1>9. Good(now, v, t)
  BY <1>2, <1>3, <1>7, CancelDisconnectReady DEF Good
<1>10. Shaped(w, v, {})
  <2>1. CASE Kind(t) = "end" \/ a = NoSession
    BY <1>2, <2>1
  <2>2. CASE ~(Kind(t) = "end" \/ a = NoSession)
    <3>1. Shaped(h, CancelDisconnect(h, t, a), {})
      BY <1>3, <1>7, <1>8, <2>2, CancelDisconnectShape DEF Shaped, Ready
    <3> QED
      BY <1>8, <2>2, <3>1, ShapedTwice
  <2> QED
    BY <2>1, <2>2
<1> HIDE DEF v
<1>11. Good(now, Release(v), t)
  BY <1>9, ReleaseReady DEF Good
<1>12. Shaped(v, Release(v), {})
  BY <1>9, <1>10, ShapedMethods DEF Shaped, Good, Ready
<1>13. Shaped(w, Release(v), {})
  BY <1>10, <1>12, ShapedTwice
<1>14. Shaped(Release(v), TryStartNext(Release(v), t), {})
  BY <1>11, <1>13, TryStartNextShape DEF Shaped
<1> QED
  BY <1>1, <1>13, <1>14, ShapedTwice

LEMMA ProblemEndedShape ==
    ASSUME NEW n, NEW w, Ready(n, w, Watch), Shape(w) PROVE Shaped(w, ProblemEnded(w), {})
<1> DEFINE v == [w EXCEPT !.store = FinishActive(@)]
<1>1. ProblemEnded(w) = Return(v, Watch)
  BY DEF ProblemEnded
<1>2. Good(n, v, Watch) /\ Shaped(w, v, {})
  BY FinishShape
<1> HIDE DEF v
<1>3. Shaped(v, Return(v, Watch), {})
  BY <1>2, ShapedMethods DEF Shaped, Good, Ready
<1> QED
  BY <1>1, <1>2, <1>3, ShapedTwice

LEMMA ProblemStoppedShape ==
    ASSUME NEW n, NEW w, Good(n, w, Watch), Shape(w), NEW s \in SessionIds, NEW reserved
    PROVE  Shaped(w, ProblemStopped(w, s, reserved), {})
<1>1. Shaped(w, Send(w, Watch, "reservedreset", s), {})
  BY ShapedMethods DEF Good, Ready, Calling
<1> QED
  BY <1>1, ProblemEndedShape DEF ProblemStopped, Good

LEMMA BoardProblemShape ==
    ASSUME NEW n, NEW w, Ready(n, w, Watch), Shape(w), NEW reason \in BoardProblem
    PROVE  Shaped(w, EndForBoardProblem(w, reason), {})
<1> DEFINE s == ActiveId(w)
           c == CancelExpiry(w, Watch)
           m == BeginActiveEnd(c.store, reason)
           v == [c EXCEPT !.store = m]
           pc == IF reason = "reserved" THEN "reservedstop" ELSE "problemstop"
           r == w.runtime
<1>1. EndForBoardProblem(w, reason) =
        IF s = NoSession THEN Return(c, Watch)
        ELSE IF w.runtime = NoSession THEN ProblemStopped(v, s, reason = "reserved")
        ELSE Stops(v, Watch, pc, s, r)
  BY DEF EndForBoardProblem, Stops
<1>2. Ready(n, c, Watch) /\ c.store = w.store /\ Shaped(w, c, {})
  BY CancelExpiryReady, CancelExpiryShape DEF Ready, Shaped
<1>3. pc \in Stopping
  BY DEF Stopping
<1>4. r \in SessionIds \cup {NoSession}
  BY DEF Shape
<1> HIDE DEF c, pc, r
<1>5. CASE s = NoSession
  <2>1. Shaped(c, Return(c, Watch), {})
    BY <1>2, ShapedMethods DEF Ready, Shaped
  <2> QED
    BY <1>1, <1>2, <1>5, <2>1, ShapedTwice
<1>6. CASE s # NoSession
  <2>1. Timely(n, c.store, m) /\ Due(m) = NoTime
    BY <1>2, BeginActiveEndTimely DEF Ready, Runs, SessionEndReason
  <2>2. Forward(c.store, m) /\ Blameless(c.store, m)
    BY <1>2, BeginActiveEndOK, BeginActiveEndBlames DEF Ready, Runs, SessionEndReason, BoardProblem
  <2>3. s \in SessionIds
    BY <1>6, StoreFacts DEF Ready, Runs, StoreOK, ActiveId
  <2> HIDE DEF m, s
  <2>4. Good(n, v, Watch)
    BY <1>2, <2>1, StoreReady
  <2>5. Shaped(c, v, {})
    BY <1>2, <2>2, BlamelessShape DEF Ready, Runs, Shaped
  <2> HIDE DEF v
  <2>6. Shaped(w, v, {})
    BY <1>2, <2>5, ShapedTwice
  <2>7. Shaped(v, ProblemStopped(v, s, reason = "reserved"), {})
    BY <2>3, <2>4, <2>6, ProblemStoppedShape DEF Shaped
  <2>8. Shaped(v, Stops(v, Watch, pc, s, r), {})
    BY <1>3, <1>4, <2>3, <2>4, <2>6, StopShape DEF Shaped, Good, Ready
  <2> QED
    BY <1>1, <1>6, <2>6, <2>7, <2>8, ShapedTwice
<1> QED
  BY <1>5, <1>6

LEMMA HandleBoardStateShape ==
    ASSUME NEW w, Good(now, w, Watch), Shape(w), NEW view \in View
    PROVE  Shaped(w, HandleBoardState(w, view), {})
<1> DEFINE v == [w EXCEPT !.fpga = view]
<1>1. HandleBoardState(w, view) \in
        {EndForBoardProblem(v, r) : r \in BoardProblem} \cup {TryStartNext(v, Watch), v}
  BY DEF HandleBoardState, BoardProblem
<1>2. /\ IsWeb(v) /\ v.store = w.store /\ v.fpga = view /\ v.runtime = w.runtime
      /\ v.expiry = w.expiry /\ v.disc = w.disc /\ v.counts = w.counts /\ v.tasks = w.tasks
      /\ v.calls = w.calls /\ v.zombies = w.zombies
  BY DEF Good, Ready, Runs, IsWeb
<1> HIDE DEF v
<1>3. Good(now, v, Watch)
  BY <1>2, SameReady DEF Good
<1>4. Shaped(w, v, {})
  BY <1>2, SteadySame DEF Shape, Shaped
<1>5. Shaped(v, v, {}) /\ Shaped(v, TryStartNext(v, Watch), {})
  BY <1>3, <1>4, TryStartNextShape, SteadySame DEF Shaped
<1>6. \A r \in BoardProblem : Shaped(v, EndForBoardProblem(v, r), {})
  BY <1>3, <1>4, BoardProblemShape DEF Good, Shaped
<1> QED
  BY <1>1, <1>4, <1>5, <1>6, ShapedTwice

-----------------------------------------------------------------------------
(* The answers of the agent *)

\* The request i has been answered, and the task that waits for it told so.
Told(w, v, i, call) ==
    /\ v.store = w.store /\ v.expiry = w.expiry /\ v.zombies = w.zombies /\ v.runtime = w.runtime
    /\ v.calls = RemoveAt(w.calls, i)
    /\ \A x \in Tasks :
          /\ v.tasks[x].pc = w.tasks[x].pc
          /\ v.tasks[x].ses = w.tasks[x].ses
          /\ v.tasks[x].run = w.tasks[x].run
          /\ v.tasks[x].call = IF x = w.calls[i].by THEN call ELSE w.tasks[x].call

LEMMA AnswerTold ==
    ASSUME NEW w, Runs(w, Watch), \A x \in Tasks : IsTask(w.tasks[x]), NEW i, NEW call, NEW ans
    PROVE  LET v == Answer(w, i, call, ans)
           IN  /\ Told(w, v, i, call)
               /\ v.fpga = w.fpga /\ v.disc = w.disc /\ v.counts = w.counts
               /\ \A x \in Tasks : /\ v.tasks[x].ans = IF x = w.calls[i].by THEN ans ELSE w.tasks[x].ans
                                   /\ IsTask(v.tasks[x])
<1> DEFINE t == w.calls[i].by
           c == RemoveAt(w.calls, i)
           l == [w EXCEPT !.calls = c]
           d == [l.tasks EXCEPT ![t].call = call]
           u == [l EXCEPT !.tasks = d]
           e == [u.tasks EXCEPT ![t].ans = ans]
           v == [u EXCEPT !.tasks = e]
<1>1. Answer(w, i, call, ans) = IF t = NoTask THEN l
                                ELSE [l EXCEPT !.tasks[t].call = call, !.tasks[t].ans = ans]
  BY DEF Answer
<1>0. t = w.calls[i].by
  OBVIOUS
<1>2. /\ l.store = w.store /\ l.expiry = w.expiry /\ l.zombies = w.zombies
      /\ l.fpga = w.fpga /\ l.disc = w.disc /\ l.counts = w.counts
      /\ l.runtime = w.runtime /\ l.calls = RemoveAt(w.calls, i) /\ l.tasks = w.tasks
      /\ IsWeb(l)
  <2> HIDE DEF c
  <2>1. /\ l.store = w.store /\ l.expiry = w.expiry /\ l.zombies = w.zombies
        /\ l.fpga = w.fpga /\ l.disc = w.disc /\ l.counts = w.counts
        /\ l.runtime = w.runtime /\ l.calls = c /\ l.tasks = w.tasks /\ IsWeb(l)
    BY DEF Runs, IsWeb
  <2> QED
    BY <2>1 DEF c
<1> HIDE DEF c, t, l
<1>3. Answer(w, i, call, ans) = IF t = NoTask THEN l ELSE v
  <2>1. [l EXCEPT !.tasks[t].call = call] = u
    OBVIOUS
  <2>2. [u EXCEPT !.tasks[t].ans = ans] = v
    <3> HIDE DEF u
    <3> QED
      OBVIOUS
  <2>3. [l EXCEPT !.tasks[t].call = call, !.tasks[t].ans = ans]
          = [[l EXCEPT !.tasks[t].call = call] EXCEPT !.tasks[t].ans = ans]
    OBVIOUS
  <2> HIDE DEF u, v
  <2> QED
    BY <1>1, <2>1, <2>2, <2>3
<1>4. /\ d = [x \in Tasks |-> d[x]]
      /\ \A x \in Tasks : /\ IsTask(d[x]) /\ d[x].pc = w.tasks[x].pc /\ d[x].ses = w.tasks[x].ses
                          /\ d[x].run = w.tasks[x].run /\ d[x].ans = w.tasks[x].ans
                          /\ d[x].call = IF x = t THEN call ELSE w.tasks[x].call
  <2>1. \A x \in Tasks : d[x] = IF x = t THEN [w.tasks[x] EXCEPT !.call = call] ELSE w.tasks[x]
    BY <1>2 DEF Runs
  <2>2. d = [x \in Tasks |-> d[x]]
    BY <1>2 DEF Runs
  <2> HIDE DEF d
  <2> QED
    BY <2>1, <2>2 DEF IsTask
<1> HIDE DEF d
<1>5. /\ u.fpga = w.fpga /\ u.disc = w.disc /\ u.counts = w.counts
      /\ IsWeb(u) /\ u.store = w.store /\ u.tasks = d /\ u.expiry = w.expiry
      /\ u.zombies = w.zombies /\ u.runtime = w.runtime /\ u.calls = RemoveAt(w.calls, i)
  BY <1>2 DEF IsWeb
<1> HIDE DEF u
<1>6. \A x \in Tasks : /\ e[x].pc = w.tasks[x].pc /\ e[x].ses = w.tasks[x].ses
                       /\ e[x].run = w.tasks[x].run /\ IsTask(e[x])
                       /\ e[x].ans = IF x = t THEN ans ELSE w.tasks[x].ans
                       /\ e[x].call = IF x = t THEN call ELSE w.tasks[x].call
  <2>1. \A x \in Tasks : e[x] = IF x = t THEN [d[x] EXCEPT !.ans = ans] ELSE d[x]
    BY <1>4, <1>5
  <2> HIDE DEF e
  <2>2. ASSUME NEW x \in Tasks, x = t
        PROVE  /\ e[x].pc = d[x].pc /\ e[x].ses = d[x].ses /\ e[x].run = d[x].run
               /\ e[x].call = d[x].call /\ e[x].ans = ans /\ IsTask(e[x])
    BY <1>4, <2>1, <2>2 DEF IsTask
  <2>3. ASSUME NEW x \in Tasks, x # t
        PROVE  e[x] = d[x]
    BY <2>1, <2>3
  <2> QED
    BY <1>4, <2>2, <2>3
<1> HIDE DEF e
<1>7. /\ v.fpga = w.fpga /\ v.disc = w.disc /\ v.counts = w.counts
      /\ v.store = w.store /\ v.tasks = e /\ v.expiry = w.expiry
      /\ v.zombies = w.zombies /\ v.runtime = w.runtime /\ v.calls = RemoveAt(w.calls, i)
  BY <1>5 DEF IsWeb
<1> HIDE DEF v
<1>8. CASE t = NoTask
  <2>1. \A x \in Tasks : x # t
    BY <1>8, TaskFacts
  <2> QED
    BY <1>0, <1>2, <1>3, <1>8, <2>1 DEF Told
<1>9. CASE t # NoTask
  BY <1>0, <1>3, <1>6, <1>7, <1>9 DEF Told
<1> QED
  BY <1>8, <1>9

\* A task keeps its shape when it is told an answer.
LEMMA ToldShape ==
    ASSUME NEW k, TaskShape(k), NEW j, IsTask(j), j.pc = k.pc, j.ses = k.ses, j.run = k.run,
           NEW call \in {"ok", "error"}, j.call = call, NEW ans \in View \cup {NoView}, j.ans = ans,
           k.pc = "failreset" /\ call = "ok" => ans \in View
    PROVE  TaskShape(j)
<1>1. /\ k.pc \in Points /\ k.ses \in SessionIds \cup {NoSession}
      /\ k.run \in SessionIds \cup {NoSession} /\ (k.pc \notin {"done", "idle"} => k.ses \in SessionIds)
  BY DEF TaskShape
<1> HIDE DEF Points, View, SessionIds
<1>2. j = [pc |-> k.pc, ses |-> k.ses, run |-> k.run, call |-> call, ans |-> ans]
  BY DEF IsTask
<1>3. j \in [pc : Points, ses : SessionIds \cup {NoSession}, run : SessionIds \cup {NoSession},
             call : {"none", "out", "ok", "error"}, ans : View \cup {NoView}]
  BY <1>1, <1>2
<1> QED
  BY <1>1, <1>3 DEF TaskShape

LEMMA AnswerShape ==
    ASSUME NEW w, Runs(w, Watch), \A x \in Tasks : IsTask(w.tasks[x]), Shape(w),
           NEW i \in 1..Len(w.calls), NEW call \in {"ok", "error"}, NEW ans \in View \cup {NoView},
           \A x \in Tasks : x = w.calls[i].by /\ Pc(w, x) = "failreset" /\ call = "ok" => ans \in View
    PROVE  Shape(Answer(w, i, call, ans)) /\ Accounts(w, Answer(w, i, call, ans), {})
<1> DEFINE v == Answer(w, i, call, ans)
           t == w.calls[i].by
<1>1. /\ Told(w, v, i, call) /\ v.fpga = w.fpga /\ v.disc = w.disc /\ v.counts = w.counts
      /\ \A x \in Tasks : v.tasks[x].ans = (IF x = t THEN ans ELSE w.tasks[x].ans)
                          /\ IsTask(v.tasks[x])
  BY AnswerTold
<1> HIDE DEF v
<1>2. v.calls \in Seq(Requests)
  BY <1>1, RemoveAtShape DEF Shape, Told
<1>3. ASSUME NEW x \in Tasks PROVE TaskShape(v.tasks[x])
  <2>1. TaskShape(w.tasks[x]) /\ IsTask(w.tasks[x])
    BY DEF Shape
  <2>2. /\ v.tasks[x].pc = w.tasks[x].pc /\ v.tasks[x].ses = w.tasks[x].ses
        /\ v.tasks[x].run = w.tasks[x].run /\ IsTask(v.tasks[x])
        /\ v.tasks[x].call = (IF x = t THEN call ELSE w.tasks[x].call)
        /\ v.tasks[x].ans = (IF x = t THEN ans ELSE w.tasks[x].ans)
    BY <1>1 DEF Told
  <2>3. CASE x = t
    <3>1. w.tasks[x].pc = "failreset" /\ call = "ok" => ans \in View
      BY <2>3 DEF Pc
    <3> QED
      BY <2>1, <2>2, <2>3, <3>1, ToldShape
  <2>4. CASE x # t
    <3>1. v.tasks[x] = w.tasks[x]
      BY <2>1, <2>2, <2>4 DEF IsTask
    <3> QED
      BY <2>1, <3>1
  <2> QED
    BY <2>3, <2>4
<1>4. Shape(v)
  BY <1>1, <1>2, <1>3 DEF Shape, Told
<1>5. Accounts(w, v, {})
  BY <1>1 DEF Told, Accounts, Forward
<1> QED
  BY <1>4, <1>5 DEF v

\* Other requests.
LEMMA CallsShape ==
    ASSUME NEW w, IsWeb(w), Shape(w), NEW c \in Seq(Requests)
    PROVE  Shape([w EXCEPT !.calls = c]) /\ Accounts(w, [w EXCEPT !.calls = c], {})
<1> DEFINE v == [w EXCEPT !.calls = c]
<1>1. /\ v.store = w.store /\ v.fpga = w.fpga /\ v.runtime = w.runtime /\ v.expiry = w.expiry
      /\ v.disc = w.disc /\ v.counts = w.counts /\ v.tasks = w.tasks /\ v.calls = c
      /\ v.zombies = w.zombies
  BY DEF IsWeb
<1> HIDE DEF v
<1>2. Shape(v)
  BY <1>1 DEF Shape
<1> QED
  BY <1>1, <1>2 DEF Accounts, Forward, v

LEMMA StageShape ==
    ASSUME NEW w, IsWeb(w), Shape(w), NEW i \in 1..Len(w.calls), NEW stage \in {"admitted", "running"}
    PROVE  LET v == [w EXCEPT !.calls[i].stage = stage]
           IN  Shape(v) /\ Accounts(w, v, {})
<1> DEFINE n == Len(w.calls)
           r == [w.calls[i] EXCEPT !.stage = stage]
           c == [w.calls EXCEPT ![i] = r]
<1>1. [w EXCEPT !.calls[i].stage = stage] = [w EXCEPT !.calls = c]
  OBVIOUS
<1>2. w.calls \in [1..n -> Requests] /\ n \in Nat /\ w.calls[i] \in Requests
  BY DEF Shape
<1>3. r \in Requests
  <2> DEFINE q == w.calls[i]
  <2>1. q \in Requests
    BY <1>2
  <2> HIDE DEF q
  <2>2. [q EXCEPT !.stage = stage] \in Requests
    BY <2>1 DEF Requests
  <2> QED
    BY <2>2 DEF q
<1> HIDE DEF r
<1>4. c \in [1..n -> Requests]
  BY <1>2, <1>3
<1> HIDE DEF c, n
<1>5. c \in Seq(Requests)
  BY <1>2, <1>4, SeqDef
<1> QED
  BY <1>1, <1>5, CallsShape

-----------------------------------------------------------------------------
(* The invariant *)

\* What is outside the Web API, and how many connections it counts.
World ==
    /\ agent \in AgentType
    /\ events \in Seq(View) /\ Len(events) <= EventBuffer
    /\ procs \subseteq SessionIds
    /\ conns \in [SessionIds -> 0..MaxConns]
    /\ troubles \in 0..MaxTroubles

Counts == \A s \in SessionIds : web.counts[s] \in Nat /\ web.counts[s] <= conns[s]

Typed == TimersSet /\ Shape(web) /\ World /\ Counts

\* A step that lets the Web API blame nobody but the sessions of who.
Accounted(who) == Shape(web') /\ Accounts(web, web', who) /\ conns' = conns

\* A step of the Web API among them.
Kept(who) == Shaped(web, web', who) /\ conns' = conns

LEMMA KeptAccounts == \A who : Kept(who) => Accounted(who)
BY DEF Kept, Shaped, Steady, Accounted

LEMMA AccountedCounts ==
    ASSUME Typed, NEW who, Accounted(who) PROVE Counts'
BY DEF Typed, Accounted, Accounts, Counts, World

LEMMA TypedFacts ==
    ASSUME Typed
    PROVE  /\ IsWeb(web) /\ StoreOK(web.store) /\ Runs(web, Watch)
           /\ \A t \in Tasks : IsTask(web.tasks[t]) /\ Runs(web, t) /\ TaskShape(web.tasks[t])
BY TaskFacts, OrderRuns DEF Typed, TimersSet, LockOrder, Order, Shape

\* Where a task is suspended it is for a session.
LEMMA SessionAtPoint ==
    ASSUME Typed, NEW t \in Tasks, Pc(web, t) \in Calling \cup Stopping \cup {"rt", "lock", "sleep"}
    PROVE  web.tasks[t].ses \in SessionIds
BY TypedFacts DEF TaskShape, Pc, Calling, Stopping

-----------------------------------------------------------------------------
(* The Web API's steps *)

LEMMA CreateKept ==
    ASSUME Typed, NEW u \in Users, NEW d \in Demos, CreateSession(u, d) PROVE Kept({})
<1> DEFINE t == Creator(web.store.count + 1)
           a == ActiveId(web)
           m == Create(web.store, u, d, now)
           v == [web EXCEPT !.store = m]
           limited == a # NoSession /\ v.store.ses[a].expires # web.store.ses[a].expires
           c == ScheduleExpiry(v, t, a)
           timed == IF limited THEN c ELSE v
<1>1. web' = TryStartNext(timed, t) /\ Good(now, timed, t) /\ conns' = conns
  BY CreateGood DEF Typed, CreateSession
<1>2. CanCreate(web.store, u) /\ web.store.count + 1 \in SessionIds
  BY CreateGood DEF Typed, CreateSession
<1>3. StoreOK(web.store) /\ IsWeb(web) /\ now \in Nat
  BY TypedFacts DEF Typed, TimersSet, LockOrder
<1>4. StoreOK(m) /\ Forward(web.store, m) /\ SameOwner(web.store, m) /\ Blameless(web.store, m)
  BY <1>2, <1>3, CreateOK, CreateBlameless
<1>5. Runs(web, t)
  BY <1>2, TaskFacts, TypedFacts
<1> HIDE DEF m, t
<1>6. Runs(v, t) /\ Shaped(web, v, {}) /\ v.store = m
  BY <1>3, <1>4, <1>5, StoreRuns, BlamelessShape DEF Typed, Shaped
<1> HIDE DEF v
<1>7. ASSUME limited PROVE Shaped(v, c, {})
  <2>1. ActiveIs(v.store, "active") /\ a = v.store.active
    BY <1>4, <1>6, <1>7 DEF SameOwner, ActiveIs, ActiveId
  <2>2. Timed(c, t)
    BY <1>1, <1>7 DEF Good
  <2> HIDE DEF a
  <2>3. Timed(ScheduleExpiry(v, t, v.store.active), t)
    BY <2>1, <2>2
  <2> QED
    BY <1>6, <2>1, <2>3, ScheduleExpiryShape DEF Shaped
<1>8. Shaped(web, timed, {})
  BY <1>6, <1>7, ShapedTwice
<1> HIDE DEF timed
<1>9. Shaped(timed, TryStartNext(timed, t), {})
  BY <1>1, <1>8, TryStartNextShape DEF Shaped
<1> QED
  BY <1>1, <1>8, <1>9, ShapedTwice DEF Kept

LEMMA CancelKept ==
    ASSUME Typed, NEW u \in Users, NEW s \in SessionIds, CancelSession(u, s) PROVE Kept({})
<1> DEFINE t == Ender(s)
           a == ActiveId(web)
           m == Cancel(web.store, s)
           v == [web EXCEPT !.store = m]
           lifted == a # NoSession /\ v.store.ses[a].expires # web.store.ses[a].expires
           c == ScheduleExpiry(v, t, a)
<1>1. CanCancel(web.store, u, s) /\ web' = (IF lifted THEN c ELSE v) /\ conns' = conns
  BY DEF CancelSession
<1>2. Good(now, web', t)
  BY CancelGood DEF Typed
<1>3. StoreOK(web.store) /\ IsWeb(web)
  BY TypedFacts
<1>4. StoreOK(m) /\ Forward(web.store, m) /\ SameOwner(web.store, m) /\ Blameless(web.store, m)
  BY <1>1, <1>3, CancelOK, CancelBlameless
<1>5. Runs(web, t)
  BY TaskFacts, TypedFacts
<1> HIDE DEF m, t
<1>6. Runs(v, t) /\ Shaped(web, v, {}) /\ v.store = m
  BY <1>3, <1>4, <1>5, StoreRuns, BlamelessShape DEF Typed, Shaped
<1> HIDE DEF v
<1>7. ASSUME lifted PROVE Shaped(v, c, {})
  <2>1. ActiveIs(v.store, "active") /\ a = v.store.active
    BY <1>4, <1>6, <1>7 DEF SameOwner, ActiveIs, ActiveId
  <2>2. Timed(c, t)
    BY <1>1, <1>2, <1>7 DEF Good
  <2> HIDE DEF a
  <2>3. Timed(ScheduleExpiry(v, t, v.store.active), t)
    BY <2>1, <2>2
  <2> QED
    BY <1>6, <2>1, <2>3, ScheduleExpiryShape DEF Shaped
<1> QED
  BY <1>1, <1>6, <1>7, ShapedTwice DEF Kept

LEMMA EndKept ==
    ASSUME Typed, NEW u \in Users, NEW s \in SessionIds, EndSession(u, s) PROVE Kept({})
<1> DEFINE t == Ender(s)
           m == BeginEnd(web.store, "user_ended")
           v == [web EXCEPT !.store = m]
           c == CancelExpiry(v, t)
<1>1. CanEndOnBoard(web.store, u, s) /\ web' = Acquire(c, t) /\ conns' = conns
  BY DEF EndSession
<1>2. StoreOK(web.store) /\ IsWeb(web) /\ web.store.active # NoSession
  BY <1>1, TypedFacts DEF CanEndOnBoard, IsActive
<1>3. StoreOK(m) /\ Forward(web.store, m) /\ Blameless(web.store, m)
  BY <1>2, BeginEndOK, BeginEndBlames DEF SessionEndReason
<1>4. t \in Tasks /\ Kind(t) = "end" /\ Runs(web, t)
  BY TaskFacts, TypedFacts
<1> HIDE DEF m, t
<1>5. Runs(v, t) /\ Shaped(web, v, {})
  BY <1>2, <1>3, <1>4, StoreRuns, BlamelessShape DEF Typed, Shaped
<1> HIDE DEF v
<1>6. Runs(c, t) /\ Shaped(v, c, {})
  BY <1>5, CancelExpiryRuns, CancelExpiryShape DEF Shaped
<1>7. Shaped(web, c, {})
  BY <1>5, <1>6, ShapedTwice
<1> HIDE DEF c
<1>8. Shaped(c, Acquire(c, t), {})
  BY <1>4, <1>6, <1>7, AcquireShape DEF Shaped, LockKinds, Blamed
<1> QED
  BY <1>1, <1>7, <1>8, ShapedTwice DEF Kept

\* Connections that are opened and closed.
Recount(s, n) ==
    /\ Shape(web') /\ web'.store = web.store /\ Grown(web.calls, web'.calls)
    /\ \A x \in SessionIds : web'.counts[x] = IF x = s THEN n ELSE web.counts[x]

LEMMA CountShape ==
    ASSUME NEW w, NEW t, Runs(w, t), Shape(w), NEW s, NEW n
    PROVE  LET v == [w EXCEPT !.counts = [w.counts EXCEPT ![s] = n]]
           IN  /\ Runs(v, t) /\ Shape(v) /\ v.store = w.store /\ v.calls = w.calls
               /\ \A x \in SessionIds : v.counts[x] = IF x = s THEN n ELSE w.counts[x]
<1> DEFINE l == [w.counts EXCEPT ![s] = n]
           v == [w EXCEPT !.counts = l]
<1>1. /\ l = [x \in SessionIds |-> l[x]]
      /\ \A x \in SessionIds : l[x] = IF x = s THEN n ELSE w.counts[x]
  BY DEF Shape
<1> HIDE DEF l
<1>2. /\ IsWeb(v) /\ v.store = w.store /\ v.fpga = w.fpga /\ v.runtime = w.runtime
      /\ v.expiry = w.expiry /\ v.disc = w.disc /\ v.counts = l /\ v.tasks = w.tasks
      /\ v.calls = w.calls /\ v.zombies = w.zombies
  BY DEF Runs, IsWeb
<1> HIDE DEF v
<1>3. Runs(v, t) /\ Shape(v)
  BY <1>1, <1>2 DEF Runs, Shape
<1> QED
  BY <1>1, <1>2, <1>3 DEF v, l

LEMMA ScheduleDisconnectShape ==
    ASSUME NEW w, Runs(w, Watch), Shape(w), NEW s \in SessionIds
    PROVE  LET v == ScheduleDisconnect(w, s)
           IN  Shape(v) /\ v.store = w.store /\ v.counts = w.counts /\ Grown(w.calls, v.calls)
<1> DEFINE c == CancelDisconnect(w, NoTask, s)
           k == Suspended("sleep", s)
           b == c.disc \cup {s}
           d == Put(c.tasks, Disconnector(s), k)
           y == [c EXCEPT !.disc = b]
           z == [y EXCEPT !.tasks = d]
<1>1. ScheduleDisconnect(w, s) = [c EXCEPT !.disc = b, !.tasks[Disconnector(s)] = k]
  BY DEF ScheduleDisconnect
<1>2. /\ Shape(c) /\ c.store = w.store /\ c.counts = w.counts /\ Runs(c, Watch)
      /\ Grown(w.calls, c.calls)
  BY CancelDisconnectShape, CancelDisconnectRuns DEF Steady
<1>3. TaskShape(k)
  BY SuspendedShape DEF Points
<1> HIDE DEF c, k
<1>4. b \subseteq SessionIds
  BY <1>2 DEF Shape
<1> HIDE DEF b
<1>5. ScheduleDisconnect(w, s) = z
  <2>1. [c EXCEPT !.disc = b, !.tasks[Disconnector(s)] = k] = [c EXCEPT !.disc = b, !.tasks = d]
    BY <1>2 DEF Put, IsWeb, Runs
  <2> QED
    BY <1>1, <2>1
<1>6. \A x \in Tasks : TaskShape(d[x])
  BY <1>2, <1>3 DEF Put, Runs, Shape
<1> HIDE DEF d
<1>7. /\ IsWeb(y) /\ y.store = c.store /\ y.fpga = c.fpga /\ y.runtime = c.runtime
      /\ y.expiry = c.expiry /\ y.disc = b /\ y.counts = c.counts
      /\ y.calls = c.calls /\ y.zombies = c.zombies
  BY <1>2 DEF Runs, IsWeb
<1> HIDE DEF y
<1>8. /\ z.store = c.store /\ z.fpga = c.fpga /\ z.runtime = c.runtime
      /\ z.expiry = c.expiry /\ z.disc = b /\ z.counts = c.counts /\ z.tasks = d
      /\ z.calls = c.calls /\ z.zombies = c.zombies
  BY <1>7 DEF IsWeb
<1> HIDE DEF z
<1>9. Shape(z)
  BY <1>2, <1>4, <1>6, <1>8 DEF Shape
<1> QED
  BY <1>2, <1>5, <1>8, <1>9

LEMMA OpenRecounts ==
    ASSUME Typed, NEW s \in SessionIds, OpenConnection(s)
    PROVE  Recount(s, web.counts[s] + 1)
<1> DEFINE c == CancelDisconnect(web, NoTask, s)
           n == web.counts[s] + 1
<1>1. web' = [c EXCEPT !.counts[s] = c.counts[s] + 1]
  BY DEF OpenConnection
<1>2. /\ Shape(c) /\ c.store = web.store /\ c.counts = web.counts /\ Runs(c, Watch)
      /\ Grown(web.calls, c.calls)
  BY TypedFacts, CancelDisconnectShape, CancelDisconnectRuns DEF Typed, Steady
<1>3. web' = [c EXCEPT !.counts = [c.counts EXCEPT ![s] = n]]
  BY <1>1, <1>2
<1> HIDE DEF c, n
<1>4. Runs(c, Watch) /\ Shape(c)
  BY <1>2
<1>5. Shape(web') /\ web'.store = c.store /\ web'.calls = c.calls
  BY <1>3, <1>4, CountShape
<1>6. \A x \in SessionIds : web'.counts[x] = IF x = s THEN n ELSE c.counts[x]
  <2>1. web'.counts = [c.counts EXCEPT ![s] = n]
    BY <1>3, <1>4 DEF Runs, IsWeb
  <2>2. c.counts = [x \in SessionIds |-> c.counts[x]]
    BY <1>4 DEF Shape
  <2> QED
    BY <2>1, <2>2
<1> QED
  BY <1>2, <1>5, <1>6 DEF Recount, n

LEMMA CloseRecounts ==
    ASSUME Typed, NEW s \in SessionIds, CloseConnection(s)
    PROVE  Recount(s, IF web.counts[s] > 0 THEN web.counts[s] - 1 ELSE 0)
<1> DEFINE left == IF web.counts[s] > 0 THEN web.counts[s] - 1 ELSE 0
           v == [web EXCEPT !.counts = [web.counts EXCEPT ![s] = left]]
           u == ScheduleDisconnect(v, s)
<1>1. web' \in {v, u}
  BY DEF CloseConnection
<1> HIDE DEF left
<1>0. Runs(web, Watch) /\ Shape(web)
  BY TypedFacts DEF Typed
<1>2. /\ Runs(v, Watch) /\ Shape(v) /\ v.store = web.store /\ v.calls = web.calls
      /\ \A x \in SessionIds : v.counts[x] = IF x = s THEN left ELSE web.counts[x]
  BY <1>0, CountShape
<1> HIDE DEF v
<1>3. Shape(u) /\ u.store = v.store /\ u.counts = v.counts /\ Grown(v.calls, u.calls)
  BY <1>2, ScheduleDisconnectShape
<1> HIDE DEF u
<1>4. Grown(web.calls, web.calls)
  BY DEF Grown
<1> QED
  BY <1>1, <1>2, <1>3, <1>4 DEF Recount, left

LEMMA OpenCounts ==
    ASSUME Typed, NEW s \in SessionIds, OpenConnection(s) PROVE Shape(web)' /\ World' /\ Counts'
<1>1. /\ conns[s] < MaxConns /\ conns' = [conns EXCEPT ![s] = conns[s] + 1]
      /\ UNCHANGED <<agent, events, procs, troubles>>
  BY DEF OpenConnection
<1>2. conns \in [SessionIds -> 0..MaxConns] /\ MaxConns \in Nat
  BY BoundsAssumption DEF Typed, World
<1>3. conns' \in [SessionIds -> 0..MaxConns]
  BY <1>1, <1>2
<1>4. \A x \in SessionIds : conns'[x] = IF x = s THEN conns[s] + 1 ELSE conns[x]
  BY <1>1, <1>2
<1>5. Counts'
  BY <1>2, <1>4, OpenRecounts DEF Recount, Counts, Typed
<1> QED
  BY <1>1, <1>3, <1>5, OpenRecounts DEF Recount, Typed, World

LEMMA CloseCounts ==
    ASSUME Typed, NEW s \in SessionIds, CloseConnection(s) PROVE Shape(web)' /\ World' /\ Counts'
<1>1. /\ conns[s] > 0 /\ conns' = [conns EXCEPT ![s] = conns[s] - 1]
      /\ UNCHANGED <<agent, events, procs, troubles>>
  BY DEF CloseConnection
<1>2. conns \in [SessionIds -> 0..MaxConns] /\ MaxConns \in Nat
  BY BoundsAssumption DEF Typed, World
<1>3. conns' \in [SessionIds -> 0..MaxConns]
  BY <1>1, <1>2
<1>4. \A x \in SessionIds : conns'[x] = IF x = s THEN conns[s] - 1 ELSE conns[x]
  BY <1>1, <1>2
<1>5. Counts'
  BY <1>1, <1>2, <1>4, CloseRecounts DEF Recount, Counts, Typed
<1> QED
  BY <1>1, <1>3, <1>5, CloseRecounts DEF Recount, Typed, World

LEMMA ExpiryKept ==
    ASSUME Typed, NEW s \in SessionIds, NEW due \in Deadlines, ExpiryFires(s, due) PROVE Kept({})
<1> DEFINE t == Expirer(s, due)
<1>1. web' \in {Acquire(web, t), At(web, t, Done)} /\ conns' = conns
  BY DEF ExpiryFires
<1>2. t \in Tasks /\ Kind(t) = "expiry"
  BY TaskFacts DEF Tasks
<1> HIDE DEF t
<1>3. Runs(web, t) /\ Shape(web)
  BY <1>2, TypedFacts DEF Typed
<1>4. Shaped(web, Acquire(web, t), {})
  BY <1>2, <1>3, AcquireShape DEF Blamed, LockKinds
<1>5. Shaped(web, At(web, t, Done), {})
  BY <1>3, RestShape, ShapedMethods
<1> QED
  BY <1>1, <1>4, <1>5 DEF Kept

\* A disconnect timer blames the owner it has found disconnected.
LEMMA DisconnectKept ==
    ASSUME Typed, NEW s \in SessionIds, DisconnectFires(s)
    PROVE  \/ Kept({})
           \/ Kept({s}) /\ web.counts[s] = 0 /\ ActiveId(web) = s /\ ActiveIs(web.store, "active")
<1> DEFINE t == Disconnector(s)
           match == web.counts[s] = 0 /\ ActiveId(web) = s /\ ActiveIs(web.store, "active")
<1>1. web' = (IF match THEN Acquire(web, t) ELSE Return(web, t)) /\ conns' = conns
  BY DEF DisconnectFires
<1>2. t \in Tasks /\ Kind(t) = "disconnect"
  BY TaskFacts
<1> HIDE DEF t
<1>3. Runs(web, t) /\ Shape(web)
  BY <1>2, TypedFacts DEF Typed
<1>4. match => Shaped(web, Acquire(web, t), {s})
  BY <1>2, <1>3, AcquireShape DEF Blamed, LockKinds
<1>5. Shaped(web, Return(web, t), {})
  BY <1>3, ShapedMethods
<1> QED
  BY <1>1, <1>4, <1>5 DEF Kept

LEMMA TakeLockKept ==
    ASSUME Typed, NEW t \in Tasks, TakeLock(t) PROVE Kept(Blamed(web, t))
<1>1. Pc(web, t) = "lock" /\ web' = Locked(web, t) /\ conns' = conns
  BY DEF TakeLock
<1>2. Kind(t) \in LockKinds
  BY <1>1, TaskFacts DEF Typed, TimersSet, LockOrder, Order, Entitled, InFlow
<1>3. Runs(web, t) /\ Shape(web)
  BY TypedFacts DEF Typed
<1> QED
  BY <1>1, <1>2, <1>3, LockedShape DEF Kept

LEMMA WatchKept == ASSUME Typed, WatchEvent PROVE Kept({})
<1>1. events # << >> /\ web' = HandleBoardState(web, Head(events)) /\ conns' = conns
  BY DEF WatchEvent
<1>2. Head(events) \in View
  BY <1>1 DEF Typed, World
<1>3. Good(now, web, Watch)
  BY Resuming, TaskFacts DEF Typed
<1> QED
  BY <1>1, <1>2, <1>3, HandleBoardStateShape DEF Kept, Typed

LEMMA AnsweredKept == ASSUME Typed, NEW t \in Tasks, Answered(t) PROVE Kept({})
<1> DEFINE s == web.tasks[t].ses
           pc == web.tasks[t].pc
           ok == web.tasks[t].call = "ok"
           f == web.tasks[t].ans
           seen == [web EXCEPT !.fpga = f]
<1>1. /\ Pc(web, t) = pc /\ pc \in Calling /\ conns' = conns
      /\ web' = CASE pc = "pl" /\ ok    -> ProgramPS(web, t, s)
                  [] pc = "ps" /\ ok    -> Programmed(web, t, s)
                  [] pc \in {"pl", "ps"} /\ ~ok -> StartError(web, t, s)
                  [] pc = "failreset"   -> TryStartNext(IF ok THEN seen ELSE web, t)
                  [] pc = "reset"       -> Ended(web, t)
                  [] pc = "reservedreset" -> ProblemEnded(web)
  BY DEF Answered, Pc
<1>2. s \in SessionIds
  BY <1>1, SessionAtPoint
<1>3. pc = "failreset" /\ ok => f \in View
  BY TypedFacts DEF TaskShape
<1> HIDE DEF s, ok, pc, f
<1>4. Good(now, web, t) /\ Shape(web)
  BY <1>1, Resuming DEF Calling, Typed
<1>5. CASE pc = "pl"
  <2>1. web' = IF ok THEN ProgramPS(web, t, s) ELSE StartError(web, t, s)
    BY <1>1, <1>5
  <2> QED
    BY <1>1, <1>2, <1>4, <2>1, ProgramPSShape, StartErrorShape DEF Kept
<1>6. CASE pc = "ps"
  <2>1. web' = IF ok THEN Programmed(web, t, s) ELSE StartError(web, t, s)
    BY <1>1, <1>6
  <2> QED
    BY <1>1, <1>2, <1>4, <2>1, ProgrammedShape, StartErrorShape DEF Kept
<1>7. CASE pc = "failreset"
  <2>1. web' = TryStartNext(IF ok THEN seen ELSE web, t)
    BY <1>1, <1>7
  <2>2. /\ IsWeb(seen) /\ seen.store = web.store /\ seen.fpga = f /\ seen.runtime = web.runtime
        /\ seen.expiry = web.expiry /\ seen.disc = web.disc /\ seen.counts = web.counts
        /\ seen.tasks = web.tasks /\ seen.calls = web.calls /\ seen.zombies = web.zombies
    BY <1>4 DEF Good, Ready, Runs, IsWeb
  <2> HIDE DEF seen
  <2>3. Good(now, seen, t)
    BY <1>4, <2>2, SameReady DEF Good
  <2>4. ok => Shaped(web, seen, {})
    BY <1>3, <1>4, <1>7, <2>2, SteadySame DEF Shape, Shaped
  <2>5. ok => Shaped(seen, TryStartNext(seen, t), {})
    BY <2>3, <2>4, TryStartNextShape DEF Shaped
  <2>6. Shaped(web, TryStartNext(web, t), {})
    BY <1>4, TryStartNextShape
  <2> QED
    BY <1>1, <2>1, <2>4, <2>5, <2>6, ShapedTwice DEF Kept
<1>8. CASE pc = "reset"
  <2>1. web' = Ended(web, t)
    BY <1>1, <1>8
  <2> QED
    BY <1>1, <1>4, <2>1, EndedShape DEF Good, Kept
<1>9. CASE pc = "reservedreset"
  <2>1. web' = ProblemEnded(web)
    BY <1>1, <1>9
  <2>2. Ready(now, web, Watch)
    BY Resuming, TaskFacts DEF Typed
  <2> QED
    BY <1>1, <1>4, <2>1, <2>2, ProblemEndedShape DEF Kept
<1> QED
  BY <1>1, <1>5, <1>6, <1>7, <1>8, <1>9 DEF Calling

LEMMA RuntimeUpKept == ASSUME Typed, NEW t \in Tasks, RuntimeUp(t) PROVE Kept({})
<1> DEFINE s == web.tasks[t].ses
           v == [web EXCEPT !.runtime = s]
<1>1. Pc(web, t) = "rt" /\ web' = Started(v, t, s) /\ conns' = conns
  BY DEF RuntimeUp
<1>2. s \in SessionIds
  BY <1>1, SessionAtPoint
<1> HIDE DEF s
<1>3. Good(now, web, t) /\ Shape(web)
  BY <1>1, Resuming DEF Typed
<1>4. /\ IsWeb(v) /\ v.store = web.store /\ v.fpga = web.fpga /\ v.runtime = s
      /\ v.expiry = web.expiry /\ v.disc = web.disc /\ v.counts = web.counts /\ v.tasks = web.tasks
      /\ v.calls = web.calls /\ v.zombies = web.zombies
  BY <1>3 DEF Good, Ready, Runs, IsWeb
<1> HIDE DEF v
<1>5. Good(now, v, t)
  BY <1>3, <1>4, SameReady DEF Good
<1>6. Shaped(web, v, {})
  BY <1>2, <1>3, <1>4, SteadySame DEF Shape, Shaped
<1>7. Shaped(v, Started(v, t, s), {})
  BY <1>2, <1>5, <1>6, StartedShape DEF Shaped
<1> QED
  BY <1>1, <1>6, <1>7, ShapedTwice DEF Kept

LEMMA RuntimeFailsKept == ASSUME Typed, NEW t \in Tasks, RuntimeFails(t) PROVE Kept({})
<1> DEFINE s == web.tasks[t].ses
<1>1. Pc(web, t) = "rt" /\ web' = StartError(web, t, s) /\ conns' = conns
  BY DEF RuntimeFails
<1>2. s \in SessionIds
  BY <1>1, SessionAtPoint
<1> HIDE DEF s
<1>3. Good(now, web, t) /\ Shape(web)
  BY <1>1, Resuming DEF Typed
<1> QED
  BY <1>1, <1>2, <1>3, StartErrorShape DEF Kept

LEMMA RuntimeDownKept == ASSUME Typed, NEW t \in Tasks, RuntimeDown(t) PROVE Kept({})
<1> DEFINE s == web.tasks[t].ses
           pc == web.tasks[t].pc
<1>1. /\ Pc(web, t) = pc /\ pc \in Stopping /\ conns' = conns
      /\ web' = CASE pc = "failstop"     -> StartFailed(web, t, s)
                  [] pc = "latestop"     -> Return(web, t)
                  [] pc = "stop"         -> Send(web, t, "reset", s)
                  [] pc = "problemstop"  -> ProblemStopped(web, s, FALSE)
                  [] pc = "reservedstop" -> ProblemStopped(web, s, TRUE)
  BY DEF RuntimeDown, Pc
<1>2. s \in SessionIds
  BY <1>1, SessionAtPoint
<1> HIDE DEF s, pc
<1>3. Good(now, web, t) /\ Good(now, web, Watch) /\ Shape(web)
  BY <1>1, Resuming, TaskFacts DEF Stopping, Typed
<1>4. Shaped(web, StartFailed(web, t, s), {})
  BY <1>2, <1>3, StartFailedShape
<1>5. Shaped(web, Return(web, t), {}) /\ Shaped(web, Send(web, t, "reset", s), {})
  BY <1>2, <1>3, ShapedMethods DEF Good, Ready, Calling
<1>6. Shaped(web, ProblemStopped(web, s, FALSE), {}) /\ Shaped(web, ProblemStopped(web, s, TRUE), {})
  BY <1>2, <1>3, ProblemStoppedShape
<1> QED
  BY <1>1, <1>4, <1>5, <1>6 DEF Stopping, Kept

-----------------------------------------------------------------------------
(* The steps of the agent *)

LEMMA ZombieKept == ASSUME Typed, NEW thread, ThreadEnds(thread) PROVE Kept({})
<1> DEFINE z == web.zombies \ {thread}
           v == [web EXCEPT !.zombies = z]
<1>1. web' = v /\ conns' = conns
  BY DEF ThreadEnds
<1>2. z \subseteq {"up", "down"} \X (SessionIds \cup {NoSession})
  BY DEF Typed, Shape
<1> HIDE DEF z
<1>3. /\ v.store = web.store /\ v.fpga = web.fpga /\ v.runtime = web.runtime
      /\ v.expiry = web.expiry /\ v.disc = web.disc /\ v.counts = web.counts /\ v.tasks = web.tasks
      /\ v.calls = web.calls /\ v.zombies = z
  BY TypedFacts DEF IsWeb
<1> HIDE DEF v
<1>4. Shape(v)
  BY <1>2, <1>3 DEF Typed, Shape
<1> QED
  BY <1>1, <1>3, <1>4, SteadySame DEF Kept, Shaped

LEMMA EffectTyped ==
    ASSUME Typed, NEW op, NEW s \in SessionIds, op \in {"pl", "ps", "reset"}
    PROVE  Effect(op, s) \in AgentType /\ ViewOf(Effect(op, s)) \in View
BY DEF Typed, World, AgentType, Effect, ViewOf, View, Status

LEMMA RequestFacts ==
    ASSUME Typed, NEW i \in 1..Len(web.calls)
    PROVE  web.calls[i].op \in {"pl", "ps", "reset"} /\ web.calls[i].ses \in SessionIds
<1>1. web.calls[i] \in Requests
  BY DEF Typed, Shape
<1> QED
  BY <1>1 DEF Requests

LEMMA HeadRequest ==
    ASSUME Typed, web.calls # << >>
    PROVE  1 \in 1..Len(web.calls) /\ Head(web.calls) = web.calls[1]
BY DEF Typed, Shape

LEMMA ErrorAccounted ==
    ASSUME Typed, NEW i \in 1..Len(web.calls), web' = Answer(web, i, "error", NoView), conns' = conns
    PROVE  Accounted({})
<1>1. /\ Shape(Answer(web, i, "error", NoView))
      /\ Accounts(web, Answer(web, i, "error", NoView), {})
  BY TypedFacts, AnswerShape DEF Typed
<1> QED
  BY <1>1 DEF Accounted

LEMMA ReceivesAccounted ==
    ASSUME Typed, NEW i \in 1..Len(web.calls), AgentReceives(i) PROVE Accounted({})
<1>1. conns' = conns
  BY DEF AgentReceives
<1>2. CASE web' = Answer(web, i, "error", NoView)
  BY <1>1, <1>2, ErrorAccounted
<1>3. CASE web' = [web EXCEPT !.calls[i].stage = IF i = 1 THEN "running" ELSE "admitted"]
  <2> DEFINE stage == IF i = 1 THEN "running" ELSE "admitted"
  <2>1. stage \in {"admitted", "running"} /\ web' = [web EXCEPT !.calls[i].stage = stage]
    BY <1>3
  <2> HIDE DEF stage
  <2> QED
    BY <1>1, <2>1, TypedFacts, StageShape DEF Typed, Accounted
<1> QED
  BY <1>2, <1>3 DEF AgentReceives

LEMMA ContinuesAccounted == ASSUME Typed, AgentContinues PROVE Accounted({})
<1>1. conns' = conns /\ 1 \in 1..Len(web.calls)
  BY HeadRequest DEF AgentContinues
<1>2. CASE web' = Answer(web, 1, "error", NoView)
  BY <1>1, <1>2, ErrorAccounted
<1>3. CASE web' = [web EXCEPT !.calls[1].stage = "running"]
  BY <1>1, <1>3, TypedFacts, StageShape DEF Typed, Accounted
<1> QED
  BY <1>2, <1>3 DEF AgentContinues

\* The task that is told the state of the board is the one that has asked for it.
LEMMA SucceedsAccounted == ASSUME Typed, AgentSucceeds PROVE Accounted({}) /\ agent' \in AgentType
<1> DEFINE call == Head(web.calls)
           after == Effect(call.op, call.ses)
           asked == call.by # NoTask /\ Pc(web, call.by) = "failreset"
           ans == IF asked THEN ViewOf(after) ELSE NoView
<1>1. Busy /\ agent' = after /\ web' = Answer(web, 1, "ok", ans) /\ conns' = conns
  BY DEF AgentSucceeds
<1>2. 1 \in 1..Len(web.calls) /\ call = web.calls[1]
  BY <1>1, HeadRequest DEF Busy
<1> HIDE DEF call
<1>3. after \in AgentType /\ ViewOf(after) \in View
  BY <1>2, RequestFacts, EffectTyped
<1> HIDE DEF after
<1>4. ans \in View \cup {NoView}
  BY <1>3
<1>5. \A x \in Tasks : x = web.calls[1].by /\ Pc(web, x) = "failreset" /\ "ok" = "ok" => ans \in View
  BY <1>2, <1>3, TaskFacts
<1> HIDE DEF ans
<1>6. Shape(Answer(web, 1, "ok", ans)) /\ Accounts(web, Answer(web, 1, "ok", ans), {})
  BY <1>2, <1>4, <1>5, TypedFacts, AnswerShape DEF Typed
<1> QED
  BY <1>1, <1>3, <1>6 DEF Accounted

LEMMA FailsAccounted == ASSUME Typed, AgentFails PROVE Accounted({})
<1>1. Busy /\ web' = Answer(web, 1, "error", NoView) /\ conns' = conns
  BY DEF AgentFails
<1> QED
  BY <1>1, HeadRequest, ErrorAccounted DEF Busy

LEMMA StopsAccounted == ASSUME Typed, AgentStops PROVE Accounted({})
<1> DEFINE d == [t \in Tasks |-> IF web.tasks[t].call = "out" THEN [web.tasks[t] EXCEPT !.call = "error"]
                                 ELSE web.tasks[t]]
           u == [web EXCEPT !.calls = << >>]
           v == [u EXCEPT !.tasks = d]
<1>1. web' = v /\ conns' = conns
  BY DEF AgentStops
<1>2. \A t \in Tasks : TaskShape(d[t])
  <2> SUFFICES ASSUME NEW t \in Tasks PROVE TaskShape(d[t])
    OBVIOUS
  <2> DEFINE k == web.tasks[t]
             j == [k EXCEPT !.call = "error"]
  <2>1. TaskShape(k) /\ IsTask(k)
    BY TypedFacts
  <2>2. d[t] \in {k, j} /\ (d[t] # k => k.call = "out")
    OBVIOUS
  <2> HIDE DEF d, k
  <2>3. IsTask(j) /\ j.pc = k.pc /\ j.ses = k.ses /\ j.run = k.run /\ j.call = "error" /\ j.ans = k.ans
    BY <2>1 DEF IsTask
  <2>4. k.ans \in View \cup {NoView}
    BY <2>1 DEF TaskShape
  <2> HIDE DEF j
  <2>5. TaskShape(j)
    BY <2>1, <2>3, <2>4, ToldShape
  <2> QED
    BY <2>1, <2>2, <2>5
<1> HIDE DEF d
<1>3. << >> \in Seq(Requests)
  OBVIOUS
<1>4. Shape(u) /\ Accounts(web, u, {}) /\ IsWeb(u)
  <2>1. IsWeb(u)
    BY TypedFacts DEF IsWeb
  <2>2. Shape(u) /\ Accounts(web, u, {})
    BY <1>3, TypedFacts, CallsShape DEF Typed
  <2> QED
    BY <2>1, <2>2
<1> HIDE DEF u
<1>5. /\ v.store = u.store /\ v.fpga = u.fpga /\ v.runtime = u.runtime
      /\ v.expiry = u.expiry /\ v.disc = u.disc /\ v.counts = u.counts /\ v.tasks = d
      /\ v.calls = u.calls /\ v.zombies = u.zombies
  BY <1>4 DEF IsWeb
<1> HIDE DEF v
<1>6. Shape(v)
  BY <1>2, <1>4, <1>5 DEF Shape
<1>7. Accounts(web, v, {})
  BY <1>4, <1>5 DEF Accounts, Forward
<1> QED
  BY <1>1, <1>6, <1>7 DEF Accounted

\* The new process counts no connection.
LEMMA RestartCounts == ASSUME Typed, WebRestarts PROVE Shape(web)' /\ World' /\ Counts'
<1> DEFINE m == Forgotten(web.store)
           s == StartedManager(m, ViewOf(agent))
           c == Orphans(web.calls)
           z == web.zombies \cup UNION {Thread(web.tasks[t]) : t \in Tasks}
           u == [s EXCEPT !.calls = c]
           v == [u EXCEPT !.zombies = z]
           l == [x \in SessionIds |-> 0]
<1>1. web' = [s EXCEPT !.calls = c, !.zombies = z]
  BY DEF WebRestarts, Orphans
<1>2. /\ conns' = l /\ troubles > 0 /\ troubles' = troubles - 1 /\ events' = << >> /\ agent' = agent
      /\ procs' \subseteq procs
  BY DEF WebRestarts, May
<1>3. ViewOf(agent) \in View
  BY DEF Typed, World, AgentType, ViewOf, View, Status
<1>4. c \in Seq(Requests)
  <2>1. Len(web.calls) \in Nat /\ DOMAIN web.calls = 1..Len(web.calls)
        /\ \A i \in 1..Len(web.calls) : web.calls[i] \in Requests
    BY DEF Typed, Shape
  <2>2. \A r \in Requests : [r EXCEPT !.by = NoTask] \in Requests
    BY DEF Requests
  <2>3. c \in [1..Len(web.calls) -> Requests]
    BY <2>1, <2>2 DEF Orphans
  <2> QED
    BY <2>1, <2>3, SeqDef
<1>5. z \subseteq {"up", "down"} \X (SessionIds \cup {NoSession})
  BY ThreadShape DEF Typed, Shape
<1> HIDE DEF m, c, z
<1>6. /\ IsWeb(s) /\ s.fpga = ViewOf(agent) /\ s.runtime = NoSession /\ s.expiry = NoTask /\ s.disc = {}
      /\ s.counts = l /\ s.tasks = [t \in Tasks |-> Rest(t)]
  BY DEF StartedManager, IsWeb
<1> HIDE DEF s, l
<1>7. web' = v
  BY <1>1
<1>8. /\ IsWeb(u) /\ u.fpga = s.fpga /\ u.runtime = s.runtime /\ u.expiry = s.expiry /\ u.disc = s.disc
      /\ u.counts = s.counts /\ u.tasks = s.tasks /\ u.calls = c
  BY <1>6 DEF IsWeb
<1> HIDE DEF u
<1>9. /\ v.fpga = s.fpga /\ v.runtime = s.runtime /\ v.expiry = s.expiry /\ v.disc = s.disc
      /\ v.counts = s.counts /\ v.tasks = s.tasks /\ v.calls = c /\ v.zombies = z
  BY <1>8 DEF IsWeb
<1> HIDE DEF v
<1>10. Shape(v)
  BY <1>3, <1>4, <1>5, <1>6, <1>9, RestShape DEF Shape, l
<1>11. Counts'
  BY <1>2, <1>6, <1>7, <1>9 DEF Counts, l
<1>12. World'
  BY <1>2, BoundsAssumption, TroubleAssumption DEF Typed, World, l
<1> QED
  BY <1>7, <1>10, <1>11, <1>12

-----------------------------------------------------------------------------
(* Every step *)

LEMMA ViewTyped == ASSUME NEW a \in AgentType PROVE ViewOf(a) \in View
BY DEF AgentType, ViewOf, View, Status

\* The event stream stays within its buffer.
LEMMA PublishTyped ==
    ASSUME Typed, NEW a \in AgentType, Publish(a)
    PROVE  (events \in Seq(View) /\ Len(events) <= EventBuffer)'
<1> DEFINE v == ViewOf(a)
<1>1. /\ events \in Seq(View) /\ Len(events) <= EventBuffer /\ Len(events) \in Nat
      /\ EventBuffer \in Nat /\ EventBuffer >= 1
  BY BoundsAssumption DEF Typed, World
<1>2. v \in View
  BY ViewTyped
<1>3. events' = IF Len(events) < EventBuffer THEN Append(events, v) ELSE [events EXCEPT ![EventBuffer] = v]
  BY DEF Publish
<1> HIDE DEF v
<1>4. CASE Len(events) < EventBuffer
  BY <1>1, <1>2, <1>3, <1>4
<1>5. CASE ~(Len(events) < EventBuffer)
  <2> DEFINE n == Len(events)
             e == [events EXCEPT ![EventBuffer] = v]
  <2>1. n = EventBuffer /\ events \in [1..n -> View] /\ n \in Nat
    BY <1>1, <1>5
  <2> HIDE DEF n
  <2>2. e \in [1..n -> View]
    BY <1>2, <2>1
  <2> HIDE DEF e
  <2>3. e \in Seq(View)
    BY <2>1, <2>2, SeqDef
  <2>4. Len(e) = n
    BY <2>1, <2>2, <2>3, LenProperties
  <2> QED
    BY <1>1, <1>3, <1>5, <2>1, <2>3, <2>4 DEF e
<1> QED
  BY <1>4, <1>5

\* The agent's record changes and is published.
LEMMA AgentWorld ==
    ASSUME Typed, agent' \in AgentType, Publish(agent') \/ events' = events,
           procs' = procs, conns' = conns, troubles' \in 0..MaxTroubles
    PROVE  World'
<1>1. (events \in Seq(View) /\ Len(events) <= EventBuffer)'
  BY PublishTyped DEF Typed, World
<1> QED
  BY <1>1 DEF Typed, World

LEMMA TroublesTyped ==
    ASSUME Typed
    PROVE  /\ troubles \in 0..MaxTroubles
           /\ \A kind : May(kind) => troubles - 1 \in 0..MaxTroubles
BY TroubleAssumption DEF Typed, World, May

\* The processes of runtimes belong to sessions, and the rest of the world is left alone.
LEMMA WebWorld ==
    ASSUME Typed, agent' = agent, conns' = conns, troubles' \in 0..MaxTroubles,
           events' = events \/ (events # << >> /\ events' = Tail(events)), procs' \subseteq SessionIds
    PROVE  World'
<1>1. events \in Seq(View) /\ Len(events) <= EventBuffer /\ EventBuffer \in Nat
  BY BoundsAssumption DEF Typed, World
<1>2. events' \in Seq(View) /\ Len(events') <= EventBuffer
  <2>1. CASE events' = events
    BY <1>1, <2>1
  <2>2. CASE events # << >> /\ events' = Tail(events)
    <3> DEFINE q == Tail(events)
    <3>1. q \in Seq(View)
      BY <1>1, <2>2
    <3>2. Len(q) = Len(events) - 1 /\ Len(events) \in Nat
      BY <1>1, <2>2
    <3> HIDE DEF q
    <3>3. events' = q
      BY <2>2 DEF q
    <3> QED
      BY <1>1, <3>1, <3>2, <3>3
  <2> QED
    BY <2>1, <2>2
<1> QED
  BY <1>2 DEF Typed, World

LEMMA RepliesWorld ==
    ASSUME Typed, NEW t \in Tasks, Replies(t) \/ RuntimeFails(t) PROVE World'
<1>1. /\ agent' = agent /\ conns' = conns /\ events' = events
      /\ troubles' = troubles \/ (May("fail_rt") /\ troubles' = troubles - 1)
  BY DEF Replies, RuntimeFails, TakeLock, Answered, RuntimeUp, RuntimeDown
<1>2. troubles' \in 0..MaxTroubles
  BY <1>1, TroublesTyped
<1>3. procs' \subseteq SessionIds
  <2>1. procs \subseteq SessionIds
    BY DEF Typed, World
  <2>2. CASE RuntimeUp(t)
    BY <2>1, <2>2, SessionAtPoint DEF RuntimeUp
  <2>3. CASE RuntimeDown(t)
    BY <2>1, <2>3 DEF RuntimeDown
  <2>4. CASE TakeLock(t) \/ Answered(t) \/ RuntimeFails(t)
    BY <2>1, <2>4 DEF TakeLock, Answered, RuntimeFails
  <2> QED
    BY <2>2, <2>3, <2>4 DEF Replies
<1> QED
  BY <1>1, <1>2, <1>3, WebWorld

LEMMA EnvironmentWorld ==
    ASSUME Typed, Environment, ~WebRestarts PROVE World' /\ (~AgentStops => web' = web)
<1>1. agent \in AgentType
  BY DEF Typed, World
<1>2. agent' \in AgentType
  <2>1. NewAgent \in AgentType /\ [NewAgent EXCEPT !.up = FALSE] \in AgentType
    BY DEF NewAgent, AgentType
  <2>2. \A b \in BOOLEAN : /\ [agent EXCEPT !.comm = b] \in AgentType
                           /\ [agent EXCEPT !.heat = b] \in AgentType
    BY <1>1 DEF AgentType
  <2>3. \A m \in {"demo", "project"} : [agent EXCEPT !.mode = m] \in AgentType
    BY <1>1 DEF AgentType
  <2>4. /\ [agent EXCEPT !.comm = TRUE, !.image = NoSession, !.elf = NoSession] \in AgentType
        /\ [agent EXCEPT !.heat = TRUE, !.image = NoSession, !.elf = NoSession] \in AgentType
    BY <1>1 DEF AgentType
  <2>5. CASE AgentStops \/ AgentBoots
    BY <2>1, <2>5 DEF AgentStops, AgentBoots
  <2>6. CASE CommunicationLost \/ Overheats
    BY <2>4, <2>6 DEF CommunicationLost, Overheats
  <2>7. CASE CommunicationBack \/ CoolsDown
    BY <2>2, <2>7 DEF CommunicationBack, CoolsDown
  <2>8. CASE Reserved \/ Freed
    BY <2>3, <2>8 DEF Reserved, Freed
  <2> QED
    BY <2>5, <2>6, <2>7, <2>8 DEF Environment
<1>3. /\ Publish(agent') \/ events' = events
      /\ procs' = procs /\ conns' = conns
      /\ troubles' = troubles \/ \E kind : May(kind) /\ troubles' = troubles - 1
      /\ ~AgentStops => web' = web
  BY DEF Environment, AgentStops, AgentBoots, CommunicationLost, CommunicationBack, Overheats,
         CoolsDown, Reserved, Freed
<1>4. troubles' \in 0..MaxTroubles
  BY <1>3, TroublesTyped
<1> QED
  BY <1>2, <1>3, <1>4, AgentWorld

LEMMA UserWorld ==
    ASSUME Typed, NEW u \in Users, NEW d, NEW s \in SessionIds,
           CreateSession(u, d) \/ CancelSession(u, s) \/ EndSession(u, s)
    PROVE  World'
<1>1. /\ agent' = agent /\ conns' = conns /\ events' = events /\ procs' = procs
      /\ troubles' = troubles \/ (May("end_starting") /\ troubles' = troubles - 1)
  BY DEF CreateSession, CancelSession, EndSession
<1>2. troubles' \in 0..MaxTroubles
  BY <1>1, TroublesTyped
<1>3. procs' \subseteq SessionIds
  BY <1>1 DEF Typed, World
<1> QED
  BY <1>1, <1>2, <1>3, WebWorld

LEMMA AgentServesWorld == ASSUME Typed, AgentServes \/ AgentFails PROVE World' /\ Accounted({})
<1>1. ASSUME NEW i \in 1..Len(web.calls), AgentReceives(i) PROVE World' /\ Accounted({})
  BY <1>1, ReceivesAccounted, TroublesTyped, AgentWorld DEF AgentReceives, Typed, World
<1>2. CASE AgentContinues
  BY <1>2, ContinuesAccounted, TroublesTyped, AgentWorld DEF AgentContinues, Typed, World
<1>3. CASE AgentSucceeds
  <2>1. Publish(agent') /\ procs' = procs /\ conns' = conns /\ troubles' = troubles
    BY <1>3 DEF AgentSucceeds
  <2> QED
    BY <1>3, <2>1, SucceedsAccounted, TroublesTyped, AgentWorld
<1>4. CASE AgentFails
  <2>1. /\ agent' = agent /\ events' = events /\ procs' = procs /\ conns' = conns
        /\ \E kind : May(kind) /\ troubles' = troubles - 1
    BY <1>4 DEF AgentFails
  <2>2. troubles' \in 0..MaxTroubles
    BY <2>1, TroublesTyped
  <2>3. World'
    BY <2>1, <2>2, AgentWorld DEF Typed, World
  <2> QED
    BY <1>4, <2>3, FailsAccounted
<1> QED
  BY <1>1, <1>2, <1>3, <1>4 DEF AgentServes

LEMMA TypedStep == Typed /\ [Next]_vars => Typed'
<1> SUFFICES ASSUME Typed, [Next]_vars PROVE Shape(web)' /\ World' /\ Counts'
  BY TimerStep DEF Typed
<1>0. \A who : Accounted(who) => Shape(web)' /\ Counts'
  BY AccountedCounts DEF Accounted
<1>1. \A who : Kept(who) => Shape(web)' /\ Counts'
  BY <1>0, KeptAccounts
<1>2. ASSUME web' = web, conns' = conns PROVE Shape(web)' /\ Counts'
  BY <1>2 DEF Typed, Counts
<1>3. CASE UserActions
  <2>1. ASSUME NEW u \in Users, NEW d \in Demos, CreateSession(u, d) PROVE World' /\ Kept({})
    <3>1. Kept({})
      BY <2>1, CreateKept
    <3>2. procs' = procs /\ events' = events /\ agent' = agent /\ conns' = conns /\ troubles' = troubles
      BY <2>1 DEF CreateSession
    <3> QED
      BY <3>1, <3>2 DEF Typed, World
  <2>2. ASSUME NEW u \in Users, NEW s \in SessionIds, CancelSession(u, s) PROVE World' /\ Kept({})
    BY <2>2, UserWorld, CancelKept
  <2>3. ASSUME NEW u \in Users, NEW s \in SessionIds, EndSession(u, s) PROVE World' /\ Kept({})
    BY <2>3, UserWorld, EndKept
  <2> QED
    BY <1>1, <1>3, <2>1, <2>2, <2>3, OpenCounts, CloseCounts DEF UserActions
<1>4. CASE Tick
  BY <1>2, <1>4 DEF Tick, Typed, World
<1>5. CASE Timers
  <2>1. UNCHANGED <<agent, events, procs, conns, troubles>>
    BY <1>5 DEF Timers, ExpiryFires, DisconnectFires
  <2>2. World'
    BY <2>1 DEF Typed, World
  <2> QED
    BY <1>1, <1>5, <2>2, ExpiryKept, DisconnectKept DEF Timers
<1>6. CASE WatchEvent
  <2>1. World'
    BY <1>6, WebWorld DEF WatchEvent, Typed, World
  <2> QED
    BY <1>1, <1>6, <2>1, WatchKept
<1>7. ASSUME NEW t \in Tasks, Replies(t) \/ RuntimeFails(t) PROVE Shape(web)' /\ World' /\ Counts'
  <2>1. World'
    BY <1>7, RepliesWorld
  <2>2. \E who : Kept(who)
    BY <1>7, TakeLockKept, AnsweredKept, RuntimeUpKept, RuntimeDownKept, RuntimeFailsKept DEF Replies
  <2> QED
    BY <1>1, <2>1, <2>2
<1>8. ASSUME NEW s \in SessionIds, ZombieUp(s) \/ ZombieDown(s) PROVE Shape(web)' /\ World' /\ Counts'
  <2>1. World'
    BY <1>8, WebWorld DEF ZombieUp, ZombieDown, ThreadEnds, Typed, World
  <2> QED
    BY <1>1, <1>8, <2>1, ZombieKept DEF ZombieUp, ZombieDown
<1>9. CASE AgentServes \/ AgentFails
  BY <1>0, <1>9, AgentServesWorld
<1>10. CASE AgentReports
  <2>1. UNCHANGED <<web, agent, procs, conns, troubles>> /\ Publish(agent')
    BY <1>10 DEF AgentReports, Publish, ViewOf
  <2>2. World'
    BY <2>1, AgentWorld DEF Typed, World
  <2> QED
    BY <1>2, <2>1, <2>2
<1>11. CASE Environment
  <2>1. CASE WebRestarts
    BY <2>1, RestartCounts
  <2>2. CASE AgentStops
    <3>1. ~WebRestarts
      BY <2>2 DEF AgentStops, WebRestarts, NewAgent, Typed, World, AgentType
    <3> QED
      BY <1>0, <1>11, <2>2, <3>1, EnvironmentWorld, StopsAccounted
  <2>3. CASE ~WebRestarts /\ ~AgentStops
    <3>1. conns' = conns
      BY <1>11, <2>3 DEF Environment, AgentBoots, CommunicationLost, CommunicationBack, Overheats,
                        CoolsDown, Reserved, Freed
    <3> QED
      BY <1>2, <1>11, <2>3, <3>1, EnvironmentWorld
  <2> QED
    BY <2>1, <2>2, <2>3
<1>12. CASE UNCHANGED vars
  BY <1>2, <1>12 DEF vars, Typed, World
<1> QED
  BY <1>3, <1>4, <1>5, <1>6, <1>7, <1>8, <1>9, <1>10, <1>11, <1>12 DEF Next

LEMMA TypedInit == Init => Typed
<1> SUFFICES ASSUME Init PROVE Shape(web) /\ World /\ Counts
  BY TimerInit DEF Typed
<1>1. /\ web.fpga = ViewOf(NewAgent) /\ web.runtime = NoSession /\ web.expiry = NoTask /\ web.disc = {}
      /\ web.counts = [s \in SessionIds |-> 0] /\ web.tasks = [t \in Tasks |-> Rest(t)]
      /\ web.calls = << >> /\ web.zombies = {}
  BY DEF Init, StartedManager
<1>2. NewAgent \in AgentType /\ ViewOf(NewAgent) \in View
  BY DEF NewAgent, AgentType, ViewOf, View, Status
<1>3. << >> \in Seq(Requests) /\ << >> \in Seq(View) /\ Len(<< >>) = 0
  OBVIOUS
<1>4. Shape(web)
  BY <1>1, <1>2, <1>3, RestShape DEF Shape
<1>5. Counts
  BY <1>1 DEF Counts, Init
<1>6. World
  BY <1>2, <1>3, BoundsAssumption, TroubleAssumption DEF World, Init
<1> QED
  BY <1>4, <1>5, <1>6

\* The inductive invariant: at every moment a session has at least as many open
\* connections as _demo_connection_counts says.
THEOREM TypedInvariant == Spec => []Typed
BY TypedInit, TypedStep, PTL DEF Spec

LEMMA WebTyped == ASSUME Typed PROVE web \in WebType
<1>1. /\ web.store \in Store /\ web.flow \in Seq(Tasks) /\ IsWeb(web)
      /\ web.tasks = [t \in Tasks |-> web.tasks[t]]
  BY DEF Typed, TimersSet, LockOrder, Order, StoreOK
<1>2. /\ web.fpga \in View /\ web.runtime \in SessionIds \cup {NoSession}
      /\ web.expiry \in Tasks \cup {NoTask} /\ web.disc \in SUBSET SessionIds
      /\ web.zombies \in SUBSET ({"up", "down"} \X (SessionIds \cup {NoSession}))
      /\ web.counts = [s \in SessionIds |-> web.counts[s]]
  BY DEF Typed, Shape
<1>3. web.counts \in [SessionIds -> 0..MaxConns]
  <2>1. \A s \in SessionIds : web.counts[s] \in 0..MaxConns
    <3> SUFFICES ASSUME NEW s \in SessionIds PROVE web.counts[s] \in 0..MaxConns
      OBVIOUS
    <3>1. web.counts[s] \in Nat /\ web.counts[s] <= conns[s] /\ conns[s] \in 0..MaxConns
      BY DEF Typed, Counts, World
    <3> QED
      BY <3>1, BoundsAssumption
  <2> QED
    BY <1>2, <2>1
<1> DEFINE task == [pc : Points, ses : SessionIds \cup {NoSession},
                    run : SessionIds \cup {NoSession},
                    call : {"none", "out", "ok", "error"},
                    ans : View \cup {NoView}]
           request == [op : {"pl", "ps", "reset"}, ses : SessionIds, by : Tasks \cup {NoTask},
                       stage : {"sent", "admitted", "running"}]
<1>4. web.tasks \in [Tasks -> task]
  <2>1. \A t \in Tasks : web.tasks[t] \in task
    BY DEF Typed, Shape, TaskShape
  <2> HIDE DEF task
  <2> QED
    BY <1>1, <2>1
<1>5. web.calls \in Seq(request)
  BY DEF Typed, Shape, Requests
<1>6. WebType = [store : Store, fpga : View, runtime : SessionIds \cup {NoSession}, flow : Seq(Tasks),
                 expiry : Tasks \cup {NoTask}, disc : SUBSET SessionIds,
                 counts : [SessionIds -> 0..MaxConns], tasks : [Tasks -> task],
                 calls : Seq(request),
                 zombies : SUBSET ({"up", "down"} \X (SessionIds \cup {NoSession}))]
  BY DEF WebType
<1> HIDE DEF task, request
<1> QED
  BY <1>1, <1>2, <1>3, <1>4, <1>5, <1>6 DEF IsWeb

\* The state keeps its shape whatever goes wrong: the counts of connections
\* never fall below zero (demo_connection_closed), the event stream stays within
\* its buffer, and the clock stays among the deadlines timers are named by.
THEOREM TypeAlwaysOK == Spec => []TypeOK
<1>1. Typed /\ now \in Deadlines => TypeOK
  BY WebTyped DEF Typed, World, TypeOK
<1> QED
  BY <1>1, TypedInvariant, ClockStaysBounded, PTL

-----------------------------------------------------------------------------
(* Connections and those who are blamed for having none *)

\* A step keeps the store's course and the counts of connections, opens or
\* closes a connection, or restarts the Web API.  Whom it times out is the owner
\* a disconnect timer has found disconnected, now or when it asked for the lock.
LEMMA StepKinds ==
    ASSUME Typed, [Next]_vars
    PROVE  \/ Accounted({})
           \/ \E s \in SessionIds : /\ Accounted({s}) /\ web.counts[s] = 0
                                    /\ ActiveId(web) = s /\ ActiveIs(web.store, "active")
           \/ \E t \in Tasks : TakeLock(t) /\ Accounted(Blamed(web, t))
           \/ \E s \in SessionIds : OpenConnection(s) \/ CloseConnection(s)
           \/ WebRestarts
<1>1. ASSUME web' = web, conns' = conns PROVE Accounted({})
  BY <1>1 DEF Typed, Accounted, Accounts, Forward
<1>2. CASE UserActions
  BY <1>2, CreateKept, CancelKept, EndKept, KeptAccounts DEF UserActions
<1>3. CASE Tick \/ AgentReports \/ UNCHANGED vars
  BY <1>1, <1>3 DEF Tick, AgentReports, vars
<1>4. CASE Timers
  BY <1>4, ExpiryKept, DisconnectKept, KeptAccounts DEF Timers
<1>5. CASE WatchEvent
  BY <1>5, WatchKept, KeptAccounts
<1>6. ASSUME NEW t \in Tasks, Replies(t) \/ RuntimeFails(t)
      PROVE  \/ Accounted({})
             \/ TakeLock(t) /\ Accounted(Blamed(web, t))
  BY <1>6, TakeLockKept, AnsweredKept, RuntimeUpKept, RuntimeDownKept, RuntimeFailsKept, KeptAccounts
     DEF Replies
<1>7. ASSUME NEW s \in SessionIds, ZombieUp(s) \/ ZombieDown(s) PROVE Accounted({})
  BY <1>7, ZombieKept, KeptAccounts DEF ZombieUp, ZombieDown
<1>8. CASE AgentServes \/ AgentFails
  BY <1>8, AgentServesWorld
<1>9. CASE Environment
  <2>1. CASE AgentStops
    BY <2>1, StopsAccounted
  <2>2. CASE ~WebRestarts /\ ~AgentStops
    <3>1. conns' = conns
      BY <1>9, <2>2 DEF Environment, AgentBoots, CommunicationLost, CommunicationBack, Overheats,
                        CoolsDown, Reserved, Freed
    <3> QED
      BY <1>1, <1>9, <2>2, <3>1, EnvironmentWorld
  <2> QED
    BY <2>1, <2>2
<1> QED
  BY <1>2, <1>3, <1>4, <1>5, <1>6, <1>7, <1>8, <1>9 DEF Next

\* Until a session's end, its connections are counted.
Counted == \A s \in SessionIds : StatusOf(web.store, s) \notin Ending => web.counts[s] = conns[s]

LEMMA CountedStep == Typed /\ Counted /\ [Next]_vars => Counted'
<1> SUFFICES ASSUME Typed, Counted, [Next]_vars PROVE Counted'
  OBVIOUS
<1>1. ASSUME NEW who, Accounted(who) PROVE Counted'
  BY <1>1 DEF Accounted, Accounts, Forward, Counted
<1>2. conns \in [SessionIds -> Nat] /\ \A s \in SessionIds : web.counts[s] \in Nat
  BY BoundsAssumption DEF Typed, World, Counts
<1>3. ASSUME NEW s \in SessionIds, OpenConnection(s) PROVE Counted'
  <2>1. \A x \in SessionIds : conns'[x] = IF x = s THEN conns[s] + 1 ELSE conns[x]
    BY <1>2, <1>3 DEF OpenConnection
  <2> QED
    BY <1>3, <2>1, OpenRecounts DEF Recount, Counted
<1>4. ASSUME NEW s \in SessionIds, CloseConnection(s) PROVE Counted'
  <2>1. /\ \A x \in SessionIds : conns'[x] = IF x = s THEN conns[s] - 1 ELSE conns[x]
        /\ conns[s] > 0
    BY <1>2, <1>4 DEF CloseConnection
  <2> QED
    BY <1>2, <1>4, <2>1, CloseRecounts DEF Recount, Counted
<1>5. CASE WebRestarts
  <2>1. \A s \in SessionIds : conns'[s] = 0
    BY <1>5 DEF WebRestarts
  <2>2. \A s \in SessionIds : web'.counts[s] = 0
    BY <1>2, <1>5, <2>1, RestartCounts DEF Counts
  <2> QED
    BY <2>1, <2>2 DEF Counted
<1> QED
  BY <1>1, <1>3, <1>4, <1>5, StepKinds

\* The proxy's connections to a session's demo are counted until the session
\* ends, whatever goes wrong (demo_connection_opened, demo_connection_closed):
\* a disconnect timer that finds a count of zero finds nobody connected.
THEOREM ConnectionsCounted == Spec => []Counted
<1>1. Init => Counted
  BY DEF Init, StartedManager, Counted
<1>2. Typed /\ Counted /\ [Next]_vars => Counted'
  BY CountedStep
<1> QED
  BY <1>1, <1>2, TypedInvariant, PTL DEF Spec

-----------------------------------------------------------------------------
(* The agent that the board manager is modelled with is the service that   *)
(* FpgaAgent implements.  Requests that are sent and have not reached it   *)
(* are behind all others, so what the Web API does meanwhile is not seen.  *)

LEMMA EntryFacts ==
    ASSUME NEW r \in Requests
    PROVE  /\ Entry(r) \in Service!Requests
           /\ Entry(r).op = r.op /\ Entry(r).mode = "demo"
           /\ Entry(r).begun = (r.stage = "running")
           /\ Entry(r).image = IF r.op = "pl" THEN r.ses ELSE NoSession
BY DEF Requests, Entry, Service!Requests, Service!Modes

\* The agent has heard of the first k requests.
Heard(c, k) ==
    /\ k \in 0..Len(c)
    /\ \A i \in 1..Len(c) : /\ c[i].stage # "sent" <=> i <= k
                            /\ c[i].stage = "running" => i = 1

Lined(c) == [i \in {i \in DOMAIN c : c[i].stage # "sent"} |-> Entry(c[i])]

LEMMA LinedShape ==
    ASSUME NEW c \in Seq(Requests), NEW k, Heard(c, k)
    PROVE  /\ Lined(c) = [i \in 1..k |-> Entry(c[i])]
           /\ Lined(c) \in Seq(Service!Requests) /\ Len(Lined(c)) = k
           /\ \A i \in 1..k : Lined(c)[i] = Entry(c[i])
<1> DEFINE l == [i \in 1..k |-> Entry(c[i])]
<1>1. /\ DOMAIN c = 1..Len(c) /\ Len(c) \in Nat /\ k \in Nat /\ k <= Len(c)
      /\ \A i \in 1..Len(c) : c[i] \in Requests
  BY DEF Heard
<1>2. {i \in DOMAIN c : c[i].stage # "sent"} = 1..k
  BY <1>1 DEF Heard
<1>3. Lined(c) = l
  BY <1>2 DEF Lined
<1>4. \A i \in 1..k : Entry(c[i]) \in Service!Requests
  BY <1>1, EntryFacts
<1>5. l \in [1..k -> Service!Requests]
  BY <1>4
<1>6. l \in Seq(Service!Requests)
  BY <1>1, <1>5, SeqDef
<1>7. Len(l) = k
  BY <1>1, <1>5, <1>6, LenProperties
<1> QED
  BY <1>3, <1>6, <1>7

\* Two lists of the same length and the same entries are one.
LEMMA SameLine ==
    ASSUME NEW S, NEW p \in Seq(S), NEW q \in Seq(S), Len(p) = Len(q),
           \A i \in 1..Len(p) : p[i] = q[i]
    PROVE  p = q
BY SeqEqual

LEMMA LinedGrown ==
    ASSUME NEW c \in Seq(Requests), NEW d \in Seq(Requests), NEW k, Heard(c, k), Grown(c, d)
    PROVE  Heard(d, k) /\ Lined(d) = Lined(c)
<1>1. /\ DOMAIN c = 1..Len(c) /\ Len(c) \in Nat /\ DOMAIN d = 1..Len(d) /\ Len(d) \in Nat
      /\ k \in Nat /\ k <= Len(c)
  BY DEF Heard
<1>2. Len(c) <= Len(d)
  <2>1. CASE Len(c) = 0
    BY <1>1, <2>1
  <2>2. CASE Len(c) # 0
    <3>1. Len(c) \in DOMAIN d
      BY <1>1, <2>2 DEF Grown
    <3> QED
      BY <1>1, <3>1
  <2> QED
    BY <2>1, <2>2
<1>3. Heard(d, k)
  BY <1>1, <1>2 DEF Grown, Heard
<1>4. \A i \in 1..k : Entry(d[i]) = Entry(c[i])
  BY <1>1, <1>2 DEF Grown, Entry
<1> QED
  BY <1>3, <1>4, LinedShape

\* The first request is answered, or the first that is sent and not heard.
LEMMA LinedRemove ==
    ASSUME NEW c \in Seq(Requests), NEW k, Heard(c, k), NEW i \in 1..Len(c)
    PROVE  LET d == RemoveAt(c, i)
           IN  /\ i = k + 1 => Heard(d, k) /\ Lined(d) = Lined(c)
               /\ i = 1 /\ k # 0 => Heard(d, k - 1) /\ Lined(d) = Tail(Lined(c))
<1> DEFINE d == RemoveAt(c, i)
<1>1. /\ d \in Seq(Requests) /\ Len(d) = Len(c) - 1
      /\ \A j \in 1..(Len(c) - 1) : d[j] = IF j < i THEN c[j] ELSE c[j + 1]
  BY RemoveAtShape
<1>2. Len(c) \in Nat /\ k \in Nat /\ k <= Len(c)
  BY DEF Heard
<1> HIDE DEF d
<1>3. ASSUME i = k + 1 PROVE Heard(d, k) /\ Lined(d) = Lined(c)
  <2>1. Heard(d, k)
    BY <1>1, <1>2, <1>3 DEF Heard
  <2>2. \A j \in 1..k : Entry(d[j]) = Entry(c[j])
    <3>1. \A j \in 1..k : d[j] = c[j]
      BY <1>1, <1>2, <1>3
    <3> QED
      BY <3>1
  <2>3. Lined(d) = [j \in 1..k |-> Entry(d[j])]
    BY <1>1, <2>1, LinedShape
  <2>4. Lined(c) = [j \in 1..k |-> Entry(c[j])]
    BY LinedShape
  <2>5. [j \in 1..k |-> Entry(d[j])] = [j \in 1..k |-> Entry(c[j])]
    BY <2>2
  <2> QED
    BY <2>1, <2>3, <2>4, <2>5
<1>4. ASSUME i = 1, k # 0 PROVE Heard(d, k - 1) /\ Lined(d) = Tail(Lined(c))
  <2>1. Heard(d, k - 1)
    BY <1>1, <1>2, <1>4 DEF Heard
  <2>2. \A j \in 1..(k - 1) : d[j] = c[j + 1]
    BY <1>1, <1>2, <1>4
  <2>3. /\ Lined(d) \in Seq(Service!Requests) /\ Len(Lined(d)) = k - 1
        /\ \A j \in 1..(k - 1) : Lined(d)[j] = Entry(d[j])
    BY <1>1, <2>1, LinedShape
  <2>4. /\ Lined(c) \in Seq(Service!Requests) /\ Len(Lined(c)) = k
        /\ \A j \in 1..k : Lined(c)[j] = Entry(c[j])
    BY LinedShape
  <2> DEFINE p == Lined(d)
             q == Lined(c)
             S == Service!Requests
  <2> HIDE DEF p, q, S
  <2>5. /\ Tail(q) \in Seq(S) /\ Len(Tail(q)) = k - 1
        /\ \A j \in 1..(k - 1) : Tail(q)[j] = q[j + 1]
    BY <1>2, <1>4, <2>4 DEF q, S
  <2>6. \A j \in 1..(k - 1) : p[j] = Tail(q)[j]
    <3> TAKE j \in 1..(k - 1)
    <3>1. j \in 1..k /\ j + 1 \in 1..k
      BY <1>2
    <3>2. p[j] = Entry(d[j]) /\ d[j] = c[j + 1]
      BY <2>2, <2>3 DEF p
    <3>3. Tail(q)[j] = q[j + 1]
      BY <2>5
    <3>4. q[j + 1] = Entry(c[j + 1])
      BY <2>4, <3>1 DEF q
    <3> QED
      BY <3>2, <3>3, <3>4
  <2>7. p = Tail(q)
    BY <2>3, <2>5, <2>6, SameLine DEF p, S
  <2> QED
    BY <2>1, <2>7 DEF p, q
<1> QED
  BY <1>3, <1>4 DEF d

\* The next request is heard.
LEMMA LinedAdmit ==
    ASSUME NEW c \in Seq(Requests), NEW k, Heard(c, k), k < Len(c),
           NEW r \in Requests, r.stage = IF k = 0 THEN "running" ELSE "admitted"
    PROVE  LET d == [c EXCEPT ![k + 1] = r]
           IN  /\ Heard(d, k + 1) /\ Lined(d) = Append(Lined(c), Entry(r))
<1> DEFINE d == [c EXCEPT ![k + 1] = r]
           n == Len(c)
<1>1. n \in Nat /\ k \in Nat /\ k < n /\ c \in [1..n -> Requests]
  BY DEF Heard
<1>2. d \in [1..n -> Requests] /\ \A i \in 1..n : d[i] = IF i = k + 1 THEN r ELSE c[i]
  BY <1>1
<1> HIDE DEF d
<1>3. d \in Seq(Requests) /\ Len(d) = n
  <2>1. d \in Seq(Requests)
    BY <1>1, <1>2, SeqDef
  <2> QED
    BY <1>1, <1>2, <2>1, LenProperties
<1>4. Heard(d, k + 1)
  BY <1>1, <1>2, <1>3 DEF Heard
<1>5. /\ Lined(d) \in Seq(Service!Requests) /\ Len(Lined(d)) = k + 1
      /\ \A i \in 1..(k + 1) : Lined(d)[i] = Entry(d[i])
  BY <1>3, <1>4, LinedShape
<1>6. /\ Lined(c) \in Seq(Service!Requests) /\ Len(Lined(c)) = k
      /\ \A i \in 1..k : Lined(c)[i] = Entry(c[i])
  BY LinedShape
<1>7. Entry(r) \in Service!Requests
  BY EntryFacts
<1> DEFINE p == Lined(d)
           q == Lined(c)
           e == Entry(r)
           S == Service!Requests
<1> HIDE DEF p, q, e, S
<1>8. /\ Append(q, e) \in Seq(S) /\ Len(Append(q, e)) = k + 1
      /\ \A i \in 1..(k + 1) : Append(q, e)[i] = IF i = k + 1 THEN e ELSE q[i]
  BY <1>1, <1>6, <1>7 DEF q, e, S
<1>9. \A i \in 1..(k + 1) : p[i] = Append(q, e)[i]
  BY <1>1, <1>2, <1>5, <1>6, <1>8 DEF p, q, e
<1>10. p = Append(q, e)
  BY <1>5, <1>8, <1>9, SameLine DEF p, S
<1> QED
  BY <1>4, <1>10 DEF d, p, q, e

\* The first request begins.
LEMMA LinedBegin ==
    ASSUME NEW c \in Seq(Requests), NEW k, Heard(c, k), k # 0
    PROVE  LET d == [c EXCEPT ![1].stage = "running"]
           IN  /\ Heard(d, k) /\ Lined(d) = [Lined(c) EXCEPT ![1].begun = TRUE]
<1> DEFINE r == [c[1] EXCEPT !.stage = "running"]
           d == [c EXCEPT ![1] = r]
           n == Len(c)
<1>1. n \in Nat /\ k \in Nat /\ k <= n /\ k >= 1 /\ c \in [1..n -> Requests] /\ c[1] \in Requests
  BY DEF Heard
<1>2. /\ r \in Requests /\ r.stage = "running" /\ Entry(r) = [Entry(c[1]) EXCEPT !.begun = TRUE]
  <2> DEFINE x == c[1]
  <2>1. x \in Requests
    BY <1>1
  <2> HIDE DEF x
  <2>2. [x EXCEPT !.stage = "running"] \in Requests
    BY <2>1 DEF Requests
  <2>3. LET y == [x EXCEPT !.stage = "running"]
        IN  y.stage = "running" /\ y.op = x.op /\ y.ses = x.ses
    BY <2>1 DEF Requests
  <2>4. Entry([x EXCEPT !.stage = "running"]) = [Entry(x) EXCEPT !.begun = TRUE]
    <3> DEFINE y == [x EXCEPT !.stage = "running"]
               e == Entry(x)
               f == Entry(y)
               g == [e EXCEPT !.begun = TRUE]
    <3>1. /\ e \in Service!Requests /\ f \in Service!Requests
          /\ f.op = e.op /\ f.image = e.image /\ f.mode = e.mode /\ f.begun = TRUE
      BY <2>1, <2>2, <2>3, EntryFacts
    <3> HIDE DEF y, e, f
    <3>2. /\ g \in Service!Requests
          /\ g.op = e.op /\ g.image = e.image /\ g.mode = e.mode /\ g.begun = TRUE
      BY <3>1 DEF Service!Requests
    <3> HIDE DEF g
    <3>3. f = g
      BY <3>1, <3>2 DEF Service!Requests
    <3> QED
      BY <3>3 DEF e, f, g, y
  <2> QED
    BY <2>2, <2>3, <2>4 DEF x
<1> HIDE DEF r
<1>3. d \in [1..n -> Requests] /\ \A i \in 1..n : d[i] = IF i = 1 THEN r ELSE c[i]
  BY <1>1, <1>2
<1> HIDE DEF d
<1>4. d \in Seq(Requests) /\ Len(d) = n
  <2>1. d \in Seq(Requests)
    BY <1>1, <1>3, SeqDef
  <2> QED
    BY <1>1, <1>3, <2>1, LenProperties
<1>5. Heard(d, k)
  BY <1>1, <1>2, <1>3, <1>4 DEF Heard
<1>6. Lined(d) = [i \in 1..k |-> Entry(d[i])] /\ Lined(c) = [i \in 1..k |-> Entry(c[i])]
  BY <1>4, <1>5, LinedShape
<1>7. [Lined(c) EXCEPT ![1].begun = TRUE] = [i \in 1..k |-> IF i = 1 THEN Entry(r) ELSE Entry(c[i])]
  BY <1>1, <1>2, <1>6
<1>8. \A i \in 1..k : Entry(d[i]) = IF i = 1 THEN Entry(r) ELSE Entry(c[i])
  BY <1>1, <1>3
<1> QED
  BY <1>5, <1>6, <1>7, <1>8 DEF d, r

\* Whatever the agent has heard of it will answer, unless it is stopped.
InService == \E k \in Nat : Heard(web.calls, k) /\ (~agent.up => k = 0)

\* A step keeps that, and is one of the service or none.
ServeStep == InService' /\ [Service!Next]_(Service!vars)

LEMMA LineIsLined == Line = Lined(web.calls) /\ Line' = Lined(web'.calls)
BY DEF Line, Lined

LEMMA HeadOfLine ==
    ASSUME Typed, NEW k \in Nat, Heard(web.calls, k)
    PROVE  /\ Line \in Seq(Service!Requests) /\ Len(Line) = k
           /\ k # 0 => /\ Line # << >> /\ Head(Line) = Entry(web.calls[1])
                       /\ web.calls # << >> /\ Head(web.calls) = web.calls[1]
                       /\ web.calls[1] \in Requests
           /\ k = 0 => Line = << >>
<1> DEFINE c == web.calls
           l == Line
           S == Service!Requests
<1>1. c \in Seq(Requests) /\ k <= Len(c) /\ Len(c) \in Nat
  BY DEF Typed, Shape, Heard
<1>2. l \in Seq(S) /\ Len(l) = k /\ \A i \in 1..k : l[i] = Entry(c[i])
  BY <1>1, LinedShape, LineIsLined
<1> HIDE DEF c, l, S
<1>3. k # 0 => l # << >> /\ Head(l) = Entry(c[1])
  BY <1>2
<1>4. k # 0 => c # << >> /\ Head(c) = c[1] /\ c[1] \in Requests
  BY <1>1
<1>5. k = 0 => l = << >>
  BY <1>2
<1> QED
  BY <1>2, <1>3, <1>4, <1>5 DEF c, l, S

LEMMA BoardIsBusy ==
    ASSUME Typed, NEW k \in Nat, Heard(web.calls, k)
    PROVE  /\ Service!AtBoard <=> Busy
           /\ Busy => k # 0
           /\ web.calls # << >> /\ Head(web.calls).stage = "admitted" => k # 0 /\ ~Busy
<1>1. k # 0 => (Service!AtBoard <=> Busy)
  BY HeadOfLine, EntryFacts DEF Service!AtBoard, Busy
<1>2. web.calls # << >> => Head(web.calls) = web.calls[1] /\ 1 \in 1..Len(web.calls)
  BY HeadRequest
<1>3. k = 0 => ~Service!AtBoard
  BY HeadOfLine DEF Service!AtBoard
<1>4. web.calls # << >> /\ Head(web.calls).stage # "sent" => k # 0
  BY <1>2 DEF Heard
<1> QED
  BY <1>1, <1>3, <1>4 DEF Busy

LEMMA QuietServes ==
    ASSUME NEW k \in Nat, Heard(web'.calls, k), ~agent.up => k = 0, agent' = agent,
           Lined(web'.calls) = Lined(web.calls)
    PROVE  ServeStep
<1>1. InService'
  BY DEF InService
<1>2. UNCHANGED Service!vars
  BY LineIsLined DEF Service!vars
<1> QED
  BY <1>1, <1>2 DEF ServeStep

LEMMA GrownServes ==
    ASSUME Typed, InService, agent' = agent, Shape(web'), Grown(web.calls, web'.calls)
    PROVE  ServeStep
<1>1. PICK k \in Nat : Heard(web.calls, k) /\ (~agent.up => k = 0)
  BY DEF InService
<1>2. web.calls \in Seq(Requests) /\ web'.calls \in Seq(Requests)
  BY DEF Typed, Shape
<1>3. Heard(web'.calls, k) /\ Lined(web'.calls) = Lined(web.calls)
  BY <1>1, <1>2, LinedGrown
<1> QED
  BY <1>1, <1>3, QuietServes

LEMMA SameServes ==
    ASSUME Typed, InService, agent' = agent, web' = web PROVE ServeStep
BY GrownServes DEF Typed, Grown

-----------------------------------------------------------------------------
(* What the agent does with a request *)

LEMMA AnswerCalls ==
    ASSUME Typed, NEW i, NEW call, NEW ans
    PROVE  Answer(web, i, call, ans).calls = RemoveAt(web.calls, i)
<1>1. Runs(web, Watch) /\ \A x \in Tasks : IsTask(web.tasks[x])
  BY TypedFacts
<1> QED
  BY <1>1, AnswerTold DEF Told

LEMMA StageCalls ==
    ASSUME Typed, NEW i \in 1..Len(web.calls), NEW stage \in {"admitted", "running"}
    PROVE  LET r == [web.calls[i] EXCEPT !.stage = stage]
           IN  /\ r \in Requests /\ r.stage = stage /\ r.op = web.calls[i].op
               /\ [web EXCEPT !.calls[i].stage = stage].calls = [web.calls EXCEPT ![i] = r]
<1> DEFINE c == web.calls[i]
<1>1. c \in Requests
  BY DEF Typed, Shape
<1>2. IsWeb(web)
  BY TypedFacts
<1>3. [web EXCEPT !.calls[i].stage = stage].calls
          = [web.calls EXCEPT ![i] = [web.calls[i] EXCEPT !.stage = stage]]
  BY <1>2 DEF IsWeb
<1> HIDE DEF c
<1>4. LET r == [c EXCEPT !.stage = stage] IN r \in Requests /\ r.stage = stage /\ r.op = c.op
  BY <1>1 DEF Requests
<1> QED
  BY <1>3, <1>4 DEF c

\* The first request that is sent is the one after those the agent has heard of.
LEMMA FirstSentNext ==
    ASSUME Typed, NEW i, FirstSent(i), NEW k \in Nat, Heard(web.calls, k)
    PROVE  i = k + 1 /\ i \in 1..Len(web.calls)
<1>1. DOMAIN web.calls = 1..Len(web.calls) /\ Len(web.calls) \in Nat
  BY DEF Typed, Shape
<1>2. /\ i \in 1..Len(web.calls) /\ web.calls[i].stage = "sent"
      /\ \A j \in 1..(i - 1) : web.calls[j].stage # "sent"
  BY <1>1 DEF FirstSent
<1>3. ~(i <= k)
  BY <1>1, <1>2 DEF Heard
<1>4. ~(i > k + 1)
  <2> SUFFICES ASSUME i > k + 1 PROVE FALSE
    OBVIOUS
  <2>1. k + 1 \in 1..(i - 1) /\ k + 1 \in 1..Len(web.calls)
    BY <1>1, <1>2
  <2>2. web.calls[k + 1].stage = "sent"
    BY <2>1 DEF Heard
  <2> QED
    BY <1>2, <2>1, <2>2
<1> QED
  BY <1>1, <1>2, <1>3, <1>4

LEMMA ReceivesServes ==
    ASSUME Typed, InService, NEW i \in 1..Len(web.calls), AgentReceives(i) PROVE ServeStep
<1>1. PICK k \in Nat : Heard(web.calls, k) /\ (~agent.up => k = 0)
  BY DEF InService
<1>2. FirstSent(i) /\ agent' = agent
  BY DEF AgentReceives
<1>3. i = k + 1 /\ i \in 1..Len(web.calls) /\ web.calls \in Seq(Requests)
  BY <1>1, <1>2, FirstSentNext DEF Typed, Shape
<1>4. CASE web' = Answer(web, i, "error", NoView)
  <2>1. web'.calls = RemoveAt(web.calls, i)
    BY <1>4, AnswerCalls
  <2>2. Heard(web'.calls, k) /\ Lined(web'.calls) = Lined(web.calls)
    BY <1>1, <1>3, <2>1, LinedRemove
  <2> QED
    BY <1>1, <1>2, <2>2, QuietServes
<1>5. CASE CanProgram /\ web' = [web EXCEPT !.calls[i].stage = IF i = 1 THEN "running" ELSE "admitted"]
  <2> DEFINE stage == IF i = 1 THEN "running" ELSE "admitted"
             r == [web.calls[i] EXCEPT !.stage = stage]
  <2>1. stage \in {"admitted", "running"} /\ web' = [web EXCEPT !.calls[i].stage = stage]
    BY <1>5
  <2>2. stage = IF k = 0 THEN "running" ELSE "admitted"
    BY <1>3
  <2> HIDE DEF stage
  <2>3. stage = "running" => k = 0
    BY <2>2
  <2>4. r \in Requests /\ r.stage = stage /\ web'.calls = [web.calls EXCEPT ![k + 1] = r]
    BY <1>3, <2>1, StageCalls
  <2> HIDE DEF r
  <2>5. k < Len(web.calls)
    BY <1>3
  <2>6. Heard(web'.calls, k + 1) /\ Lined(web'.calls) = Append(Lined(web.calls), Entry(r))
    BY <1>1, <1>3, <2>2, <2>4, <2>5, LinedAdmit
  <2>7. agent.up /\ ~agent.heat /\ agent.mode = "demo"
    BY <1>5 DEF CanProgram
  <2>8. InService'
    BY <1>2, <2>6, <2>7 DEF InService
  <2>9. Entry(r) \in Service!Requests /\ Service!Open(Entry(r)) /\ (Entry(r).begun => k = 0)
    BY <2>3, <2>4, <2>7, EntryFacts DEF Service!Open
  <2>10. Line \in Seq(Service!Requests) /\ (k = 0 => Line = << >>) /\ Line' = Append(Line, Entry(r))
    BY <1>1, <2>6, HeadOfLine, LineIsLined
  <2>11. Len(Line') > Len(Line)
    <3> DEFINE l == Line
               e == Entry(r)
               S == Service!Requests
    <3>1. l \in Seq(S) /\ e \in S
      BY <2>9, <2>10
    <3> HIDE DEF l, e, S
    <3>2. Len(Append(l, e)) = Len(l) + 1 /\ Len(l) \in Nat
      BY <3>1
    <3> QED
      BY <2>10, <3>2 DEF l, e
  <2>12. Service!Admit
    BY <1>2, <2>9, <2>10, <2>11 DEF Service!Admit
  <2> QED
    BY <2>8, <2>12 DEF ServeStep, Service!Next, Service!Serve
<1> QED
  BY <1>4, <1>5 DEF AgentReceives

LEMMA ContinuesServes == ASSUME Typed, InService, AgentContinues PROVE ServeStep
<1>1. PICK k \in Nat : Heard(web.calls, k) /\ (~agent.up => k = 0)
  BY DEF InService
<1>2. agent' = agent /\ web.calls # << >> /\ Head(web.calls).stage = "admitted"
  BY DEF AgentContinues
<1>3. k # 0 /\ ~Service!AtBoard /\ agent.up
  BY <1>1, <1>2, BoardIsBusy
<1>4. /\ Line # << >> /\ Head(Line) = Entry(web.calls[1]) /\ web.calls[1] \in Requests
      /\ Head(web.calls) = web.calls[1]
  BY <1>1, <1>3, HeadOfLine
<1>5. 1 \in 1..Len(web.calls) /\ web.calls \in Seq(Requests)
  BY <1>2, HeadRequest DEF Typed, Shape
<1>6. Head(Line).op = Head(web.calls).op /\ (Service!Open(Head(Line)) <=> CanProgram)
  BY <1>3, <1>4, EntryFacts DEF Service!Open, CanProgram
<1>7. CASE CanProgram \/ Head(web.calls).op = "reset"
  <2> DEFINE r == [web.calls[1] EXCEPT !.stage = "running"]
  <2>1. web' = [web EXCEPT !.calls[1].stage = "running"]
    BY <1>7 DEF AgentContinues
  <2>2. web'.calls = [web.calls EXCEPT ![1] = r]
    BY <1>5, <2>1, StageCalls
  <2>3. Heard(web'.calls, k) /\ Lined(web'.calls) = [Lined(web.calls) EXCEPT ![1].begun = TRUE]
    <3> DEFINE c == web.calls
               d == [c EXCEPT ![1].stage = "running"]
    <3>1. c \in Seq(Requests) /\ Heard(c, k) /\ k # 0
      BY <1>1, <1>3, <1>5
    <3>2. web'.calls = d
      BY <2>2
    <3> HIDE DEF c
    <3>3. Heard(d, k)
      BY <3>1, LinedBegin
    <3>4. Lined(d) = [Lined(c) EXCEPT ![1].begun = TRUE]
      BY <3>1, LinedBegin
    <3> HIDE DEF d
    <3> QED
      BY <3>2, <3>3, <3>4 DEF c
  <2>4. InService'
    BY <1>1, <1>2, <2>3 DEF InService
  <2>5. Service!Begin
    BY <1>2, <1>3, <1>4, <1>6, <1>7, <2>3, LineIsLined DEF Service!Begin
  <2> QED
    BY <2>4, <2>5 DEF ServeStep, Service!Next, Service!Serve
<1>8. CASE ~CanProgram /\ Head(web.calls).op # "reset"
  <2>1. web' = Answer(web, 1, "error", NoView)
    BY <1>8 DEF AgentContinues
  <2>2. web'.calls = RemoveAt(web.calls, 1)
    BY <2>1, AnswerCalls
  <2>3. Heard(web'.calls, k - 1) /\ Lined(web'.calls) = Tail(Lined(web.calls))
    BY <1>1, <1>3, <1>5, <2>2, LinedRemove
  <2>4. InService'
    BY <1>2, <1>3, <2>3 DEF InService
  <2>5. Service!TurnAway
    BY <1>2, <1>3, <1>4, <1>6, <1>8, <2>3, LineIsLined DEF Service!TurnAway
  <2> QED
    BY <2>4, <2>5 DEF ServeStep, Service!Next, Service!Serve
<1> QED
  BY <1>7, <1>8

\* What was at the board is answered.
LEMMA AnswersHead ==
    ASSUME Typed, InService, Busy, NEW call, NEW ans, web' = Answer(web, 1, call, ans),
           agent'.up = agent.up
    PROVE  /\ InService' /\ Line' = Tail(Line) /\ Service!AtBoard
           /\ Head(Line) = Entry(Head(web.calls)) /\ Head(web.calls) \in Requests
<1>1. PICK k \in Nat : Heard(web.calls, k) /\ (~agent.up => k = 0)
  BY DEF InService
<1>2. k # 0 /\ Service!AtBoard /\ agent.up
  BY <1>1, BoardIsBusy
<1>3. 1 \in 1..Len(web.calls) /\ web.calls \in Seq(Requests)
  BY HeadRequest DEF Busy, Typed, Shape
<1>4. web'.calls = RemoveAt(web.calls, 1)
  BY AnswerCalls
<1>5. Heard(web'.calls, k - 1) /\ Lined(web'.calls) = Tail(Lined(web.calls))
  BY <1>1, <1>2, <1>3, <1>4, LinedRemove
<1>6. InService'
  BY <1>2, <1>5 DEF InService
<1> QED
  BY <1>1, <1>2, <1>5, <1>6, HeadOfLine, LineIsLined

LEMMA SucceedsServes == ASSUME Typed, InService, AgentSucceeds PROVE ServeStep
<1> DEFINE call == Head(web.calls)
           e == Entry(call)
           after == Effect(call.op, call.ses)
           asked == call.by # NoTask /\ Pc(web, call.by) = "failreset"
           ans == IF asked THEN ViewOf(after) ELSE NoView
<1>1. Busy /\ agent' = after /\ web' = Answer(web, 1, "ok", ans)
  BY DEF AgentSucceeds
<1> HIDE DEF ans
<1>2. agent \in AgentType
  BY DEF Typed, World
<1>3. call \in Requests
  BY <1>1, HeadRequest DEF Busy, Typed, Shape
<1> HIDE DEF call
<1>4. e.op = call.op /\ e.image = IF call.op = "pl" THEN call.ses ELSE NoSession
  BY <1>3, EntryFacts
<1>5. call.op \in {"pl", "ps", "reset"}
  BY <1>3 DEF Requests
<1>6. /\ after.up = agent.up /\ after.heat = agent.heat /\ after.mode = agent.mode
      /\ after.comm = FALSE
      /\ after.image = CASE call.op = "pl"    -> call.ses
                         [] call.op = "ps"    -> agent.image
                         [] call.op = "reset" -> NoSession
  BY <1>2, <1>5 DEF Effect, AgentType
<1> HIDE DEF after
<1>7. InService' /\ Line' = Tail(Line) /\ Service!AtBoard /\ Head(Line) = e
  BY <1>1, <1>6, AnswersHead DEF call
<1> HIDE DEF e
<1>8. agent'.image = CASE Head(Line).op = "pl"    -> Head(Line).image
                       [] Head(Line).op = "ps"    -> agent.image
                       [] Head(Line).op = "reset" -> NoSession
  BY <1>1, <1>4, <1>5, <1>6, <1>7
<1>9. Service!Succeed
  BY <1>1, <1>6, <1>7, <1>8 DEF Service!Succeed
<1> QED
  BY <1>7, <1>9 DEF ServeStep, Service!Next, Service!Serve

LEMMA FailsServes == ASSUME Typed, InService, AgentFails PROVE ServeStep
<1>1. Busy /\ agent' = agent /\ web' = Answer(web, 1, "error", NoView)
  BY DEF AgentFails
<1>2. InService' /\ Line' = Tail(Line) /\ Service!AtBoard
  BY <1>1, AnswersHead
<1>3. Service!Fail
  BY <1>1, <1>2 DEF Service!Fail
<1> QED
  BY <1>2, <1>3 DEF ServeStep, Service!Next, Service!Serve

-----------------------------------------------------------------------------
(* What befalls the agent *)

\* Its record changes and the requests do not.
LEMMA RecordServes ==
    ASSUME InService, web' = web, agent'.up = agent.up PROVE InService' /\ Line' = Line
<1>1. Line' = Line
  BY LineIsLined
<1> QED
  BY <1>1 DEF InService

LEMMA TroubleServes ==
    ASSUME Typed, InService, CommunicationLost \/ CommunicationBack \/ Overheats \/ CoolsDown
    PROVE  ServeStep
<1>1. agent \in AgentType /\ web' = web
  BY DEF Typed, World, CommunicationLost, CommunicationBack, Overheats, CoolsDown
<1>2. agent'.up = agent.up /\ agent'.mode = agent.mode
  BY <1>1 DEF AgentType, CommunicationLost, CommunicationBack, Overheats, CoolsDown
<1>3. InService' /\ Line' = Line
  BY <1>1, <1>2, RecordServes
<1>4. ASSUME CommunicationLost PROVE Service!Lose
  <2>1. agent'.comm = TRUE /\ agent'.image = NoSession /\ agent'.heat = agent.heat
    BY <1>1, <1>4 DEF AgentType, CommunicationLost
  <2> QED
    BY <1>2, <1>3, <2>1 DEF Service!Lose
<1>5. ASSUME CommunicationBack \/ CoolsDown PROVE Service!Recover
  <2>1. /\ agent'.comm \in {agent.comm, FALSE} /\ agent'.heat \in {agent.heat, FALSE}
        /\ agent'.image = agent.image
    BY <1>1, <1>5 DEF AgentType, CommunicationBack, CoolsDown
  <2> QED
    BY <1>2, <1>3, <2>1 DEF Service!Recover
<1>6. ASSUME Overheats PROVE Service!Lockout
  <2>1. agent'.heat = TRUE /\ agent'.image = NoSession /\ agent'.comm = agent.comm
    BY <1>1, <1>6 DEF AgentType, Overheats
  <2>2. ~Service!AtBoard
    BY <1>6, BoardIsBusy DEF InService, Overheats
  <2> QED
    BY <1>2, <1>3, <2>1, <2>2 DEF Service!Lockout
<1> QED
  BY <1>3, <1>4, <1>5, <1>6 DEF ServeStep, Service!Next, Service!Serve

LEMMA ModeServes == ASSUME Typed, InService, Reserved \/ Freed PROVE ServeStep
<1>1. agent \in AgentType /\ web' = web
  BY DEF Typed, World, Reserved, Freed
<1>2. /\ agent'.up = agent.up /\ agent'.image = agent.image /\ agent'.comm = agent.comm
      /\ agent'.heat = agent.heat /\ agent'.mode \in {"demo", "project"}
  BY <1>1 DEF AgentType, Reserved, Freed
<1>3. InService' /\ Line' = Line
  BY <1>1, <1>2, RecordServes
<1>4. Service!SetMode
  BY <1>2, <1>3 DEF Service!SetMode, Service!Modes
<1> QED
  BY <1>3, <1>4 DEF ServeStep, Service!Next, Service!Serve

\* A new process, or one that is gone and answers nobody.
LEMMA RebootServes ==
    ASSUME Typed, InService, Heard(web'.calls, 0), web'.calls \in Seq(Requests),
           agent' = NewAgent \/ agent' = [NewAgent EXCEPT !.up = FALSE]
    PROVE  ServeStep
<1>1. /\ agent'.image = NoSession /\ agent'.comm = FALSE /\ agent'.heat = FALSE
      /\ agent'.mode = "demo"
  BY DEF NewAgent
<1>2. Line' = << >>
  <2>1. Lined(web'.calls) \in Seq(Service!Requests) /\ Len(Lined(web'.calls)) = 0
    BY LinedShape
  <2> QED
    BY <2>1, LineIsLined
<1>3. InService'
  BY DEF InService
<1>4. Service!Restart
  BY <1>1, <1>2 DEF Service!Restart, Service!Modes
<1> QED
  BY <1>3, <1>4 DEF ServeStep, Service!Next

LEMMA StopsServes == ASSUME Typed, InService, AgentStops PROVE ServeStep
<1>1. web'.calls = << >>
  <2>1. IsWeb(web)
    BY TypedFacts
  <2> QED
    BY <2>1 DEF AgentStops, IsWeb
<1>2. << >> \in Seq(Requests) /\ Len(<< >>) = 0
  OBVIOUS
<1>3. Heard(web'.calls, 0)
  BY <1>1, <1>2 DEF Heard
<1> QED
  BY <1>1, <1>2, <1>3, RebootServes DEF AgentStops

LEMMA BootsServes == ASSUME Typed, InService, AgentBoots PROVE ServeStep
<1>1. web' = web /\ agent' = NewAgent /\ ~agent.up
  BY DEF AgentBoots
<1>2. Heard(web'.calls, 0) /\ web'.calls \in Seq(Requests)
  BY <1>1 DEF InService, Typed, Shape
<1> QED
  BY <1>1, <1>2, RebootServes

\* What was sent is carried out for nobody.
LEMMA RestartsServes == ASSUME Typed, InService, WebRestarts PROVE ServeStep
<1> DEFINE s == StartedManager(Forgotten(web.store), ViewOf(agent))
           z == web.zombies \cup UNION {Thread(web.tasks[t]) : t \in Tasks}
<1>1. web' = [s EXCEPT !.calls = Orphans(web.calls), !.zombies = z] /\ agent' = agent
  BY DEF WebRestarts, Orphans
<1>2. web'.calls = Orphans(web.calls)
  BY <1>1 DEF StartedManager
<1>3. Shape(web')
  BY RestartCounts
<1>4. Grown(web.calls, web'.calls)
  BY <1>2, OrphanedGrown DEF Typed, Shape
<1> QED
  BY <1>1, <1>3, <1>4, GrownServes

-----------------------------------------------------------------------------

LEMMA EnvironmentServes == ASSUME Typed, InService, Environment PROVE ServeStep
BY StopsServes, BootsServes, RestartsServes, TroubleServes, ModeServes DEF Environment

LEMMA KeptServes ==
    ASSUME Typed, InService, NEW who, Kept(who), agent' = agent PROVE ServeStep
<1>1. Shape(web') /\ Grown(web.calls, web'.calls)
  BY DEF Kept, Shaped, Steady
<1> QED
  BY <1>1, GrownServes

LEMMA BoardStepServes == Typed /\ InService /\ [Next]_vars => ServeStep
<1> SUFFICES ASSUME Typed, InService, [Next]_vars PROVE ServeStep
  OBVIOUS
<1>1. CASE UserActions
  <2>1. agent' = agent
    BY <1>1 DEF UserActions, CreateSession, CancelSession, EndSession, OpenConnection, CloseConnection
  <2>2. ASSUME NEW s \in SessionIds, OpenConnection(s) \/ CloseConnection(s) PROVE ServeStep
    BY <2>1, <2>2, OpenRecounts, CloseRecounts, GrownServes DEF Recount
  <2>3. ASSUME NEW u \in Users, NEW d \in Demos, CreateSession(u, d) PROVE ServeStep
    BY <2>1, <2>3, CreateKept, KeptServes
  <2>4. ASSUME NEW u \in Users, NEW s \in SessionIds, CancelSession(u, s) \/ EndSession(u, s)
        PROVE  ServeStep
    BY <2>1, <2>4, CancelKept, EndKept, KeptServes
  <2> QED
    BY <1>1, <2>2, <2>3, <2>4 DEF UserActions
<1>2. CASE Tick \/ AgentReports \/ UNCHANGED vars
  BY <1>2, SameServes DEF Tick, AgentReports, vars
<1>3. CASE Timers
  BY <1>3, ExpiryKept, DisconnectKept, KeptServes DEF Timers, ExpiryFires, DisconnectFires
<1>4. CASE WatchEvent
  BY <1>4, WatchKept, KeptServes DEF WatchEvent
<1>5. ASSUME NEW t \in Tasks, Replies(t) \/ RuntimeFails(t) PROVE ServeStep
  <2>1. agent' = agent
    BY <1>5 DEF Replies, RuntimeFails, TakeLock, Answered, RuntimeUp, RuntimeDown
  <2>2. \E who : Kept(who)
    BY <1>5, TakeLockKept, AnsweredKept, RuntimeUpKept, RuntimeDownKept, RuntimeFailsKept DEF Replies
  <2> QED
    BY <2>1, <2>2, KeptServes
<1>6. ASSUME NEW s \in SessionIds, ZombieUp(s) \/ ZombieDown(s) PROVE ServeStep
  BY <1>6, ZombieKept, KeptServes DEF ZombieUp, ZombieDown, ThreadEnds
<1>7. CASE AgentServes \/ AgentFails
  BY <1>7, ReceivesServes, ContinuesServes, SucceedsServes, FailsServes DEF AgentServes
<1> QED
  BY <1>1, <1>2, <1>3, <1>4, <1>5, <1>6, <1>7, EnvironmentServes DEF Next

\* The agent that the board manager is modelled with, stopped and booted again
\* as well, keeps the promise that the whole agent of FpgaAgent keeps between
\* two boots (fpga_service.py, action_executor.py): requests are served one at a
\* time in the order they came, and no lock-out falls upon one.
THEOREM BoardAgentServes == Spec => ServiceSpec
<1>1. Init => InService /\ Service!Init
  <2> SUFFICES ASSUME Init PROVE InService /\ Service!Init
    OBVIOUS
  <2>1. web.calls = << >> /\ agent = NewAgent
    BY DEF Init, StartedManager
  <2>2. << >> \in Seq(Requests) /\ Len(<< >>) = 0
    OBVIOUS
  <2>3. Heard(web.calls, 0)
    BY <2>1, <2>2 DEF Heard
  <2>4. Line = << >>
    <3>1. Lined(web.calls) \in Seq(Service!Requests) /\ Len(Lined(web.calls)) = 0
      BY <2>1, <2>2, <2>3, LinedShape
    <3> QED
      BY <3>1, LineIsLined
  <2> QED
    BY <2>1, <2>3, <2>4 DEF InService, Service!Init, Service!Modes, NewAgent
<1>2. Typed /\ InService /\ [Next]_vars => InService' /\ [Service!Next]_(Service!vars)
  BY BoardStepServes DEF ServeStep
<1> QED
  BY <1>1, <1>2, TypedInvariant, PTL DEF Spec, ServiceSpec, Service!Spec

-----------------------------------------------------------------------------
FailedStarts == {"fail_pl", "fail_ps", "fail_rt"}

-----------------------------------------------------------------------------
(* The tasks *)

AtWork == {"pl", "ps", "rt"}
AtEnding == {"stop", "reset"}
OnDuty == AtWork \cup AtEnding

\* A task that ends a session does other work only after that session is gone.
Past(m, t) ==
    Kind(t) \in LockKinds => StatusOf(m, Subject(t)) \in Ending /\ Subject(t) # m.active

ActiveDemo(m) == m.ses[m.active].demo

\* Where a task may be, and what that says of the session on the board.
Place(m, t, k) ==
    /\ k.pc \in {"done", "idle", "sleep", "failreset"} \cup OnDuty
    /\ k.pc \in AtWork => ActiveIs(m, "starting") /\ k.ses = m.active
    /\ k.pc \in AtEnding => /\ ActiveIs(m, "ending") /\ k.ses = m.active
                            /\ Kind(t) \in LockKinds /\ Subject(t) = m.active
    /\ k.pc \in AtWork \cup {"failreset"} => Past(m, t)
    /\ k.pc = "pl" => ActiveDemo(m) \in PLDemos
    /\ k.pc = "ps" => ActiveDemo(m) \in PSDemos
    /\ k.pc = "rt" => ActiveDemo(m) \in RuntimeDemos
    /\ k.run # NoSession => k.pc = "stop"

\* Nobody but the running task starts or ends a session.
Alone(w, me) == \A t \in Tasks : t # me => Pc(w, t) \notin OnDuty

Places(w, me) ==
    /\ \A t \in Tasks : t # me => Place(w.store, t, w.tasks[t])
    /\ \A t, u \in Tasks : t # me /\ u # me /\ Pc(w, t) \in OnDuty /\ Pc(w, u) \in OnDuty => t = u
    /\ w.expiry # NoTask => w.expiry \in Tasks /\ Kind(w.expiry) = "expiry"
    /\ w.zombies = {}

-----------------------------------------------------------------------------
(* The requests *)

\* The active demo has nothing on the board.
Bare(m) == ActiveDemo(m) \notin PLDemos \cup PSDemos

\* A reset may be dropped with the task that waits for it: another one comes
\* before the next start.
MayDrop(m) == ActiveIs(m, "ending") \/ (ActiveIs(m, "active") /\ Bare(m))

\* A request is waited for by the task that sent it, and behind it there are
\* others only if it is a reset after a failed start.
Request(w, me, i) ==
    LET c == w.calls[i]
        t == c.by
    IN  /\ t # NoTask => /\ t # me /\ Pc(w, t) \in Calling /\ w.tasks[t].call = "out"
                         /\ c.op = Op(Pc(w, t)) /\ c.ses = w.tasks[t].ses
                         /\ i # Len(w.calls) => Pc(w, t) = "failreset"
        /\ t = NoTask => c.op = "reset" /\ MayDrop(w.store)
        /\ c.stage = "running" => i = 1

Asked(w, me) ==
    /\ w.calls \in Seq(Requests)
    /\ \A i \in 1..Len(w.calls) : Request(w, me, i)
    /\ \A i, j \in 1..Len(w.calls) :
          w.calls[i].by = w.calls[j].by /\ w.calls[i].by # NoTask => i = j
    /\ \A t \in Tasks : t # me /\ Pc(w, t) \in {"pl", "ps", "reset"} /\ w.tasks[t].call # "out" =>
          w.calls = << >>

\* A reset is under way that will be carried out.
ResetDue(w) == \E i \in 1..Len(w.calls) : w.calls[i].op = "reset" /\ w.calls[i].by # NoTask

\* What the board a holds once the resets under way have been carried out.
Will(w, a, image, elf) ==
    IF ResetDue(w) THEN image = NoSession /\ elf = NoSession ELSE a.image = image /\ a.elf = elf

-----------------------------------------------------------------------------
(* The board and the demo process *)

Image(m) == IF ActiveDemo(m) \in PLDemos THEN m.active ELSE NoSession
Elf(m) == IF ActiveDemo(m) \in PSDemos THEN m.active ELSE NoSession

\* How far the start or the end has come that the task is at.
Progress(w, a, t) ==
    LET s == ActiveId(w)
        ok == w.tasks[t].call = "ok"
    IN  /\ Pc(w, t) = "pl" => Will(w, a, IF ok THEN s ELSE NoSession, NoSession)
        /\ Pc(w, t) = "ps" => Will(w, a, Image(w.store), IF ok THEN s ELSE NoSession)
        /\ Pc(w, t) = "rt" /\ ~Bare(w.store) => Will(w, a, Image(w.store), Elf(w.store))
        /\ Pc(w, t) = "reset" => Will(w, a, NoSession, NoSession)

Cleared(w, me, a) ==
    /\ ActiveId(w) = NoSession => Will(w, a, NoSession, NoSession)
    /\ ActiveIs(w.store, "active") /\ ~Bare(w.store) => Will(w, a, Image(w.store), Elf(w.store))
    /\ \A t \in Tasks : t # me => Progress(w, a, t)

\* The current runtime is the active session's.
Current(w, p) ==
    /\ w.runtime # NoSession => ActiveIs(w.store, "active") /\ w.runtime = ActiveId(w)
    /\ ActiveIs(w.store, "active") /\ ActiveDemo(w.store) \in RuntimeDemos =>
          w.runtime = ActiveId(w) /\ w.runtime \in p

\* Processes that are up are the current one or being stopped.
Covered(w, me, p) ==
    \A s \in p : s # NoSession /\ (s = w.runtime \/ \E t \in Tasks : t # me /\ w.tasks[t].run = s)

\* The state while the task me runs, with the board a and the processes p.
Quiet(w, me, a, p) ==
    /\ Places(w, me) /\ Asked(w, me) /\ Cleared(w, me, a)
    /\ Current(w, p) /\ Covered(w, me, p)

-----------------------------------------------------------------------------
(* The running task suspends *)

\* A task that is not at a start or at an end owes nothing.
LEMMA OffDuty ==
    ASSUME NEW w, NEW a, NEW t, Pc(w, t) \notin OnDuty PROVE Progress(w, a, t)
BY DEF Progress, OnDuty, AtWork, AtEnding

\* The requests and the owner are the same.
LEMMA SameWill ==
    ASSUME NEW w, NEW v, v.calls = w.calls
    PROVE  \A a, i, e : Will(v, a, i, e) <=> Will(w, a, i, e)
BY DEF Will, ResetDue

LEMMA SameProgress ==
    ASSUME NEW w, NEW v, v.calls = w.calls, v.store.active = w.store.active,
           ActiveDemo(v.store) = ActiveDemo(w.store),
           NEW t, v.tasks[t] = w.tasks[t]
    PROVE  \A a : Progress(v, a, t) <=> Progress(w, a, t)
<1>1. Pc(v, t) = Pc(w, t)
  BY DEF Pc
<1>2. /\ ActiveId(v) = ActiveId(w) /\ Image(v.store) = Image(w.store) /\ Elf(v.store) = Elf(w.store)
      /\ Bare(v.store) = Bare(w.store)
  BY DEF ActiveId, Image, Elf, Bare
<1> QED
  BY <1>1, <1>2, SameWill DEF Progress

LEMMA AskedFacts ==
    ASSUME NEW w, w.calls \in Seq(Requests)
    PROVE  /\ Len(w.calls) \in Nat
           /\ \A i \in 1..Len(w.calls) :
                 /\ w.calls[i] \in Requests
                 /\ w.calls[i].by \in Tasks \cup {NoTask}
                 /\ w.calls[i].ses \in SessionIds
                 /\ w.calls[i].op \in {"pl", "ps", "reset"}
                 /\ w.calls[i].stage \in {"sent", "admitted", "running"}
<1>1. Len(w.calls) \in Nat /\ \A i \in 1..Len(w.calls) : w.calls[i] \in Requests
  OBVIOUS
<1>2. \A c \in Requests : /\ c.by \in Tasks \cup {NoTask} /\ c.ses \in SessionIds
                          /\ c.op \in {"pl", "ps", "reset"}
                          /\ c.stage \in {"sent", "admitted", "running"}
  BY DEF Requests
<1> QED
  BY <1>1, <1>2

LEMMA SuspendPlaces ==
    ASSUME NEW w, NEW me, Runs(w, me), Places(w, me), NEW k, Place(w.store, me, k),
           k.pc \in OnDuty => Alone(w, me),
           NEW v, v.store = w.store, v.tasks = Put(w.tasks, me, k),
           v.expiry \in {w.expiry, NoTask}, v.zombies = w.zombies
    PROVE  Places(v, NoTask)
<1>1. \A t \in Tasks : v.tasks[t] = IF t = me THEN k ELSE w.tasks[t]
  BY DEF Put, Runs
<1>2. \A t \in Tasks : Place(v.store, t, v.tasks[t])
  BY <1>1 DEF Places
<1>3. ASSUME NEW t \in Tasks, NEW u \in Tasks, Pc(v, t) \in OnDuty, Pc(v, u) \in OnDuty
      PROVE  t = u
  BY <1>1, <1>3 DEF Places, Alone, Pc
<1> QED
  BY <1>2, <1>3 DEF Places

LEMMA SuspendAsked ==
    ASSUME NEW w, NEW me, Runs(w, me), Asked(w, me), NEW k, k.pc \notin {"pl", "ps", "reset"},
           NEW v, v.store = w.store, v.tasks = Put(w.tasks, me, k), v.calls = w.calls
    PROVE  Asked(v, NoTask)
<1>1. \A t \in Tasks : v.tasks[t] = IF t = me THEN k ELSE w.tasks[t]
  BY DEF Put, Runs
<1>2. \A i \in 1..Len(w.calls) : w.calls[i].by \in Tasks \cup {NoTask}
  BY AskedFacts DEF Asked
<1>3. ASSUME NEW i \in 1..Len(v.calls) PROVE Request(v, NoTask, i)
  BY <1>1, <1>2 DEF Asked, Request, Pc
<1>4. ASSUME NEW t \in Tasks, Pc(v, t) \in {"pl", "ps", "reset"}, v.tasks[t].call # "out"
      PROVE  v.calls = << >>
  BY <1>1, <1>4 DEF Asked, Pc
<1> QED
  BY <1>3, <1>4 DEF Asked

LEMMA SuspendQuiet ==
    ASSUME NEW w, NEW me, NEW a, NEW p, Runs(w, me), Quiet(w, me, a, p),
           NEW k, Place(w.store, me, k), k.pc \notin {"pl", "ps", "reset"},
           k.pc \in OnDuty => Alone(w, me),
           k.pc = "rt" /\ ~Bare(w.store) => Will(w, a, Image(w.store), Elf(w.store)),
           NEW v, v.store = w.store, v.tasks = Put(w.tasks, me, k), v.calls = w.calls,
           v.expiry \in {w.expiry, NoTask}, v.zombies = w.zombies, v.runtime = w.runtime
    PROVE  Quiet(v, NoTask, a, p)
<1>1. \A t \in Tasks : v.tasks[t] = IF t = me THEN k ELSE w.tasks[t]
  BY DEF Put, Runs
<1>2. Places(v, NoTask) /\ Asked(v, NoTask)
  BY SuspendPlaces, SuspendAsked DEF Quiet
<1>3. Progress(v, a, me)
  <2>1. Pc(v, me) = k.pc
    BY <1>1 DEF Pc, Runs
  <2> QED
    BY <2>1, SameWill DEF Progress
<1>4. ASSUME NEW t \in Tasks PROVE Progress(v, a, t)
  BY <1>1, <1>3, SameProgress DEF Quiet, Cleared
<1>5. Cleared(v, NoTask, a)
  BY <1>4, SameWill DEF Quiet, Cleared, ActiveId
<1>6. Current(v, p)
  BY DEF Quiet, Current, ActiveId
<1>7. Covered(v, NoTask, p)
  BY <1>1, TaskFacts DEF Quiet, Covered
<1> QED
  BY <1>2, <1>5, <1>6, <1>7 DEF Quiet

\* The parts of the process that AtFields and CancelFields do not speak of.
\* Everybody who waits for the lock, a deadline or an event.
LEMMA RestPlace ==
    ASSUME NEW m, NEW t
    PROVE  /\ Place(m, t, Rest(t)) /\ Rest(t).pc \in {"idle", "done"} /\ Rest(t).run = NoSession
           /\ Place(m, t, Done) /\ Done.pc = "done" /\ Done.run = NoSession
           /\ \A s : /\ Place(m, t, Suspended("sleep", s))
                      /\ Suspended("sleep", s).pc = "sleep" /\ Suspended("sleep", s).run = NoSession
BY DEF Rest, Done, Suspended, Place, OnDuty, AtWork, AtEnding

LEMMA ReturnQuiet ==
    ASSUME NEW w, NEW t, NEW a, NEW p, Runs(w, t), Quiet(w, t, a, p)
    PROVE  Quiet(Return(w, t), NoTask, a, p)
<1> DEFINE k == Rest(t)
           v == At(w, t, k)
           l == v.disc \ {Subject(t)}
           r == Return(w, t)
<1>1. r \in {[v EXCEPT !.expiry = NoTask], [v EXCEPT !.disc = l], v}
  BY DEF Return
<1>2. Place(w.store, t, k) /\ k.pc \in {"idle", "done"}
  BY RestPlace
<1> HIDE DEF r, k
<1>3. /\ IsWeb(v) /\ v.store = w.store /\ v.tasks = Put(w.tasks, t, k)
      /\ v.calls = w.calls /\ v.expiry = w.expiry /\ v.zombies = w.zombies /\ v.runtime = w.runtime
  BY AtFields, AtParts DEF Runs
<1> HIDE DEF v, l
<1>4. /\ r.store = w.store /\ r.tasks = Put(w.tasks, t, k) /\ r.calls = w.calls
      /\ r.expiry \in {w.expiry, NoTask} /\ r.zombies = w.zombies /\ r.runtime = w.runtime
  BY <1>1, <1>3 DEF IsWeb
<1>5. Quiet(r, NoTask, a, p)
  BY <1>2, <1>4, SuspendQuiet DEF OnDuty, AtWork, AtEnding
<1> QED
  BY <1>5 DEF r

\* A request goes out: it is the last one, behind resets only.
LEMMA SendAsked ==
    ASSUME NEW w, NEW me, Runs(w, me), Places(w, me), Asked(w, me), Alone(w, me),
           NEW pc \in {"pl", "ps", "reset", "failreset"}, NEW s \in SessionIds,
           NEW k, k.pc = pc, k.ses = s, k.call = "out",
           NEW v, v.store = w.store, v.tasks = Put(w.tasks, me, k),
           v.calls = Append(w.calls, [op |-> Op(pc), ses |-> s, by |-> me, stage |-> "sent"])
    PROVE  /\ Asked(v, NoTask)
           /\ pc \in {"pl", "ps"} => (ResetDue(v) <=> ResetDue(w))
           /\ pc \in {"reset", "failreset"} => ResetDue(v)
<1> DEFINE c == [op |-> Op(pc), ses |-> s, by |-> me, stage |-> "sent"]
           n == Len(w.calls)
<1>1. \A t \in Tasks : v.tasks[t] = IF t = me THEN k ELSE w.tasks[t]
  BY DEF Put, Runs
<1>2. /\ n \in Nat
      /\ \A i \in 1..n : w.calls[i].by \in Tasks \cup {NoTask}
      /\ \A i \in 1..n : w.calls[i].by # me
  BY AskedFacts, TaskFacts DEF Asked, Request, Runs
<1>3. c \in Requests
  BY DEF Requests, Op, Runs
<1>4. /\ v.calls \in Seq(Requests) /\ Len(v.calls) = n + 1
      /\ v.calls[n + 1] = c /\ \A i \in 1..n : v.calls[i] = w.calls[i]
  BY <1>2, <1>3 DEF Asked
<1>5. c.by = me /\ c.op = Op(pc) /\ c.ses = s /\ c.stage = "sent" /\ me # NoTask /\ me \in Tasks
  BY TaskFacts DEF Runs
<1> HIDE DEF c
<1>6. Request(v, NoTask, n + 1)
  <2>1. Pc(v, me) = pc /\ v.tasks[me] = k /\ pc \in Calling
    BY <1>1, <1>5 DEF Pc, Calling
  <2> QED
    BY <1>4, <1>5, <2>1 DEF Request
<1>7. ASSUME NEW i \in 1..n PROVE Request(v, NoTask, i)
  <2> DEFINE t == w.calls[i].by
  <2>1. v.calls[i] = w.calls[i] /\ t \in Tasks \cup {NoTask} /\ t # me /\ Request(w, me, i)
    BY <1>2, <1>4 DEF Asked
  <2>2. CASE t = NoTask
    BY <2>1, <2>2 DEF Request
  <2>3. CASE t # NoTask
    <3>1. t \in Tasks /\ v.tasks[t] = w.tasks[t] /\ Pc(v, t) = Pc(w, t)
      BY <1>1, <2>1, <2>3 DEF Pc
    <3>2. Pc(w, t) \in Calling /\ Pc(w, t) \notin OnDuty /\ Place(w.store, t, w.tasks[t])
      BY <2>1, <2>3, <3>1 DEF Request, Alone, Places
    <3>3. Pc(w, t) = "failreset"
      BY <3>2 DEF Place, Pc, Calling
    <3> QED
      BY <2>1, <2>3, <3>1, <3>3 DEF Request
  <2> QED
    BY <2>2, <2>3
<1>8. \A i \in 1..Len(v.calls) : i = n + 1 \/ i \in 1..n
  BY <1>2, <1>4
<1>9. \A i, j \in 1..Len(v.calls) :
        v.calls[i].by = v.calls[j].by /\ v.calls[i].by # NoTask => i = j
  BY <1>2, <1>4, <1>5, <1>8 DEF Asked
<1>10. ASSUME NEW t \in Tasks, Pc(v, t) \in {"pl", "ps", "reset"}, v.tasks[t].call # "out"
       PROVE  v.calls = << >>
  BY <1>1, <1>10 DEF Alone, Pc, OnDuty, AtWork, AtEnding
<1>11. Asked(v, NoTask)
  BY <1>4, <1>6, <1>7, <1>8, <1>9, <1>10 DEF Asked
<1>12. pc \in {"pl", "ps"} => (ResetDue(v) <=> ResetDue(w))
  BY <1>2, <1>4, <1>5, <1>8 DEF ResetDue, Op
<1>13. pc \in {"reset", "failreset"} => ResetDue(v)
  <2>1. n + 1 \in 1..Len(v.calls)
    BY <1>2, <1>4
  <2> QED
    BY <1>4, <1>5, <2>1 DEF ResetDue, Op
<1> QED
  BY <1>11, <1>12, <1>13

LEMMA SendQuiet ==
    ASSUME NEW w, NEW t, NEW a, NEW p, Runs(w, t),
           Places(w, t), Asked(w, t), Alone(w, t), Current(w, p), Covered(w, t, p),
           NEW pc \in {"pl", "ps", "reset", "failreset"}, NEW s \in SessionIds,
           Place(w.store, t, Suspended(pc, s)),
           pc \in {"reset", "failreset"} => ~ActiveIs(w.store, "active"),
           pc = "pl" => Will(w, a, NoSession, NoSession),
           pc = "ps" => Will(w, a, Image(w.store), NoSession)
    PROVE  Quiet(Send(w, t, pc, s), NoTask, a, p)
<1> DEFINE c == Append(w.calls, [op |-> Op(pc), ses |-> s, by |-> t, stage |-> "sent"])
           u == [w EXCEPT !.calls = c]
           k == [Suspended(pc, s) EXCEPT !.call = "out"]
           v == At(u, t, k)
<1>1. Send(w, t, pc, s) = v
  BY DEF Send
<1>2. k.pc = pc /\ k.ses = s /\ k.call = "out" /\ k.run = NoSession /\ Place(w.store, t, k)
  BY DEF Suspended, Place
<1> HIDE DEF c, k
<1>3. /\ IsWeb(u) /\ u.store = w.store /\ u.tasks = w.tasks /\ u.calls = c /\ u.expiry = w.expiry
      /\ u.zombies = w.zombies /\ u.runtime = w.runtime
  BY DEF Runs, IsWeb
<1> HIDE DEF u
<1>4. /\ v.store = w.store /\ v.tasks = Put(w.tasks, t, k) /\ v.calls = c /\ v.expiry = w.expiry
      /\ v.zombies = w.zombies /\ v.runtime = w.runtime
  BY <1>3, AtFields, AtParts
<1> HIDE DEF v
<1>5. Places(v, NoTask)
  BY <1>2, <1>4, SuspendPlaces
<1>6. /\ Asked(v, NoTask)
      /\ pc \in {"pl", "ps"} => (ResetDue(v) <=> ResetDue(w))
      /\ pc \in {"reset", "failreset"} => ResetDue(v)
  BY <1>2, <1>4, SendAsked DEF c
<1>7. \A x \in Tasks : v.tasks[x] = IF x = t THEN k ELSE w.tasks[x]
  BY <1>4 DEF Put, Runs
<1>8. Pc(v, t) = pc /\ t \in Tasks /\ v.tasks[t] = k
  BY <1>2, <1>7 DEF Pc, Runs
<1>9. /\ pc = "pl" => Will(v, a, NoSession, NoSession)
      /\ pc = "ps" => Will(v, a, Image(v.store), NoSession)
      /\ pc \in {"reset", "failreset"} => Will(v, a, NoSession, NoSession)
  BY <1>4, <1>6 DEF Will
<1>10. Progress(v, a, t)
  BY <1>2, <1>8, <1>9 DEF Progress
<1>11. ASSUME NEW x \in Tasks PROVE Progress(v, a, x)
  BY <1>7, <1>10, OffDuty DEF Alone, Pc
<1>12. /\ pc \in {"pl", "ps"} => ActiveIs(w.store, "starting")
       /\ ActiveIs(w.store, "starting") => ~ActiveIs(w.store, "active")
  BY DEF Place, Suspended, AtWork, ActiveIs
<1>13. Cleared(v, NoTask, a)
  BY <1>4, <1>9, <1>11, <1>12 DEF Cleared, ActiveIs, ActiveId
<1>14. Current(v, p) /\ Covered(v, NoTask, p)
  BY <1>4, <1>7, TaskFacts DEF Current, Covered, ActiveId
<1> QED
  BY <1>1, <1>5, <1>6, <1>13, <1>14 DEF Quiet

\* The demo process of the session that ends is stopped.
LEMMA StopQuiet ==
    ASSUME NEW w, NEW t, NEW a, NEW p, Runs(w, t),
           Places(w, t), Asked(w, t), Alone(w, t), Covered(w, t, p),
           NEW s, Place(w.store, t, Suspended("stop", s))
    PROVE  Quiet(Stops(w, t, "stop", s, w.runtime), NoTask, a, p)
<1> DEFINE u == [w EXCEPT !.runtime = NoSession]
           k == [Suspended("stop", s) EXCEPT !.run = w.runtime]
           v == At(u, t, k)
<1>1. Stops(w, t, "stop", s, w.runtime) = v
  BY DEF Stops
<1>2. k.pc = "stop" /\ k.run = w.runtime /\ Place(w.store, t, k)
  BY DEF Suspended, Place
<1> HIDE DEF k
<1>3. /\ IsWeb(u) /\ u.store = w.store /\ u.tasks = w.tasks /\ u.calls = w.calls
      /\ u.expiry = w.expiry /\ u.zombies = w.zombies /\ u.runtime = NoSession
  BY DEF Runs, IsWeb
<1> HIDE DEF u
<1>4. /\ v.store = w.store /\ v.tasks = Put(w.tasks, t, k) /\ v.calls = w.calls
      /\ v.expiry = w.expiry /\ v.zombies = w.zombies /\ v.runtime = NoSession
  BY <1>3, AtFields, AtParts
<1> HIDE DEF v
<1>5. Places(v, NoTask) /\ Asked(v, NoTask)
  BY <1>2, <1>4, SuspendPlaces, SuspendAsked
<1>6. \A x \in Tasks : v.tasks[x] = IF x = t THEN k ELSE w.tasks[x]
  BY <1>4 DEF Put, Runs
<1>7. ActiveIs(w.store, "ending")
  BY DEF Place, Suspended, AtEnding
<1>8. ASSUME NEW x \in Tasks PROVE Progress(v, a, x)
  <2>1. Pc(v, x) = "stop" \/ Pc(v, x) \notin OnDuty
    BY <1>2, <1>6 DEF Alone, Pc
  <2> QED
    BY <2>1, OffDuty DEF Progress
<1>9. Cleared(v, NoTask, a)
  BY <1>4, <1>7, <1>8 DEF Cleared, ActiveIs, ActiveId
<1>10. Current(v, p)
  BY <1>4, <1>7 DEF Current, ActiveIs
<1>11. Covered(v, NoTask, p)
  BY <1>2, <1>4, <1>6, TaskFacts DEF Covered, Runs
<1> QED
  BY <1>1, <1>5, <1>9, <1>10, <1>11 DEF Quiet

-----------------------------------------------------------------------------
(* Tasks that are cancelled, and timers that are set *)

Calm(w, me, a, p) ==
    Places(w, me) /\ Asked(w, me) /\ Cleared(w, me, a) /\ Covered(w, me, p)

LEMMA QuietIsCalm ==
    ASSUME NEW w, NEW me, NEW a, NEW p
    PROVE  Quiet(w, me, a, p) <=> Calm(w, me, a, p) /\ Current(w, p)
BY DEF Quiet, Calm

\* The lock, a timer that is forgotten, the connections and what is known of the
\* board make no difference.
LEMMA SameCalm ==
    ASSUME NEW w, NEW v, v.store = w.store, v.tasks = w.tasks, v.calls = w.calls,
           v.zombies = w.zombies, v.runtime = w.runtime, v.expiry \in {w.expiry, NoTask}
    PROVE  /\ \A me : Alone(w, me) => Alone(v, me)
           /\ \A me, a, p : Calm(w, me, a, p) => Calm(v, me, a, p)
           /\ \A p : Current(w, p) => Current(v, p)
<1>1. \A t : Pc(v, t) = Pc(w, t)
  BY DEF Pc
<1>2. \A me : /\ Alone(w, me) => Alone(v, me)
              /\ Places(w, me) => Places(v, me)
  BY <1>1 DEF Places, Alone
<1>3. \A me : Asked(w, me) => Asked(v, me)
  BY <1>1 DEF Asked, Request
<1>4. \A me, a : Cleared(w, me, a) => Cleared(v, me, a)
  BY SameWill, SameProgress DEF Cleared, ActiveId
<1>5. \A me, p : Covered(w, me, p) => Covered(v, me, p)
  BY DEF Covered
<1>6. \A p : Current(w, p) => Current(v, p)
  BY DEF Current, ActiveId
<1> QED
  BY <1>2, <1>3, <1>4, <1>5, <1>6 DEF Calm

\* The owner is active or ending: its start is over.
Owned(m) == ActiveIs(m, "active") \/ ActiveIs(m, "ending")

\* Nobody starts or ends an active session.
LEMMA ActiveAlone ==
    ASSUME NEW w, NEW me, Places(w, me), ActiveIs(w.store, "active") PROVE Alone(w, me)
BY DEF Places, Place, Alone, OnDuty, ActiveIs, Pc

\* The requests c with the one of x nobody's.
Disowned(c, x, d) ==
    /\ d \in Seq(Requests) /\ Len(d) = Len(c)
    /\ \A i \in 1..Len(c) : d[i] = IF c[i].by = x THEN [c[i] EXCEPT !.by = NoTask] ELSE c[i]

\* A task that starts or ends nothing is laid down, and its request is nobody's.
LEMMA LayCalm ==
    ASSUME NEW w, NEW y, Runs(w, y), NEW me, NEW a, NEW p, Calm(w, me, a, p),
           NEW x \in Tasks, x # me, Pc(w, x) \notin OnDuty,
           Pc(w, x) = "failreset" => Owned(w.store) /\ Alone(w, me),
           NEW k, k.pc \in {"sleep", "done"}, k.run = NoSession,
           NEW v, v.store = w.store, v.runtime = w.runtime, v.zombies = w.zombies,
           v.tasks = Put(w.tasks, x, k),
           v.expiry # NoTask => v.expiry \in Tasks /\ Kind(v.expiry) = "expiry",
           Disowned(w.calls, x, v.calls)
    PROVE  Calm(v, me, a, p) /\ (Alone(w, me) => Alone(v, me))
<1>1. \A t \in Tasks : v.tasks[t] = IF t = x THEN k ELSE w.tasks[t]
  BY DEF Put, Runs
<1>2. Pc(v, x) \in {"sleep", "done"} /\ v.tasks[x].run = NoSession /\ Pc(v, x) \notin OnDuty
  BY <1>1 DEF Pc, OnDuty, AtWork, AtEnding
<1>3. \A t \in Tasks : t # x => v.tasks[t] = w.tasks[t] /\ Pc(v, t) = Pc(w, t)
  BY <1>1 DEF Pc
<1>4. w.tasks[x].run = NoSession
  BY DEF Calm, Places, Place, Pc, OnDuty, AtEnding
<1>5. Places(v, me)
  <2>1. Place(v.store, x, v.tasks[x])
    BY <1>2 DEF Place, Pc, OnDuty, AtWork, AtEnding
  <2>2. \A t \in Tasks : t # me => Place(v.store, t, v.tasks[t])
    BY <1>3, <2>1 DEF Calm, Places
  <2>3. \A t, u \in Tasks : t # me /\ u # me /\ Pc(v, t) \in OnDuty /\ Pc(v, u) \in OnDuty => t = u
    BY <1>2, <1>3 DEF Calm, Places
  <2> QED
    BY <2>2, <2>3 DEF Calm, Places
<1>6. Alone(w, me) => Alone(v, me)
  BY <1>2, <1>3 DEF Alone
<1>7. /\ Len(w.calls) \in Nat
      /\ \A i \in 1..Len(w.calls) : w.calls[i] \in Requests /\ w.calls[i].by \in Tasks \cup {NoTask}
  BY AskedFacts DEF Calm, Asked
<1>8. \A i \in 1..Len(w.calls) :
         /\ v.calls[i].op = w.calls[i].op /\ v.calls[i].ses = w.calls[i].ses
         /\ v.calls[i].stage = w.calls[i].stage
         /\ v.calls[i].by = IF w.calls[i].by = x THEN NoTask ELSE w.calls[i].by
  BY <1>7 DEF Requests, Disowned
<1>9. \A i \in 1..Len(w.calls) : w.calls[i].by = x => Pc(w, x) = "failreset" /\ w.calls[i].op = "reset"
  <2>1. \A i \in 1..Len(w.calls) : w.calls[i].by = x => Pc(w, x) \in Calling /\ w.calls[i].op = Op(Pc(w, x))
    BY TaskFacts DEF Calm, Asked, Request
  <2>2. Pc(w, x) \in Calling => Pc(w, x) = "failreset"
    BY DEF Calm, Places, Place, Pc, Calling, OnDuty, AtWork, AtEnding
  <2> QED
    BY <2>1, <2>2 DEF Op
\* The request of a task that is cancelled may be dropped.
<1>10. \A i \in 1..Len(w.calls) : w.calls[i].by = x => MayDrop(w.store)
  <2> SUFFICES ASSUME NEW i \in 1..Len(w.calls), w.calls[i].by = x PROVE MayDrop(w.store)
    OBVIOUS
  <2>1. Pc(w, x) = "failreset" /\ w.calls[i].op = "reset" /\ w.calls[i].by # NoTask
    BY <1>9, TaskFacts
  <2>2. Owned(w.store) /\ ResetDue(w)
    BY <2>1 DEF ResetDue
  <2>3. CASE ActiveIs(w.store, "active") /\ ~Bare(w.store)
    <3>1. Image(w.store) = NoSession /\ Elf(w.store) = NoSession
      BY <2>2, <2>3 DEF Calm, Cleared, Will
    <3> QED
      BY <2>3, <3>1 DEF Image, Elf, Bare, ActiveIs
  <2> QED
    BY <2>2, <2>3 DEF Owned, MayDrop
<1>11. Asked(v, me)
  <2>1. ASSUME NEW i \in 1..Len(v.calls) PROVE Request(v, me, i)
    <3>1. Request(w, me, i) /\ i \in 1..Len(w.calls)
      BY DEF Calm, Asked, Disowned
    <3>2. CASE w.calls[i].by = x
      <4>1. v.calls[i].by = NoTask /\ v.calls[i].op = "reset" /\ MayDrop(v.store)
        BY <1>8, <1>9, <1>10, <3>1, <3>2
      <4> QED
        BY <1>8, <3>1, <4>1 DEF Request
    <3>3. CASE w.calls[i].by # x
      <4>1. v.calls[i] = w.calls[i] /\ v.calls[i].by \in Tasks \cup {NoTask}
        BY <1>7, <3>1, <3>3 DEF Disowned
      <4> QED
        BY <1>3, <3>1, <3>3, <4>1 DEF Request, Disowned
    <3> QED
      BY <3>2, <3>3
  <2>2. \A i, j \in 1..Len(v.calls) :
          v.calls[i].by = v.calls[j].by /\ v.calls[i].by # NoTask => i = j
    BY <1>8 DEF Calm, Asked, Disowned
  <2>3. ASSUME NEW t \in Tasks, t # me, Pc(v, t) \in {"pl", "ps", "reset"}, v.tasks[t].call # "out"
        PROVE  v.calls = << >>
    <3>1. t # x
      BY <1>2, <2>3
    <3>2. w.calls = << >>
      BY <1>3, <2>3, <3>1 DEF Calm, Asked
    <3> QED
      BY <3>2 DEF Disowned
  <2> QED
    BY <2>1, <2>2, <2>3 DEF Asked, Disowned
<1>12. Cleared(v, me, a)
  <2>1. CASE \A i \in 1..Len(w.calls) : w.calls[i].by # x
    <3>1. ResetDue(v) <=> ResetDue(w)
      BY <1>8, <2>1 DEF ResetDue, Disowned
    <3>2. \A i, e : Will(v, a, i, e) <=> Will(w, a, i, e)
      BY <3>1 DEF Will
    <3>3. \A t \in Tasks : t # me => Progress(v, a, t)
      BY <1>2, <1>3, <3>2, OffDuty DEF Calm, Cleared, Progress, ActiveId
    <3> QED
      BY <3>2, <3>3 DEF Calm, Cleared, ActiveId
  <2>2. CASE \E i \in 1..Len(w.calls) : w.calls[i].by = x
    <3>1. MayDrop(w.store) /\ Alone(v, me)
      BY <1>6, <1>9, <1>10, <2>2
    <3>2. \A t \in Tasks : t # me => Progress(v, a, t)
      BY <3>1, OffDuty DEF Alone
    <3> QED
      BY <3>1, <3>2 DEF Cleared, MayDrop, ActiveIs, ActiveId
  <2> QED
    BY <2>1, <2>2
<1>13. Covered(v, me, p)
  BY <1>3, <1>4 DEF Calm, Covered
<1> QED
  BY <1>5, <1>6, <1>11, <1>12, <1>13 DEF Calm

\* The parts of the process that CancelFields does not speak of.
\* A task is cancelled that is not on duty; a reset after a failed start may be
\* dropped once the next start is over.
LEMMA CancelCalm ==
    ASSUME NEW w, NEW y, Runs(w, y), NEW me, NEW a, NEW p, Calm(w, me, a, p),
           NEW x \in Tasks, x # me, Pc(w, x) \notin OnDuty,
           Pc(w, x) = "failreset" => Owned(w.store) /\ Alone(w, me)
    PROVE  LET v == CancelTask(w, x)
           IN  /\ Calm(v, me, a, p) /\ (Alone(w, me) => Alone(v, me))
               /\ v.store = w.store /\ v.runtime = w.runtime
               /\ v.expiry = w.expiry /\ v.tasks = Put(w.tasks, x, Done)
<1> DEFINE v == CancelTask(w, x)
<1>0. Place(w.store, x, w.tasks[x])
  BY DEF Calm, Places
<1>1. IsWeb(w) /\ Thread(w.tasks[x]) = {}
  BY <1>0 DEF Runs, Place, Pc, Thread, Stopping, OnDuty, AtWork, AtEnding
<1>2. /\ v.tasks = Put(w.tasks, x, Done) /\ v.store = w.store
      /\ v.zombies = w.zombies /\ v.expiry = w.expiry /\ v.runtime = w.runtime
      /\ v.calls = Orphaned(w.calls, x)
  <2>1. v.tasks = Put(w.tasks, x, Done)
    BY <1>1, CancelFields
  <2>2. v.store = w.store
    BY <1>1, CancelFields
  <2>3. v.zombies = w.zombies \cup Thread(w.tasks[x])
    BY <1>1, CancelParts
  <2>4. v.expiry = w.expiry
    BY <1>1, CancelParts
  <2>5. v.runtime = w.runtime
    BY <1>1, CancelParts
  <2>6. v.calls = Orphaned(w.calls, x)
    BY <1>1, CancelParts
  <2>7. v.zombies = w.zombies
    BY <1>1, <2>3
  <2> HIDE DEF v
  <2> QED
    BY <2>1, <2>2, <2>4, <2>5, <2>6, <2>7
<1> HIDE DEF v
<1>3. w.calls \in Seq(Requests) /\ Len(w.calls) \in Nat /\ \A i \in 1..Len(w.calls) : w.calls[i] \in Requests
  BY AskedFacts DEF Calm, Asked
<1>4. DOMAIN w.calls = 1..Len(w.calls)
  BY <1>3
<1>5. \A c \in Requests : [c EXCEPT !.by = NoTask] \in Requests
  BY DEF Requests
<1>6. \A i \in 1..Len(w.calls) :
        v.calls[i] = IF w.calls[i].by = x THEN [w.calls[i] EXCEPT !.by = NoTask] ELSE w.calls[i]
  BY <1>2, <1>4 DEF Orphaned
<1>7. v.calls \in [1..Len(w.calls) -> Requests]
  BY <1>2, <1>3, <1>4, <1>5 DEF Orphaned
<1>8. v.calls \in Seq(Requests) /\ Len(v.calls) = Len(w.calls)
  <2>1. v.calls \in Seq(Requests)
    BY <1>3, <1>7
  <2>2. Len(v.calls) \in Nat /\ DOMAIN v.calls = 1..Len(v.calls) /\ DOMAIN v.calls = 1..Len(w.calls)
    BY <1>7, <2>1
  <2>3. \A m, n \in Nat : 1..m = 1..n => m = n
    <3> SUFFICES ASSUME NEW m \in Nat, NEW n \in Nat, 1..m = 1..n PROVE m = n
      OBVIOUS
    <3>1. (m # 0 => m \in 1..n) /\ (n # 0 => n \in 1..m)
      BY m \in 1..m \/ m = 0, n \in 1..n \/ n = 0
    <3> QED
      BY <3>1
  <2> QED
    BY <1>3, <2>1, <2>2, <2>3
<1>9. Done.pc \in {"sleep", "done"} /\ Done.run = NoSession
  BY RestPlace
<1>10. v.expiry # NoTask => v.expiry \in Tasks /\ Kind(v.expiry) = "expiry"
  BY <1>2 DEF Calm, Places
<1>11. Disowned(w.calls, x, v.calls)
  BY <1>6, <1>8 DEF Disowned
<1>12. Calm(v, me, a, p) /\ (Alone(w, me) => Alone(v, me))
  BY <1>2, <1>9, <1>10, <1>11, LayCalm
<1> QED
  BY <1>2, <1>12 DEF v

\* A timer is set: the task of that name owes nothing.
LEMMA SleepCalm ==
    ASSUME NEW w, NEW y, Runs(w, y), NEW me, NEW a, NEW p, Calm(w, me, a, p),
           NEW x \in Tasks, x # me, Pc(w, x) \notin OnDuty \cup {"failreset"}, NEW s,
           NEW v, v.store = w.store, v.runtime = w.runtime, v.zombies = w.zombies,
           v.calls = w.calls, v.tasks = Put(w.tasks, x, Suspended("sleep", s)),
           v.expiry # NoTask => v.expiry \in Tasks /\ Kind(v.expiry) = "expiry"
    PROVE  Calm(v, me, a, p) /\ (Alone(w, me) => Alone(v, me))
<1> DEFINE k == Suspended("sleep", s)
<1>1. k.pc \in {"sleep", "done"} /\ k.run = NoSession
  BY RestPlace
<1>2. \A i \in 1..Len(w.calls) : w.calls[i].by # x
  <2>1. Pc(w, x) \notin Calling
    BY DEF Calm, Places, Place, Pc, Calling, OnDuty, AtWork, AtEnding
  <2> QED
    BY <2>1, TaskFacts DEF Calm, Asked, Request
<1>3. Disowned(w.calls, x, v.calls)
  BY <1>2 DEF Disowned, Calm, Asked
<1>4. v.tasks = Put(w.tasks, x, k)
  OBVIOUS
<1> HIDE DEF k
<1> QED
  BY <1>1, <1>3, <1>4, LayCalm

LEMMA CancelExpiryCalm ==
    ASSUME NEW w, NEW y, Runs(w, y), NEW me, NEW a, NEW p, Calm(w, me, a, p),
           Owned(w.store), Alone(w, me), NEW by, by = me \/ me = NoTask
    PROVE  LET v == CancelExpiry(w, by)
           IN  /\ Calm(v, me, a, p) /\ Alone(v, me)
               /\ v.store = w.store /\ v.runtime = w.runtime /\ v.expiry = NoTask
               /\ \A t \in Tasks : Pc(v, t) \in {Pc(w, t), "done"}
<1> DEFINE x == w.expiry
           u == [w EXCEPT !.expiry = NoTask]
<1>1. CancelExpiry(w, by) = IF x = NoTask \/ x = by THEN u ELSE CancelTask(u, x)
  BY DEF CancelExpiry
<1>2. /\ IsWeb(u) /\ u.store = w.store /\ u.tasks = w.tasks /\ u.calls = w.calls
      /\ u.zombies = w.zombies /\ u.runtime = w.runtime /\ u.expiry = NoTask
  BY DEF Runs, IsWeb
<1> HIDE DEF u
<1>3. Runs(u, y)
  BY <1>2 DEF Runs
<1>4. Calm(u, me, a, p) /\ Alone(u, me)
  BY <1>2, SameCalm
<1>5. CASE x = NoTask \/ x = by
  BY <1>1, <1>2, <1>4, <1>5 DEF Pc
<1>6. CASE ~(x = NoTask \/ x = by)
  <2>1. x \in Tasks /\ x # me /\ Pc(u, x) \notin OnDuty
    BY <1>4, <1>6 DEF Calm, Places, Alone
  <2>2. /\ Calm(CancelTask(u, x), me, a, p) /\ Alone(CancelTask(u, x), me)
        /\ CancelTask(u, x).store = u.store /\ CancelTask(u, x).runtime = u.runtime
        /\ CancelTask(u, x).expiry = u.expiry /\ CancelTask(u, x).tasks = Put(u.tasks, x, Done)
    BY <1>2, <1>3, <1>4, <2>1, CancelCalm
  <2>3. \A t \in Tasks : Pc(CancelTask(u, x), t) \in {Pc(w, t), "done"}
    BY <1>2, <2>2, RestPlace DEF Pc, Put, Runs
  <2> QED
    BY <1>1, <1>2, <1>6, <2>2, <2>3
<1> QED
  BY <1>5, <1>6

\* The owner's timer is set anew.
LEMMA ScheduleExpiryCalm ==
    ASSUME NEW w, NEW t, Runs(w, t), NEW me, NEW a, NEW p, Calm(w, me, a, p),
           ActiveIs(w.store, "active"), me \in {t, NoTask},
           Timed(ScheduleExpiry(w, t, w.store.active), t)
    PROVE  LET v == ScheduleExpiry(w, t, w.store.active)
           IN  Calm(v, me, a, p) /\ v.store = w.store /\ v.runtime = w.runtime
<1> DEFINE s == w.store.active
           due == w.store.ses[s].expires
           x == Expirer(s, due)
           c == CancelExpiry(w, t)
           k == Suspended("sleep", s)
           d == Put(c.tasks, x, k)
           u == [c EXCEPT !.expiry = x]
           v == [u EXCEPT !.tasks = d]
           z == ScheduleExpiry(w, t, s)
<1>1. z = IF due = NoTime THEN c ELSE [c EXCEPT !.expiry = x, !.tasks[x] = k]
  BY DEF ScheduleExpiry
<1>2. Alone(w, me) /\ Owned(w.store)
  BY ActiveAlone DEF Calm, Owned
<1>3. /\ Calm(c, me, a, p) /\ Alone(c, me)
      /\ c.store = w.store /\ c.runtime = w.runtime /\ c.expiry = NoTask
      /\ \A y \in Tasks : Pc(c, y) \in {Pc(w, y), "done"}
  BY <1>2, CancelExpiryCalm
<1>4. Runs(c, t)
  BY CancelExpiryRuns
<1>5. z.store = w.store
  BY ScheduleExpiryRuns
<1>6. Kind(x) = "expiry" /\ Subject(x) = s
  BY TaskFacts
<1>7. due # NoTime => x \in Tasks /\ x # t
  <2> HIDE DEF z
  <2> QED
    BY <1>5 DEF Timed, Due, Alarm, z
<1> HIDE DEF c, z, x, due
<1>8. [c EXCEPT !.expiry = x, !.tasks[x] = k] = v
  <2>1. [c EXCEPT !.expiry = x, !.tasks[x] = k] = [c EXCEPT !.expiry = x, !.tasks = d]
    BY <1>4 DEF Put, IsWeb, Runs
  <2> HIDE DEF d
  <2> QED
    BY <2>1
<1> HIDE DEF d
<1>9. /\ IsWeb(u) /\ u.store = c.store /\ u.runtime = c.runtime /\ u.zombies = c.zombies
      /\ u.calls = c.calls /\ u.expiry = x
  BY <1>4 DEF Runs, IsWeb
<1> HIDE DEF u
<1>10. /\ v.store = c.store /\ v.runtime = c.runtime /\ v.zombies = c.zombies
       /\ v.calls = c.calls /\ v.expiry = x /\ v.tasks = d
  BY <1>9 DEF IsWeb
<1> HIDE DEF v
<1>11. CASE due = NoTime
  BY <1>1, <1>3, <1>11 DEF z, s
<1>12. CASE due # NoTime
  <2>1. x \in Tasks /\ x # t /\ x # me
    BY <1>7, <1>12, TaskFacts
  <2>2. Pc(c, x) # "failreset"
    <3>1. Place(c.store, x, c.tasks[x])
      BY <1>3, <2>1 DEF Calm, Places
    <3> QED
      BY <1>3, <1>6, <3>1 DEF Place, Past, LockKinds, Pc, s
  <2>3. Pc(c, x) \notin OnDuty \cup {"failreset"}
    BY <1>3, <2>1, <2>2 DEF Alone
  <2>4. v.tasks = Put(c.tasks, x, Suspended("sleep", s))
    BY <1>10 DEF d
  <2>5. v.expiry # NoTask => v.expiry \in Tasks /\ Kind(v.expiry) = "expiry"
    BY <1>6, <1>10, <2>1
  <2>6. Calm(v, me, a, p)
    BY <1>3, <1>4, <1>10, <2>1, <2>3, <2>4, <2>5, SleepCalm
  <2> QED
    BY <1>1, <1>3, <1>8, <1>10, <1>12, <2>6 DEF z, s
<1> QED
  BY <1>11, <1>12

\* A disconnect timer is cancelled of a session that nobody ends.
LEMMA CancelDisconnectCalm ==
    ASSUME NEW w, NEW y, Runs(w, y), NEW me, NEW a, NEW p, Calm(w, me, a, p), NEW by,
           by = me \/ me = NoTask, NEW s \in SessionIds,
           Disconnector(s) # me => Pc(w, Disconnector(s)) \notin OnDuty \cup {"failreset"}
    PROVE  LET v == CancelDisconnect(w, by, s)
           IN  /\ Calm(v, me, a, p) /\ (Alone(w, me) => Alone(v, me))
               /\ v.store = w.store /\ v.runtime = w.runtime /\ v.counts = w.counts
               /\ v.expiry = w.expiry
               /\ \A t \in Tasks : Pc(v, t) \in {Pc(w, t), "done"}
<1> DEFINE x == Disconnector(s)
           l == w.disc \ {s}
           u == [w EXCEPT !.disc = l]
<1>1. CancelDisconnect(w, by, s) = IF s \notin w.disc \/ x = by THEN u ELSE CancelTask(u, x)
  BY DEF CancelDisconnect
<1>2. x \in Tasks
  BY TaskFacts
<1> HIDE DEF l
<1>3. /\ IsWeb(u) /\ u.store = w.store /\ u.tasks = w.tasks /\ u.calls = w.calls
      /\ u.zombies = w.zombies /\ u.runtime = w.runtime /\ u.expiry = w.expiry
      /\ u.counts = w.counts
  BY DEF Runs, IsWeb
<1> HIDE DEF u
<1>4. Runs(u, y)
  BY <1>3 DEF Runs
<1>5. Calm(u, me, a, p) /\ (Alone(w, me) => Alone(u, me))
  BY <1>3, SameCalm
<1>6. CASE s \notin w.disc \/ x = by
  BY <1>1, <1>3, <1>5, <1>6 DEF Pc
<1>7. CASE ~(s \notin w.disc \/ x = by)
  <2>1. x # me /\ Pc(u, x) \notin OnDuty /\ Pc(u, x) # "failreset"
    BY <1>2, <1>3, <1>7, TaskFacts DEF Pc
  <2> HIDE DEF x
  <2>2. /\ Calm(CancelTask(u, x), me, a, p) /\ (Alone(u, me) => Alone(CancelTask(u, x), me))
        /\ CancelTask(u, x).store = u.store /\ CancelTask(u, x).runtime = u.runtime
        /\ CancelTask(u, x).expiry = u.expiry /\ CancelTask(u, x).tasks = Put(u.tasks, x, Done)
    BY <1>2, <1>4, <1>5, <2>1, CancelCalm
  <2>3. CancelTask(u, x).counts = u.counts
    BY <1>3, CancelParts
  <2>4. \A t \in Tasks : Pc(CancelTask(u, x), t) \in {Pc(w, t), "done"}
    BY <1>3, <2>2, RestPlace DEF Pc, Put, Runs
  <2> QED
    BY <1>1, <1>3, <1>5, <1>7, <2>2, <2>3, <2>4
<1> QED
  BY <1>6, <1>7

-----------------------------------------------------------------------------
(* The store changes *)

\* Whose session is over stays past it.
LEMMA PastStays ==
    ASSUME NEW m, StoreOK(m), NEW n, StoreOK(n), Forward(m, n),
           n.active \in {m.active, NoSession} \/ ActiveIs(n, "starting"), NEW t \in Tasks, Past(m, t)
    PROVE  Past(n, t)
<1> SUFFICES ASSUME Kind(t) \in LockKinds
             PROVE  StatusOf(n, Subject(t)) \in Ending /\ Subject(t) # n.active
  BY DEF Past
<1>1. Subject(t) \in SessionIds /\ Subject(t) # NoSession
  BY TaskFacts, StoreFacts DEF LockKinds, StoreOK
<1>2. StatusOf(m, Subject(t)) \in Ending /\ Subject(t) # m.active
  BY DEF Past
<1>3. StatusOf(n, Subject(t)) \in Ending
  BY <1>1, <1>2 DEF Forward
<1> QED
  BY <1>1, <1>2, <1>3 DEF ActiveIs, Ending

\* Another owner, or the owner in another status, while nobody is on duty.
LEMMA StoreAlone ==
    ASSUME NEW w, NEW t, Runs(w, t), NEW p,
           Places(w, t), Asked(w, t), Covered(w, t, p), Alone(w, t),
           NEW m, StoreOK(m), Forward(w.store, m),
           m.active \in {w.store.active, NoSession} \/ ActiveIs(m, "starting"),
           \A i \in 1..Len(w.calls) : w.calls[i].by = NoTask => MayDrop(m)
    PROVE  LET v == [w EXCEPT !.store = m]
           IN  /\ Runs(v, t) /\ v.store = m /\ v.calls = w.calls /\ v.runtime = w.runtime
               /\ v.tasks = w.tasks /\ v.flow = w.flow /\ v.expiry = w.expiry
               /\ Places(v, t) /\ Asked(v, t) /\ Covered(v, t, p) /\ Alone(v, t)
               /\ \A a, i, e : Will(v, a, i, e) <=> Will(w, a, i, e)
<1> DEFINE v == [w EXCEPT !.store = m]
<1>1. /\ IsWeb(v) /\ v.store = m /\ v.calls = w.calls /\ v.runtime = w.runtime
      /\ v.tasks = w.tasks /\ v.flow = w.flow /\ v.expiry = w.expiry /\ v.zombies = w.zombies
  BY DEF Runs, IsWeb
<1> HIDE DEF v
<1>2. Runs(v, t)
  BY <1>1, StillRuns
<1>3. \A x : Pc(v, x) = Pc(w, x)
  BY <1>1 DEF Pc
<1>4. Alone(v, t)
  BY <1>3 DEF Alone
<1>5. Places(v, t)
  <2>1. ASSUME NEW x \in Tasks, x # t PROVE Place(v.store, x, v.tasks[x])
    <3>1. Place(w.store, x, w.tasks[x]) /\ w.tasks[x].pc \notin OnDuty
      BY <2>1 DEF Places, Alone, Pc
    <3>2. Past(w.store, x) => Past(m, x)
      BY PastStays DEF Runs
    <3> QED
      BY <1>1, <3>1, <3>2 DEF Place, OnDuty, AtWork, AtEnding
  <2> QED
    BY <1>1, <1>3, <2>1 DEF Places
<1>6. Asked(v, t)
  <2>1. ASSUME NEW i \in 1..Len(v.calls) PROVE Request(v, t, i)
    <3>1. Request(w, t, i)
      BY <1>1 DEF Asked
    <3> QED
      BY <1>1, <1>3, <3>1 DEF Request
  <2> QED
    BY <1>1, <1>3, <2>1 DEF Asked
<1>7. Covered(v, t, p)
  BY <1>1 DEF Covered
<1> QED
  BY <1>1, <1>2, <1>4, <1>5, <1>6, <1>7, SameWill DEF v

\* Sessions come and go in the queue, and the owner stays.
LEMMA StoreKept ==
    ASSUME NEW w, NEW t, Runs(w, t), NEW me, NEW a, NEW p, Quiet(w, me, a, p),
           NEW m, StoreOK(m), Forward(w.store, m), SameOwner(w.store, m)
    PROVE  LET v == [w EXCEPT !.store = m]
           IN  Quiet(v, me, a, p) /\ Runs(v, t) /\ v.store = m /\ v.tasks = w.tasks
<1> DEFINE v == [w EXCEPT !.store = m]
<1>1. /\ IsWeb(v) /\ v.store = m /\ v.calls = w.calls /\ v.runtime = w.runtime
      /\ v.tasks = w.tasks /\ v.expiry = w.expiry /\ v.zombies = w.zombies
  BY DEF Runs, IsWeb
<1> HIDE DEF v
<1>2. Runs(v, t)
  BY <1>1, StillRuns
<1>3. \A x : Pc(v, x) = Pc(w, x)
  BY <1>1 DEF Pc
<1>4. /\ m.active = w.store.active
      /\ \A s : ActiveIs(m, s) <=> ActiveIs(w.store, s)
      /\ m.active # NoSession => ActiveDemo(m) = ActiveDemo(w.store)
  BY DEF SameOwner, ActiveIs, ActiveDemo
<1>5. \A s : ActiveIs(m, s) => m.active # NoSession
  BY DEF ActiveIs
<1>6. Places(v, me)
  <2>1. ASSUME NEW x \in Tasks, x # me PROVE Place(v.store, x, v.tasks[x])
    <3>1. Place(w.store, x, w.tasks[x])
      BY <2>1 DEF Quiet, Places
    <3>2. Past(w.store, x) => Past(m, x)
      BY <1>4, PastStays DEF Runs
    <3> QED
      BY <1>1, <1>4, <1>5, <3>1, <3>2 DEF Place, AtWork, AtEnding
  <2> QED
    BY <1>1, <1>3, <2>1 DEF Quiet, Places
<1>7. Asked(v, me)
  <2>1. MayDrop(w.store) => MayDrop(m)
    BY <1>4, <1>5 DEF MayDrop, Bare
  <2>2. ASSUME NEW i \in 1..Len(v.calls) PROVE Request(v, me, i)
    <3>1. Request(w, me, i)
      BY <1>1 DEF Quiet, Asked
    <3> QED
      BY <1>1, <1>3, <2>1, <3>1 DEF Request
  <2> QED
    BY <1>1, <1>3, <2>2 DEF Quiet, Asked
<1>8. Cleared(v, me, a)
  <2>1. ASSUME NEW x \in Tasks, x # me PROVE Progress(v, a, x)
    <3>1. Progress(w, a, x)
      BY <2>1 DEF Quiet, Cleared
    <3>2. CASE m.active # NoSession
      BY <1>1, <1>4, <3>1, <3>2, SameProgress
    <3>3. CASE m.active = NoSession
      <4>1. Place(v.store, x, v.tasks[x]) /\ \A s : ~ActiveIs(v.store, s)
        BY <1>1, <1>6, <2>1, <3>3 DEF Places, ActiveIs
      <4>2. Pc(v, x) \notin OnDuty
        BY <4>1 DEF Place, Pc, OnDuty
      <4> QED
        BY <4>2, OffDuty
    <3> QED
      BY <3>2, <3>3
  <2>2. ActiveIs(m, "active") => Bare(m) = Bare(w.store) /\ Image(m) = Image(w.store) /\ Elf(m) = Elf(w.store)
    BY <1>4, <1>5 DEF Bare, Image, Elf
  <2> QED
    BY <1>1, <1>4, <2>1, <2>2, SameWill DEF Quiet, Cleared, ActiveId
<1>9. Current(v, p)
  BY <1>1, <1>4, <1>5 DEF Quiet, Current, ActiveId
<1>10. Covered(v, me, p)
  BY <1>1 DEF Quiet, Covered
<1> QED
  BY <1>1, <1>2, <1>6, <1>7, <1>8, <1>9, <1>10 DEF Quiet, v

-----------------------------------------------------------------------------
(* Starts *)

\* The session s is being started by t, and nobody else is on duty.
Starting(w, t, p, s) ==
    /\ Places(w, t) /\ Asked(w, t) /\ Covered(w, t, p) /\ Alone(w, t)
    /\ ActiveIs(w.store, "starting") /\ ActiveId(w) = s /\ Past(w.store, t)

\* The demo process is up, where the demo has one.
Up(w, p, s) ==
    IF ActiveDemo(w.store) \in RuntimeDemos THEN w.runtime = s /\ s \in p ELSE w.runtime = NoSession

LEMMA StartingFacts ==
    ASSUME NEW w, NEW t, NEW p, NEW s, Runs(w, t), Starting(w, t, p, s)
    PROVE  /\ CanActivate(w.store, s) /\ s \in SessionIds /\ s # NoSession
           /\ ~ActiveIs(w.store, "active") /\ ~ActiveIs(w.store, "ending")
           /\ \A i \in 1..Len(w.calls) : w.calls[i].by # NoTask
<1>1. /\ CanActivate(w.store, s) /\ s # NoSession
      /\ ~ActiveIs(w.store, "active") /\ ~ActiveIs(w.store, "ending")
  BY DEF Starting, CanActivate, IsActive, ActiveIs, ActiveId
<1>2. s \in SessionIds
  BY <1>1, StoreFacts DEF Runs, StoreOK, Starting, ActiveId
<1> QED
  BY <1>1, <1>2 DEF Starting, Asked, Request, MayDrop

\* While a session starts the requests owe the tasks nothing.
LEMMA AloneCleared ==
    ASSUME NEW w, NEW me, NEW a, Alone(w, me),
           ActiveId(w) = NoSession => Will(w, a, NoSession, NoSession),
           ActiveIs(w.store, "active") /\ ~Bare(w.store) => Will(w, a, Image(w.store), Elf(w.store))
    PROVE  Cleared(w, me, a)
BY OffDuty DEF Alone, Cleared

LEMMA StartedQuiet ==
    ASSUME NEW w, NEW t, NEW a, NEW p, NEW s, Good(now, w, t), Starting(w, t, p, s), Up(w, p, s),
           ~Bare(w.store) => Will(w, a, Image(w.store), Elf(w.store))
    PROVE  Quiet(Started(w, t, s), NoTask, a, p)
<1> DEFINE m == Activate(w.store, s, now)
           v == [w EXCEPT !.store = m]
           z == ScheduleExpiry(v, t, s)
<1>1. Runs(w, t) /\ now \in Nat /\ StoreOK(w.store)
  BY GoodFacts
<1>2. /\ CanActivate(w.store, s) /\ s \in SessionIds /\ s # NoSession
      /\ \A i \in 1..Len(w.calls) : w.calls[i].by # NoTask
  BY <1>1, StartingFacts
<1>3. Started(w, t, s) = Return(z, t)
  BY <1>2 DEF Started
<1>4. /\ StoreOK(m) /\ Forward(w.store, m) /\ ActiveIs(m, "active") /\ m.active = s
      /\ w.store.active = s
  <2>1. m.active = s /\ ActiveIs(m, "active")
    BY <1>1, <1>2, GoodFacts, ActivateTimely
  <2>2. StoreOK(m) /\ Forward(w.store, m)
    BY <1>1, <1>2, ActivateOK
  <2>3. w.store.active = s
    BY <1>2 DEF CanActivate, IsActive
  <2> QED
    BY <2>1, <2>2, <2>3
<1>5. ActiveDemo(m) = ActiveDemo(w.store)
  <2>1. w.store.ses \in [SessionIds -> DemoSession]
    BY <1>1, StoreFacts DEF StoreOK
  <2>2. m.ses = [w.store.ses EXCEPT ![s] = m.ses[s]] /\ m.ses[s].demo = w.store.ses[s].demo
    BY <1>1, <1>2, <2>1 DEF Activate, Update, StoreOK, Store, DemoSession
  <2> QED
    BY <1>4, <2>2 DEF ActiveDemo
<1>6. Good(now, z, t)
  BY <1>2, ActivateGood
<1> HIDE DEF m, z
<1>7. /\ Runs(v, t) /\ v.store = m /\ v.calls = w.calls /\ v.runtime = w.runtime
      /\ Places(v, t) /\ Asked(v, t) /\ Covered(v, t, p) /\ Alone(v, t)
      /\ \A i, e : Will(v, a, i, e) <=> Will(w, a, i, e)
  BY <1>1, <1>2, <1>4, StoreAlone DEF Starting
<1> HIDE DEF v
<1>8. Cleared(v, t, a)
  <2>1. Bare(m) = Bare(w.store) /\ Image(m) = Image(w.store) /\ Elf(m) = Elf(w.store)
    BY <1>4, <1>5 DEF Bare, Image, Elf
  <2> QED
    BY <1>2, <1>4, <1>7, <2>1, AloneCleared DEF ActiveId
<1>9. Current(v, p)
  BY <1>4, <1>5, <1>7 DEF Current, Up, ActiveId
<1>10. Calm(z, t, a, p) /\ z.store = m /\ z.runtime = v.runtime
  <2>1. Calm(v, t, a, p) /\ ActiveIs(v.store, "active") /\ v.store.active = s
    BY <1>4, <1>7, <1>8 DEF Calm
  <2>2. Timed(ScheduleExpiry(v, t, v.store.active), t)
    BY <1>6, <2>1 DEF Good, z
  <2>3. t \in {t, NoTask}
    OBVIOUS
  <2> QED
    BY <1>7, <2>1, <2>2, <2>3, ScheduleExpiryCalm DEF z
<1>11. Quiet(z, t, a, p)
  BY <1>7, <1>9, <1>10, QuietIsCalm DEF Current, ActiveId
<1>12. Runs(z, t)
  BY <1>6, GoodFacts
<1> QED
  BY <1>3, <1>11, <1>12, ReturnQuiet

LEMMA ProgrammedQuiet ==
    ASSUME NEW w, NEW t, NEW a, NEW p, NEW s, Good(now, w, t), Starting(w, t, p, s),
           w.runtime = NoSession, ~Bare(w.store) => Will(w, a, Image(w.store), Elf(w.store))
    PROVE  Quiet(Programmed(w, t, s), NoTask, a, p)
<1>1. Runs(w, t)
  BY GoodFacts
<1>2. DemoOf(w, s) = ActiveDemo(w.store)
  BY DEF Starting, DemoOf, ActiveDemo, ActiveId
<1>3. CASE DemoOf(w, s) \in RuntimeDemos
  <2> DEFINE k == Suspended("rt", s)
             v == At(w, t, k)
  <2>1. k.pc = "rt" /\ k.ses = s /\ k.run = NoSession
    BY DEF Suspended
  <2>2. Place(w.store, t, k)
    BY <1>2, <1>3, <2>1 DEF Place, Starting, OnDuty, AtWork, AtEnding, ActiveId
  <2>3. Quiet(w, t, a, p)
    <3>1. Cleared(w, t, a) /\ Current(w, p)
      BY <1>1, StartingFacts, AloneCleared DEF Starting, Current, ActiveId
    <3> QED
      BY <3>1 DEF Quiet, Starting
  <2> HIDE DEF k
  <2>4. /\ v.store = w.store /\ v.tasks = Put(w.tasks, t, k) /\ v.calls = w.calls
        /\ v.expiry = w.expiry /\ v.zombies = w.zombies /\ v.runtime = w.runtime
    BY <1>1, AtFields, AtParts DEF Runs
  <2> HIDE DEF v
  <2>5. Quiet(v, NoTask, a, p)
    BY <1>1, <2>1, <2>2, <2>3, <2>4, SuspendQuiet DEF Starting
  <2>6. Programmed(w, t, s) = v
    BY <1>3 DEF Programmed, v, k
  <2> QED
    BY <2>5, <2>6
<1>4. CASE DemoOf(w, s) \notin RuntimeDemos
  <2>1. Programmed(w, t, s) = Started(w, t, s) /\ Up(w, p, s)
    BY <1>2, <1>4 DEF Programmed, Up
  <2> QED
    BY <2>1, StartedQuiet
<1> QED
  BY <1>3, <1>4

LEMMA ProgramPSQuiet ==
    ASSUME NEW w, NEW t, NEW a, NEW p, NEW s, Good(now, w, t), Starting(w, t, p, s),
           w.runtime = NoSession, Will(w, a, Image(w.store), NoSession)
    PROVE  Quiet(ProgramPS(w, t, s), NoTask, a, p)
<1>1. Runs(w, t)
  BY GoodFacts
<1>2. DemoOf(w, s) = ActiveDemo(w.store) /\ Current(w, p) /\ s \in SessionIds
  BY <1>1, StartingFacts DEF Starting, DemoOf, ActiveDemo, ActiveId, Current
<1>3. CASE DemoOf(w, s) \in PSDemos
  <2>1. Place(w.store, t, Suspended("ps", s))
    BY <1>2, <1>3 DEF Place, Suspended, Starting, OnDuty, AtWork, AtEnding, ActiveId
  <2>2. "ps" \in {"pl", "ps", "reset", "failreset"} /\ "ps" \notin {"reset", "failreset"}
    OBVIOUS
  <2>3. Quiet(Send(w, t, "ps", s), NoTask, a, p)
    BY <1>1, <1>2, <2>1, <2>2, SendQuiet DEF Starting
  <2> QED
    BY <1>3, <2>3 DEF ProgramPS
<1>4. CASE DemoOf(w, s) \notin PSDemos
  <2>1. Elf(w.store) = NoSession /\ ProgramPS(w, t, s) = Programmed(w, t, s)
    BY <1>2, <1>4 DEF Elf, ProgramPS
  <2> QED
    BY <2>1, ProgrammedQuiet
<1> QED
  BY <1>3, <1>4

LEMMA ProgramPLQuiet ==
    ASSUME NEW w, NEW t, NEW a, NEW p, NEW s, Good(now, w, t), Starting(w, t, p, s),
           w.runtime = NoSession, Will(w, a, NoSession, NoSession)
    PROVE  Quiet(ProgramPL(w, t, s), NoTask, a, p)
<1>1. Runs(w, t)
  BY GoodFacts
<1>2. DemoOf(w, s) = ActiveDemo(w.store) /\ Current(w, p) /\ s \in SessionIds
  BY <1>1, StartingFacts DEF Starting, DemoOf, ActiveDemo, ActiveId, Current
<1>3. CASE DemoOf(w, s) \in PLDemos
  <2>1. Place(w.store, t, Suspended("pl", s))
    BY <1>2, <1>3 DEF Place, Suspended, Starting, OnDuty, AtWork, AtEnding, ActiveId
  <2>2. "pl" \in {"pl", "ps", "reset", "failreset"} /\ "pl" \notin {"reset", "failreset"}
    OBVIOUS
  <2>3. Quiet(Send(w, t, "pl", s), NoTask, a, p)
    BY <1>1, <1>2, <2>1, <2>2, SendQuiet DEF Starting
  <2> QED
    BY <1>3, <2>3 DEF ProgramPL
<1>4. CASE DemoOf(w, s) \notin PLDemos
  <2>1. Image(w.store) = NoSession /\ ProgramPL(w, t, s) = ProgramPS(w, t, s)
    BY <1>2, <1>4 DEF Image, ProgramPL
  <2> QED
    BY <2>1, ProgramPSQuiet
<1> QED
  BY <1>3, <1>4

\* Nobody is on duty for a board that is free or that of an active session.
LEMMA SettledAlone ==
    ASSUME NEW w, NEW me, Places(w, me), Settled(w.store)
    PROVE  Alone(w, me)
BY DEF Settled, Places, Place, Alone, OnDuty, ActiveIs, Pc

LEMMA TryStartNextQuiet ==
    ASSUME NEW w, NEW t, NEW a, NEW p, Good(now, w, t), Quiet(w, t, a, p), Past(w.store, t)
    PROVE  Quiet(TryStartNext(w, t), NoTask, a, p)
<1>1. Runs(w, t) /\ StoreOK(w.store)
  BY GoodFacts
<1>2. CASE MayStart(w) /\ CanBegin(w.store)
  <2> DEFINE m == BeginNext(w.store)
             v == [w EXCEPT !.store = m]
             s == Head(w.store.queue)
  <2>1. TryStartNext(w, t) = ProgramPL(v, t, s)
    BY <1>2 DEF TryStartNext
  <2>2. StoreOK(m) /\ Forward(w.store, m) /\ m.active = s
    BY <1>1, <1>2, BeginNextOK
  <2>3. s \in SessionIds /\ s # NoSession /\ w.store.queue # << >> /\ w.store.active = NoSession
    BY <1>1, <1>2, StoreFacts DEF CanBegin, StoreOK
  <2>4. ActiveIs(m, "starting")
    <3>1. w.store.ses \in [SessionIds -> DemoSession]
      BY <1>1, StoreFacts DEF StoreOK
    <3>2. m.ses = [w.store.ses EXCEPT ![s] = [w.store.ses[s] EXCEPT !.status = "starting"]]
      BY <1>1 DEF BeginNext, Update, StoreOK, Store
    <3>3. m.ses[s].status = "starting"
      BY <2>3, <3>1, <3>2 DEF DemoSession
    <3> QED
      BY <2>2, <2>3, <3>3 DEF ActiveIs, StatusOf
  <2>5. Good(now, v, t)
    BY <1>1, <1>2, BeginNextTimely, StoreReady DEF Good
  <2> HIDE DEF m, s
  <2>6. Alone(w, t) /\ \A i \in 1..Len(w.calls) : w.calls[i].by # NoTask
    BY <2>3, SettledAlone DEF Settled, Quiet, Asked, Request, MayDrop, ActiveIs
  <2>7. /\ v.store = m /\ v.runtime = w.runtime
        /\ Places(v, t) /\ Asked(v, t) /\ Covered(v, t, p) /\ Alone(v, t)
        /\ \A i, e : Will(v, a, i, e) <=> Will(w, a, i, e)
    BY <1>1, <2>2, <2>4, <2>6, StoreAlone DEF Quiet
  <2>8. Past(m, t)
    BY <1>1, <2>2, <2>4, PastStays DEF Runs
  <2>9. Starting(v, t, p, s)
    BY <2>2, <2>4, <2>7, <2>8 DEF Starting, ActiveId
  <2>10. v.runtime = NoSession /\ Will(v, a, NoSession, NoSession)
    BY <2>3, <2>7 DEF Quiet, Current, Cleared, ActiveId, ActiveIs
  <2> HIDE DEF v
  <2> QED
    BY <2>1, <2>5, <2>9, <2>10, ProgramPLQuiet
<1>3. CASE ~(MayStart(w) /\ CanBegin(w.store))
  <2>1. TryStartNext(w, t) = Return(w, t)
    BY <1>3 DEF TryStartNext
  <2> QED
    BY <1>1, <2>1, ReturnQuiet
<1> QED
  BY <1>2, <1>3

\* The start has failed: the board is free, and reset before the next start.
LEMMA StartFailedQuiet ==
    ASSUME NEW w, NEW t, NEW a, NEW p, NEW s, Runs(w, t), Starting(w, t, p, s),
           w.runtime = NoSession
    PROVE  Quiet(StartError(w, t, s), NoTask, a, p)
<1> DEFINE m == FailStart(w.store, s)
           v == [w EXCEPT !.store = m]
<1>1. /\ CanActivate(w.store, s) /\ s \in SessionIds
      /\ \A i \in 1..Len(w.calls) : w.calls[i].by # NoTask
  BY StartingFacts
<1>2. StartError(w, t, s) = Send(v, t, "failreset", s)
  BY <1>1 DEF StartError, StartFailed
<1>3. StoreOK(m) /\ Forward(w.store, m) /\ m.active = NoSession
  BY <1>1, FailStartOK DEF Runs
<1> HIDE DEF m
<1>4. /\ Runs(v, t) /\ v.store = m /\ v.runtime = w.runtime
      /\ Places(v, t) /\ Asked(v, t) /\ Covered(v, t, p) /\ Alone(v, t)
  BY <1>1, <1>3, StoreAlone DEF Starting
<1> HIDE DEF v
<1>5. Past(m, t)
  BY <1>3, PastStays DEF Starting, Runs
<1>6. Place(v.store, t, Suspended("failreset", s))
  BY <1>4, <1>5 DEF Place, Suspended, OnDuty, AtWork, AtEnding
<1>7. Current(v, p) /\ ~ActiveIs(v.store, "active")
  BY <1>3, <1>4 DEF Current, ActiveIs
<1>8. "failreset" \in {"pl", "ps", "reset", "failreset"} /\ "failreset" \notin {"pl", "ps"}
  OBVIOUS
<1>9. Quiet(Send(v, t, "failreset", s), NoTask, a, p)
  BY <1>1, <1>4, <1>6, <1>7, <1>8, SendQuiet
<1> QED
  BY <1>2, <1>9

-----------------------------------------------------------------------------
(* Ends *)

\* The session on the board is being ended by t, and nobody else is on duty.
EndingBy(w, t, p) ==
    /\ Places(w, t) /\ Asked(w, t) /\ Covered(w, t, p) /\ Alone(w, t)
    /\ ActiveIs(w.store, "ending") /\ Kind(t) \in LockKinds /\ Subject(t) = ActiveId(w)

LEMMA EndUnderLockQuiet ==
    ASSUME NEW w, NEW t, NEW a, NEW p, Runs(w, t), EndingBy(w, t, p)
    PROVE  Quiet(EndUnderLock(w, t, Subject(t)), NoTask, a, p)
<1> DEFINE s == Subject(t)
<1>1. s \in SessionIds /\ ~ActiveIs(w.store, "active")
  BY TaskFacts DEF EndingBy, LockKinds, ActiveIs, Runs
<1>2. \A pc \in AtEnding : Place(w.store, t, Suspended(pc, s))
  BY DEF EndingBy, Place, Suspended, OnDuty, AtWork, AtEnding, ActiveId
<1>3. CASE w.runtime = NoSession
  <2>1. /\ "reset" \in {"pl", "ps", "reset", "failreset"} /\ "reset" \notin {"pl", "ps"}
        /\ Current(w, p) /\ Place(w.store, t, Suspended("reset", s))
    BY <1>1, <1>2, <1>3 DEF Current, AtEnding
  <2>2. Quiet(Send(w, t, "reset", s), NoTask, a, p)
    BY <1>1, <2>1, SendQuiet DEF EndingBy
  <2> QED
    BY <1>3, <2>2 DEF EndUnderLock
<1>4. CASE w.runtime # NoSession
  <2>1. Place(w.store, t, Suspended("stop", s))
    BY <1>2 DEF AtEnding
  <2>2. Quiet(Stops(w, t, "stop", s, w.runtime), NoTask, a, p)
    BY <2>1, StopQuiet DEF EndingBy
  <2> QED
    BY <1>4, <2>2 DEF EndUnderLock, Stops
<1> QED
  BY <1>3, <1>4

\* The lock is free, and the session is told to end.
LEMMA AcquireQuiet ==
    ASSUME NEW w, NEW t, NEW a, NEW p, Runs(w, t), w.flow = << >>,
           Places(w, t), Asked(w, t), Covered(w, t, p), Alone(w, t),
           Kind(t) \in LockKinds, Subject(t) = ActiveId(w),
           ActiveIs(w.store, IF Kind(t) = "end" THEN "ending" ELSE "active")
    PROVE  Quiet(Acquire(w, t), NoTask, a, p)
<1> DEFINE q == Append(w.flow, t)
           v == [w EXCEPT !.flow = q]
<1>1. Acquire(w, t) = Locked(v, t)
  BY DEF Acquire
<1> HIDE DEF q
<1>2. /\ IsWeb(v) /\ v.store = w.store /\ v.tasks = w.tasks /\ v.calls = w.calls
      /\ v.zombies = w.zombies /\ v.runtime = w.runtime /\ v.expiry = w.expiry
  BY DEF Runs, IsWeb
<1> HIDE DEF v
<1>3. Runs(v, t)
  BY <1>2 DEF Runs
<1>4. \A x : Pc(v, x) = Pc(w, x)
  BY <1>2 DEF Pc
<1>5. Places(v, t) /\ Asked(v, t) /\ Covered(v, t, p) /\ Alone(v, t)
  <2>1. Asked(v, t)
    BY <1>2, <1>4 DEF Asked, Request
  <2> QED
    BY <1>2, <1>4, <2>1 DEF Places, Covered, Alone
<1>6. CASE Kind(t) = "end"
  <2>1. EndingBy(v, t, p)
    BY <1>2, <1>5, <1>6 DEF EndingBy, ActiveId
  <2> QED
    BY <1>1, <1>3, <1>6, <2>1, EndUnderLockQuiet DEF Locked
<1>7. CASE Kind(t) # "end"
  <2> DEFINE m == BeginActiveEnd(v.store, Reason(t))
             u == [v EXCEPT !.store = m]
  <2>1. ActiveIs(v.store, "active") /\ ActiveId(v) # NoSession /\ ActiveId(v) = Subject(t)
    BY <1>2, <1>7 DEF ActiveIs, ActiveId
  <2>2. Reason(t) \in SessionEndReason
    BY <1>7 DEF Reason, LockKinds, SessionEndReason, TimeLimit
  <2>3. StoreOK(m) /\ Forward(v.store, m) /\ ActiveIs(m, "ending")
    BY <1>3, <2>1, <2>2, BeginActiveEndOK DEF Runs, ActiveId
  <2>4. m.active = v.store.active
    <3>1. m = BeginEnd(v.store, Reason(t))
      BY <2>1 DEF BeginActiveEnd, ActiveIs
    <3> QED
      BY <1>3, <2>1, <2>2, <3>1, BeginEndOK DEF Runs, ActiveId
  <2>5. Locked(v, t) = EndUnderLock(u, t, Subject(t))
    BY <1>7, <2>1 DEF Locked
  <2> HIDE DEF m
  <2>6. MayDrop(m)
    BY <2>3 DEF MayDrop
  <2>7. /\ Runs(u, t) /\ u.store = m
        /\ Places(u, t) /\ Asked(u, t) /\ Covered(u, t, p) /\ Alone(u, t)
    BY <1>3, <1>5, <2>3, <2>4, <2>6, StoreAlone
  <2> HIDE DEF u
  <2>8. EndingBy(u, t, p)
    BY <2>1, <2>3, <2>4, <2>7 DEF EndingBy, ActiveId
  <2> QED
    BY <1>1, <2>5, <2>7, <2>8, EndUnderLockQuiet
<1> QED
  BY <1>6, <1>7

\* The board has been reset, and the next session gets it.
LEMMA EndedQuiet ==
    ASSUME NEW w, NEW t, NEW a, NEW p, Ready(now, w, t), EndingBy(w, t, p),
           w.runtime = NoSession, w.calls = << >>, Will(w, a, NoSession, NoSession)
    PROVE  Quiet(Ended(w, t), NoTask, a, p)
<1> DEFINE s == ActiveId(w)
           m == FinishActive(w.store)
           f == [w EXCEPT !.store = m]
           c == [f.counts EXCEPT ![s] = 0]
           h == [f EXCEPT !.counts = c]
           d == CancelDisconnect(h, t, s)
           v == IF Kind(t) = "end" \/ s = NoSession THEN f ELSE d
           r == Release(v)
<1>1. Ended(w, t) = TryStartNext(r, t)
  BY DEF Ended
<1>2. Runs(w, t) /\ StoreOK(w.store)
  BY DEF Ready, Runs
<1>3. StoreOK(m) /\ Forward(w.store, m) /\ m.active = NoSession
  BY <1>2, FinishOK
<1>4. s \in SessionIds /\ Subject(t) = s
  BY TaskFacts, <1>2 DEF EndingBy, LockKinds, Runs
<1>5. Good(now, f, t)
  BY FinishGood
<1>6. Past(m, t)
  <2>1. StatusOf(w.store, s) \in Ending
    BY DEF EndingBy, ActiveIs, ActiveId, Ending
  <2> QED
    BY <1>3, <1>4, <2>1, StoreFacts, <1>2 DEF Past, Forward, StoreOK
<1> HIDE DEF m
<1>7. \A i \in 1..Len(w.calls) : w.calls[i].by = NoTask => MayDrop(m)
  BY DEF EndingBy
<1>8. /\ Runs(f, t) /\ f.store = m /\ f.calls = w.calls /\ f.runtime = NoSession
      /\ Places(f, t) /\ Asked(f, t) /\ Covered(f, t, p) /\ Alone(f, t)
      /\ Will(f, a, NoSession, NoSession)
  BY <1>2, <1>3, <1>7, StoreAlone DEF EndingBy
<1> HIDE DEF f, s
<1>9. Calm(f, t, a, p)
  BY <1>3, <1>8, AloneCleared DEF Calm, ActiveIs
<1> HIDE DEF c
<1>10. /\ IsWeb(h) /\ h.store = f.store /\ h.tasks = f.tasks /\ h.calls = f.calls
       /\ h.zombies = f.zombies /\ h.runtime = f.runtime /\ h.expiry = f.expiry
  BY <1>8 DEF Runs, IsWeb
<1> HIDE DEF h
<1>11. Calm(h, t, a, p) /\ Alone(h, t) /\ Runs(h, t)
  BY <1>8, <1>9, <1>10, SameCalm DEF Runs
<1>12. Ready(now, h, t) /\ Timed(h, t)
  BY <1>5, <1>10, SameReady DEF Good
<1>13. Good(now, d, t)
  BY <1>4, <1>12, CancelDisconnectReady DEF Good
<1>14. ASSUME Disconnector(s) # t PROVE Pc(h, Disconnector(s)) \notin OnDuty \cup {"failreset"}
  <2> DEFINE x == Disconnector(s)
  <2>1. x \in Tasks /\ Kind(x) \in LockKinds /\ Subject(x) = s
    BY <1>4, TaskFacts DEF LockKinds
  <2>2. Place(w.store, x, w.tasks[x]) /\ ~Past(w.store, x)
    BY <1>14, <2>1 DEF EndingBy, Places, Past, s, ActiveId
  <2>3. Pc(w, x) # "failreset" /\ Pc(w, x) \notin OnDuty
    BY <1>14, <2>1, <2>2 DEF Place, Pc, EndingBy, Alone
  <2>4. h.tasks = w.tasks
    BY <1>2, <1>10 DEF f, Runs, IsWeb
  <2> QED
    BY <2>3, <2>4 DEF Pc
<1>15. Calm(d, t, a, p) /\ Alone(d, t) /\ d.store = h.store /\ d.runtime = h.runtime
  BY <1>4, <1>11, <1>14, CancelDisconnectCalm
<1> HIDE DEF d
<1>16. Calm(v, t, a, p) /\ v.store = m /\ v.runtime = NoSession /\ Good(now, v, t)
  BY <1>5, <1>8, <1>9, <1>10, <1>13, <1>15
<1> HIDE DEF v
<1>17. Good(now, r, t)
  BY <1>16, ReleaseReady DEF Good
<1>18. Calm(r, t, a, p) /\ r.store = m /\ r.runtime = NoSession
  <2> DEFINE l == Tail(v.flow)
             z == [v EXCEPT !.flow = l]
  <2>1. r = z
    BY DEF Release
  <2> HIDE DEF l, r
  <2>2. /\ z.store = v.store /\ z.tasks = v.tasks /\ z.calls = v.calls
        /\ z.zombies = v.zombies /\ z.runtime = v.runtime /\ z.expiry = v.expiry
    BY <1>16 DEF Good, Ready, Runs, IsWeb
  <2> HIDE DEF z
  <2> QED
    BY <1>16, <2>1, <2>2, SameCalm
<1> HIDE DEF r
<1>19. Current(r, p)
  BY <1>3, <1>18 DEF Current, ActiveIs
<1>20. Quiet(r, t, a, p)
  BY <1>18, <1>19, QuietIsCalm
<1> QED
  BY <1>1, <1>6, <1>17, <1>18, <1>20, TryStartNextQuiet

-----------------------------------------------------------------------------
(* The steps of the Web API *)

\* The agent is up and has nothing to complain of, and has told nothing else.
Alive(a) == a \in AgentType /\ a.up /\ ~a.comm /\ ~a.heat /\ a.mode = "demo"

Mild == {v \in View : v.status \in {"idle", "running"} /\ v.mode = "demo"}

DemosApart ==
    /\ TimersSet
    /\ Quiet(web, NoTask, agent, procs)
    /\ Alive(agent) /\ events \in Seq(Mild)

\* A task resumes that has nothing asked that is not answered.
LEMMA ResumesQuiet ==
    ASSUME NEW w, NEW a, NEW p, Quiet(w, NoTask, a, p), NEW t \in Tasks,
           w.tasks[t].run = NoSession, Pc(w, t) \notin Calling \/ w.tasks[t].call # "out"
    PROVE  /\ Quiet(w, t, a, p)
           /\ Pc(w, t) \in OnDuty => Alone(w, t)
           /\ Place(w.store, t, w.tasks[t]) /\ Progress(w, a, t)
<1>1. t # NoTask
  BY TaskFacts
<1>2. Place(w.store, t, w.tasks[t]) /\ Progress(w, a, t)
  BY <1>1 DEF Quiet, Places, Cleared
<1>3. Places(w, t)
  BY TaskFacts DEF Quiet, Places
<1>4. Pc(w, t) \in OnDuty => Alone(w, t)
  BY TaskFacts DEF Quiet, Places, Alone
<1>5. Asked(w, t)
  <2>1. ASSUME NEW i \in 1..Len(w.calls) PROVE Request(w, t, i)
    <3>1. Request(w, NoTask, i)
      BY DEF Quiet, Asked
    <3>2. w.calls[i].by # t
      BY <1>1, <3>1 DEF Request
    <3> QED
      BY <3>1, <3>2 DEF Request
  <2> QED
    BY <2>1, TaskFacts DEF Quiet, Asked
<1>6. Cleared(w, t, a)
  BY TaskFacts DEF Quiet, Cleared
<1>7. Covered(w, t, p)
  BY DEF Quiet, Covered
<1> QED
  BY <1>2, <1>3, <1>4, <1>5, <1>6, <1>7 DEF Quiet

\* A task that is neither on duty nor waits for a reset.
LEMMA IdleFacts ==
    ASSUME NEW w, NEW a, NEW p, Quiet(w, NoTask, a, p), NEW t \in Tasks,
           Pc(w, t) \notin OnDuty \cup {"failreset"}
    PROVE  Quiet(w, t, a, p)
<1>1. w.tasks[t].run = NoSession /\ Pc(w, t) \notin Calling
  BY TaskFacts DEF Quiet, Places, Place, Pc, Calling, OnDuty, AtWork, AtEnding
<1> QED
  BY <1>1, ResumesQuiet

LEMMA RunsInStep == ASSUME TimersSet PROVE \A t \in Tasks : Runs(web, t)
BY Resuming

\* Nobody has the flow lock of an active session.
LEMMA FreeFlow ==
    ASSUME DemosApart, ActiveIs(web.store, "active")
    PROVE  web.flow = << >>
<1>1. web.flow \in Seq(Tasks) /\ Len(web.flow) \in Nat
      /\ \A t \in Tasks : Contains(web.flow, t) => Pc(web, t) \in InFlow
  BY TaskFacts DEF DemosApart, TimersSet, LockOrder, Order
<1>2. \A t \in Tasks : Pc(web, t) \notin InFlow
  BY TaskFacts DEF DemosApart, Quiet, Places, Place, InFlow, Pc, AtWork, AtEnding, OnDuty, ActiveIs
<1>3. ASSUME web.flow # << >> PROVE FALSE
  <2>1. 1 \in 1..Len(web.flow) /\ web.flow[1] \in Tasks
    BY <1>1, <1>3, EmptySeq
  <2>2. Contains(web.flow, web.flow[1])
    BY <2>1 DEF Contains
  <2> QED
    BY <1>1, <1>2, <2>1, <2>2
<1> QED
  BY <1>3

\* A session comes to its connection: its disconnect timer has nothing to do.
LEMMA DisconnectIdle ==
    ASSUME NEW w, NEW a, NEW p, Quiet(w, NoTask, a, p), NEW s \in SessionIds,
           StatusOf(w.store, s) = "active", StoreOK(w.store)
    PROVE  Pc(w, Disconnector(s)) \notin OnDuty \cup {"failreset"}
<1> DEFINE x == Disconnector(s)
<1>1. x \in Tasks /\ Kind(x) \in LockKinds /\ Subject(x) = s /\ x # NoTask
  BY TaskFacts DEF LockKinds
<1>2. ActiveIs(w.store, "active")
  BY StoreFacts DEF StoreOK, OnBoard, ActiveIs
<1>3. Alone(w, NoTask)
  BY <1>2, ActiveAlone DEF Quiet
<1>4. Place(w.store, x, w.tasks[x])
  BY <1>1 DEF Quiet, Places
<1>5. Pc(w, x) # "failreset"
  BY <1>1, <1>4 DEF Place, Past, Pc, Ending
<1> QED
  BY <1>1, <1>3, <1>5 DEF Alone

LEMMA CreateQuiet ==
    ASSUME DemosApart, NEW u \in Users, NEW d \in Demos, CreateSession(u, d)
    PROVE  Quiet(web', NoTask, agent, procs)
<1> DEFINE t == Creator(web.store.count + 1)
           a == ActiveId(web)
           m == Create(web.store, u, d, now)
           v == [web EXCEPT !.store = m]
           limited == a # NoSession /\ v.store.ses[a].expires # web.store.ses[a].expires
           c == ScheduleExpiry(v, t, a)
           timed == IF limited THEN c ELSE v
<1>1. /\ web' = TryStartNext(timed, t) /\ web.store.count + 1 \in SessionIds
      /\ Good(now, timed, t)
  BY CreateGood DEF DemosApart
<1>2. CanCreate(web.store, u) /\ StoreOK(web.store) /\ now \in Nat
  BY DEF CreateSession, DemosApart, TimersSet, LockOrder, Order
<1>3. StoreOK(m) /\ Forward(web.store, m) /\ SameOwner(web.store, m)
  BY <1>2, CreateOK
<1>4. t \in Tasks /\ Kind(t) = "create" /\ Subject(t) = web.store.count + 1
  BY <1>1, TaskFacts
<1>5. Pc(web, t) = "done"
  <2>1. web.store.count \in Nat /\ StatusOf(web.store, web.store.count + 1) = "unused"
    BY <1>1, <1>2, StoreFacts, BoundAssumption DEF StoreOK
  <2>2. ~Known(web, t)
    BY <1>4, <2>1 DEF Known
  <2> QED
    BY <1>4, <2>2, TaskFacts DEF DemosApart, TimersSet, LockOrder, Order, Tame
<1>6. Quiet(web, t, agent, procs)
  BY <1>4, <1>5, IdleFacts DEF DemosApart, OnDuty, AtWork, AtEnding
<1>7. Runs(web, t)
  BY <1>4, RunsInStep DEF DemosApart
<1> HIDE DEF m, t
<1>8. Quiet(v, t, agent, procs) /\ Runs(v, t) /\ v.store = m
  BY <1>3, <1>6, <1>7, StoreKept
<1> HIDE DEF v
<1>9. ASSUME limited PROVE Quiet(c, t, agent, procs)
  <2>1. ActiveIs(v.store, "active") /\ v.store.active = a
    BY <1>3, <1>8, <1>9 DEF SameOwner, ActiveIs, ActiveId
  <2>2. Timed(ScheduleExpiry(v, t, v.store.active), t)
    BY <1>1, <1>9, <2>1 DEF Good
  <2>3. t \in {t, NoTask}
    OBVIOUS
  <2>4. Calm(c, t, agent, procs) /\ c.store = v.store /\ c.runtime = v.runtime
    BY <1>8, <2>1, <2>2, <2>3, ScheduleExpiryCalm, QuietIsCalm
  <2> HIDE DEF c
  <2> QED
    BY <1>8, <2>4, QuietIsCalm DEF Current, ActiveId
<1>10. Quiet(timed, t, agent, procs)
  BY <1>8, <1>9
<1> HIDE DEF timed
<1>11. Past(timed.store, t)
  BY <1>4 DEF Past, LockKinds
<1> QED
  BY <1>1, <1>10, <1>11, TryStartNextQuiet

LEMMA CancelQuiet ==
    ASSUME DemosApart, NEW u \in Users, NEW s \in SessionIds, CancelSession(u, s)
    PROVE  Quiet(web', NoTask, agent, procs)
<1> DEFINE t == Ender(s)
           a == ActiveId(web)
           m == Cancel(web.store, s)
           v == [web EXCEPT !.store = m]
           lifted == a # NoSession /\ v.store.ses[a].expires # web.store.ses[a].expires
           c == ScheduleExpiry(v, t, a)
<1>1. CanCancel(web.store, u, s) /\ web' = (IF lifted THEN c ELSE v)
  BY DEF CancelSession
<1>2. Good(now, web', t)
  BY CancelGood DEF DemosApart
<1>3. StoreOK(web.store)
  BY DEF DemosApart, TimersSet, LockOrder, Order
<1>4. StoreOK(m) /\ Forward(web.store, m) /\ SameOwner(web.store, m)
  BY <1>1, <1>3, CancelOK
<1>5. Runs(web, t)
  BY TaskFacts, RunsInStep DEF DemosApart
<1> HIDE DEF m, t
<1>6. Quiet(v, NoTask, agent, procs) /\ Runs(v, t) /\ v.store = m
  BY <1>4, <1>5, StoreKept DEF DemosApart
<1> HIDE DEF v
<1>7. ASSUME lifted PROVE Quiet(c, NoTask, agent, procs)
  <2>1. ActiveIs(v.store, "active") /\ v.store.active = a
    BY <1>4, <1>6, <1>7 DEF SameOwner, ActiveIs, ActiveId
  <2>2. Timed(ScheduleExpiry(v, t, v.store.active), t)
    BY <1>1, <1>2, <1>7, <2>1 DEF Good
  <2>3. NoTask \in {t, NoTask}
    OBVIOUS
  <2>4. Calm(c, NoTask, agent, procs) /\ c.store = v.store /\ c.runtime = v.runtime
    BY <1>6, <2>1, <2>2, <2>3, ScheduleExpiryCalm, QuietIsCalm
  <2> HIDE DEF c
  <2> QED
    BY <1>6, <2>4, QuietIsCalm DEF Current, ActiveId
<1> QED
  BY <1>1, <1>6, <1>7

\* Only an active session is ended by its user: nobody ends one that starts.
LEMMA EndQuiet ==
    ASSUME DemosApart, Troubles \subseteq FailedStarts,
           NEW u \in Users, NEW s \in SessionIds, EndSession(u, s)
    PROVE  Quiet(web', NoTask, agent, procs)
<1> DEFINE t == Ender(s)
           m == BeginEnd(web.store, "user_ended")
           v == [web EXCEPT !.store = m]
           c == CancelExpiry(v, t)
<1>1. CanEndOnBoard(web.store, u, s) /\ web' = Acquire(c, t)
  BY DEF EndSession
<1>2. StatusOf(web.store, s) = "active"
  <2>1. StatusOf(web.store, s) # "starting"
    BY DEF EndSession, May, FailedStarts
  <2> QED
    BY <1>1, <2>1 DEF CanEndOnBoard
<1>3. ActiveIs(web.store, "active") /\ web.store.active = s /\ s # NoSession
  BY <1>1, <1>2 DEF CanEndOnBoard, IsActive, ActiveIs
<1>4. t \in Tasks /\ Kind(t) = "end" /\ Subject(t) = s
  BY TaskFacts
<1>5. Runs(web, t) /\ StoreOK(web.store)
  BY <1>4, RunsInStep DEF DemosApart, Runs
<1>6. web.flow = << >>
  BY <1>3, FreeFlow
<1>7. Quiet(web, t, agent, procs) /\ Alone(web, t)
  <2>1. Alone(web, NoTask)
    BY <1>3, ActiveAlone DEF DemosApart, Quiet
  <2>2. Place(web.store, t, web.tasks[t])
    BY <1>4, TaskFacts DEF DemosApart, Quiet, Places
  <2>3. Pc(web, t) # "failreset"
    BY <1>2, <1>4, <2>2 DEF Place, Past, Pc, LockKinds, Ending
  <2>4. Quiet(web, t, agent, procs)
    BY <1>4, <2>1, <2>3, TaskFacts, IdleFacts DEF DemosApart, Alone
  <2> QED
    BY <2>1, <2>4, TaskFacts DEF Alone
<1>8. /\ StoreOK(m) /\ Forward(web.store, m) /\ StatusOf(m, web.store.active) = "ending"
      /\ m.active = web.store.active
  BY <1>3, <1>5, BeginEndOK DEF SessionEndReason
<1>9. ActiveIs(m, "ending") /\ MayDrop(m)
  BY <1>3, <1>8 DEF ActiveIs, MayDrop
<1> HIDE DEF m, t
<1>10. /\ Runs(v, t) /\ v.store = m /\ v.flow = web.flow
       /\ Places(v, t) /\ Asked(v, t) /\ Covered(v, t, procs) /\ Alone(v, t)
  BY <1>5, <1>7, <1>8, <1>9, StoreAlone DEF Quiet
<1> HIDE DEF v
<1>11. Calm(v, t, agent, procs) /\ Owned(v.store)
  <2>1. Cleared(v, t, agent)
    BY <1>3, <1>8, <1>9, <1>10, AloneCleared DEF ActiveIs, ActiveId
  <2> QED
    BY <1>9, <1>10, <2>1 DEF Calm, Owned
<1>12. Calm(c, t, agent, procs) /\ Alone(c, t) /\ c.store = m
  BY <1>10, <1>11, CancelExpiryCalm
<1>13. Runs(c, t)
  BY <1>10, CancelExpiryRuns
<1>14. c.flow = << >>
  <2> DEFINE f == [v EXCEPT !.expiry = NoTask]
  <2>1. c \in {f, CancelTask(f, v.expiry)}
    BY DEF CancelExpiry
  <2> HIDE DEF c
  <2>2. IsWeb(f) /\ f.flow = << >>
    BY <1>6, <1>10 DEF Runs, IsWeb
  <2> HIDE DEF f
  <2>3. LeaveLock(<< >>, v.expiry) = << >>
    BY DEF LeaveLock, Contains
  <2> QED
    BY <2>1, <2>2, <2>3, CancelFields
<1> HIDE DEF c
<1> QED
  BY <1>1, <1>3, <1>4, <1>8, <1>9, <1>12, <1>13, <1>14, AcquireQuiet DEF LockKinds, ActiveId, Calm

LEMMA OpenQuiet ==
    ASSUME DemosApart, NEW s \in SessionIds, OpenConnection(s)
    PROVE  Quiet(web', NoTask, agent, procs)
<1> DEFINE c == CancelDisconnect(web, NoTask, s)
           n == [c.counts EXCEPT ![s] = @ + 1]
           v == [c EXCEPT !.counts = n]
<1>1. StatusOf(web.store, s) = "active" /\ web' = v
  BY DEF OpenConnection
<1>2. Runs(web, Watch) /\ StoreOK(web.store)
  BY TaskFacts, RunsInStep DEF DemosApart, Runs
<1>3. Pc(web, Disconnector(s)) \notin OnDuty \cup {"failreset"}
  BY <1>1, <1>2, DisconnectIdle DEF DemosApart
<1>4. Calm(c, NoTask, agent, procs) /\ c.store = web.store /\ c.runtime = web.runtime
  BY <1>2, <1>3, CancelDisconnectCalm, QuietIsCalm DEF DemosApart
<1>5. Runs(c, Watch)
  BY <1>2, CancelDisconnectRuns
<1>6. Current(c, procs)
  BY <1>4 DEF DemosApart, Quiet, Current, ActiveId
<1> HIDE DEF c, n
<1>7. /\ v.store = c.store /\ v.tasks = c.tasks /\ v.calls = c.calls
      /\ v.zombies = c.zombies /\ v.runtime = c.runtime /\ v.expiry = c.expiry
  BY <1>5 DEF Runs, IsWeb
<1> HIDE DEF v
<1>8. Quiet(v, NoTask, agent, procs)
  BY <1>4, <1>6, <1>7, SameCalm, QuietIsCalm
<1> QED
  BY <1>1, <1>8

LEMMA CloseQuiet ==
    ASSUME DemosApart, NEW s \in SessionIds, CloseConnection(s)
    PROVE  Quiet(web', NoTask, agent, procs)
<1> DEFINE left == IF web.counts[s] > 0 THEN web.counts[s] - 1 ELSE 0
           n == [web.counts EXCEPT ![s] = left]
           w == [web EXCEPT !.counts = n]
           x == Disconnector(s)
           k == Suspended("sleep", s)
           c == CancelDisconnect(w, NoTask, s)
           l == c.disc \cup {s}
           d == Put(c.tasks, x, k)
           e == [c EXCEPT !.disc = l]
           v == [e EXCEPT !.tasks = d]
<1>1. web' = IF left = 0 /\ StatusOf(web.store, s) = "active" THEN ScheduleDisconnect(w, s) ELSE w
  BY DEF CloseConnection
<1>2. Runs(web, Watch) /\ StoreOK(web.store)
  BY TaskFacts, RunsInStep DEF DemosApart, Runs
<1> HIDE DEF left, n
<1>3. /\ IsWeb(w) /\ w.store = web.store /\ w.tasks = web.tasks /\ w.calls = web.calls
      /\ w.zombies = web.zombies /\ w.runtime = web.runtime /\ w.expiry = web.expiry
  BY <1>2 DEF Runs, IsWeb
<1> HIDE DEF w
<1>4. Calm(w, NoTask, agent, procs) /\ Current(w, procs) /\ Runs(w, Watch)
  BY <1>2, <1>3, SameCalm, QuietIsCalm DEF DemosApart, Runs
<1>5. Quiet(w, NoTask, agent, procs)
  BY <1>4, QuietIsCalm
<1>6. ASSUME StatusOf(web.store, s) = "active"
      PROVE  Quiet(ScheduleDisconnect(w, s), NoTask, agent, procs)
  <2>1. Pc(w, x) \notin OnDuty \cup {"failreset"}
    BY <1>2, <1>3, <1>5, <1>6, DisconnectIdle
  <2>2. /\ Calm(c, NoTask, agent, procs) /\ c.store = w.store /\ c.runtime = w.runtime
        /\ c.expiry = w.expiry /\ \A t \in Tasks : Pc(c, t) \in {Pc(w, t), "done"}
    BY <1>4, <2>1, CancelDisconnectCalm
  <2>3. Runs(c, Watch)
    BY <1>4, CancelDisconnectRuns
  <2>4. ScheduleDisconnect(w, s) = [c EXCEPT !.disc = @ \cup {s}, !.tasks[x] = k]
    BY DEF ScheduleDisconnect
  <2>5. x \in Tasks /\ x # NoTask
    BY TaskFacts
  <2>6. Pc(c, x) \notin OnDuty \cup {"failreset"}
    BY <2>1, <2>2, <2>5 DEF OnDuty, AtWork, AtEnding
  <2> HIDE DEF c, x
  <2>7. [c EXCEPT !.disc = @ \cup {s}, !.tasks[x] = k] = v
    BY <2>3 DEF Put, Runs, IsWeb
  <2> HIDE DEF l, d
  <2>8. /\ IsWeb(e) /\ e.store = c.store /\ e.runtime = c.runtime /\ e.zombies = c.zombies
        /\ e.calls = c.calls /\ e.expiry = c.expiry
    BY <2>3 DEF Runs, IsWeb
  <2> HIDE DEF e
  <2>9. /\ v.store = c.store /\ v.runtime = c.runtime /\ v.zombies = c.zombies
        /\ v.calls = c.calls /\ v.expiry = c.expiry /\ v.tasks = Put(c.tasks, x, Suspended("sleep", s))
    BY <2>8 DEF IsWeb, d
  <2> HIDE DEF v
  <2>10. v.expiry # NoTask => v.expiry \in Tasks /\ Kind(v.expiry) = "expiry"
    BY <2>2, <2>9 DEF Calm, Places
  <2>11. Calm(v, NoTask, agent, procs)
    BY <2>2, <2>3, <2>5, <2>6, <2>9, <2>10, SleepCalm
  <2>12. Current(v, procs)
    BY <1>4, <2>2, <2>9 DEF Current, ActiveId
  <2> QED
    BY <2>4, <2>7, <2>11, <2>12, QuietIsCalm
<1> QED
  BY <1>1, <1>5, <1>6

\* A sleeping task goes back to where everybody rests.
LEMMA AtDoneQuiet ==
    ASSUME NEW w, NEW t, NEW a, NEW p, Runs(w, t), Quiet(w, t, a, p)
    PROVE  Quiet(At(w, t, Done), NoTask, a, p)
<1> DEFINE k == Done
           v == At(w, t, k)
<1>1. Place(w.store, t, k) /\ k.pc = "done"
  BY RestPlace
<1> HIDE DEF k
<1>2. /\ v.store = w.store /\ v.tasks = Put(w.tasks, t, k) /\ v.calls = w.calls
      /\ v.expiry = w.expiry /\ v.zombies = w.zombies /\ v.runtime = w.runtime
  BY AtFields, AtParts DEF Runs
<1> HIDE DEF v
<1>3. Quiet(v, NoTask, a, p)
  BY <1>1, <1>2, SuspendQuiet DEF OnDuty, AtWork, AtEnding
<1> QED
  BY <1>3 DEF v, k

\* A timer of the active session ends it.
LEMMA TimerEnds ==
    ASSUME DemosApart, NEW t \in Tasks, Pc(web, t) = "sleep", Kind(t) \in {"expiry", "disconnect"},
           ActiveId(web) = Subject(t), ActiveIs(web.store, "active")
    PROVE  Quiet(Acquire(web, t), NoTask, agent, procs)
<1>1. Quiet(web, t, agent, procs)
  BY IdleFacts DEF DemosApart, OnDuty, AtWork, AtEnding
<1>2. Runs(web, t) /\ web.flow = << >> /\ Alone(web, t)
  BY <1>1, RunsInStep, FreeFlow, ActiveAlone DEF DemosApart, Quiet
<1>3. Kind(t) \in LockKinds /\ Kind(t) # "end"
  BY DEF LockKinds
<1> QED
  BY <1>1, <1>2, <1>3, AcquireQuiet DEF Quiet

LEMMA ExpiryQuiet ==
    ASSUME DemosApart, NEW s \in SessionIds, NEW due \in Deadlines, ExpiryFires(s, due)
    PROVE  Quiet(web', NoTask, agent, procs)
<1> DEFINE t == Expirer(s, due)
<1>1. t \in Tasks /\ Kind(t) = "expiry" /\ Subject(t) = s
  BY TaskFacts DEF Tasks
<1>2. Pc(web, t) = "sleep"
  BY DEF ExpiryFires
<1>3. Quiet(web, t, agent, procs) /\ Runs(web, t)
  BY <1>1, <1>2, RunsInStep, IdleFacts DEF DemosApart, OnDuty, AtWork, AtEnding
<1>4. \/ ActiveId(web) = s /\ ActiveIs(web.store, "active") /\ web' = Acquire(web, t)
      \/ web' = At(web, t, Done)
  BY DEF ExpiryFires
<1> HIDE DEF t
<1> QED
  BY <1>1, <1>2, <1>3, <1>4, TimerEnds, AtDoneQuiet

LEMMA DisconnectQuiet ==
    ASSUME DemosApart, NEW s \in SessionIds, DisconnectFires(s)
    PROVE  Quiet(web', NoTask, agent, procs)
<1> DEFINE t == Disconnector(s)
<1>1. t \in Tasks /\ Kind(t) = "disconnect" /\ Subject(t) = s
  BY TaskFacts
<1>2. Pc(web, t) = "sleep"
  BY DEF DisconnectFires
<1>3. Quiet(web, t, agent, procs) /\ Runs(web, t)
  BY <1>1, <1>2, RunsInStep, IdleFacts DEF DemosApart, OnDuty, AtWork, AtEnding
<1>4. \/ ActiveId(web) = s /\ ActiveIs(web.store, "active") /\ web' = Acquire(web, t)
      \/ web' = Return(web, t)
  BY DEF DisconnectFires
<1> HIDE DEF t
<1> QED
  BY <1>1, <1>2, <1>3, <1>4, TimerEnds, ReturnQuiet

\* The agent tells of an idle or a running board only.
LEMMA WatchQuiet ==
    ASSUME DemosApart, WatchEvent
    PROVE  Quiet(web', NoTask, agent, procs)
<1> DEFINE view == Head(events)
           seen == [web EXCEPT !.fpga = view]
<1>1. view \in Mild
  BY DEF WatchEvent, DemosApart
<1>2. web' \in {TryStartNext(seen, Watch), seen}
  BY <1>1 DEF WatchEvent, HandleBoardState, Mild
<1> HIDE DEF view
<1>3. Pc(web, Watch) = "idle" /\ Watch \in Tasks /\ Kind(Watch) = "watch"
  BY TaskFacts DEF WatchEvent
<1>4. Quiet(web, Watch, agent, procs) /\ Good(now, web, Watch)
  BY <1>3, Resuming, IdleFacts DEF DemosApart, OnDuty, AtWork, AtEnding
<1>5. /\ IsWeb(seen) /\ seen.store = web.store /\ seen.tasks = web.tasks /\ seen.calls = web.calls
      /\ seen.zombies = web.zombies /\ seen.runtime = web.runtime /\ seen.expiry = web.expiry
  BY <1>4 DEF Good, Ready, Runs, IsWeb
<1> HIDE DEF seen
<1>6. /\ Quiet(seen, Watch, agent, procs) /\ Quiet(seen, NoTask, agent, procs)
  BY <1>4, <1>5, SameCalm, QuietIsCalm DEF DemosApart
<1>7. Good(now, seen, Watch)
  BY <1>4, <1>5, SameReady DEF Good
<1>8. Past(seen.store, Watch)
  BY <1>3 DEF Past, LockKinds
<1> QED
  BY <1>2, <1>6, <1>7, <1>8, TryStartNextQuiet

\* A task at the start of a session: the session owns the board, without a
\* demo process as yet.
LEMMA WorkFacts ==
    ASSUME NEW w, NEW t, NEW a, NEW p, Quiet(w, t, a, p), Alone(w, t),
           Place(w.store, t, w.tasks[t]), Pc(w, t) \in AtWork
    PROVE  /\ Starting(w, t, p, w.tasks[t].ses) /\ w.tasks[t].ses = ActiveId(w)
           /\ w.runtime = NoSession
BY DEF Quiet, Current, Starting, Place, Pc, ActiveId, ActiveIs

LEMMA AnsweredQuiet ==
    ASSUME DemosApart, NEW t \in Tasks, Answered(t)
    PROVE  Quiet(web', NoTask, agent, procs)
<1> DEFINE task == web.tasks[t]
           s == task.ses
           ok == task.call = "ok"
<1>1. /\ Pc(web, t) \in Calling /\ task.call \in {"ok", "error"} /\ Pc(web, t) = task.pc
      /\ task.pc = "pl" /\ ok => web' = ProgramPS(web, t, s)
      /\ task.pc = "ps" /\ ok => web' = Programmed(web, t, s)
      /\ task.pc \in {"pl", "ps"} /\ ~ok => web' = StartError(web, t, s)
      /\ task.pc = "failreset" =>
            web' = TryStartNext(IF ok THEN [web EXCEPT !.fpga = task.ans] ELSE web, t)
      /\ task.pc = "reset" => web' = Ended(web, t)
  <2>1. Pc(web, t) \in Calling /\ task.call \in {"ok", "error"} /\ Pc(web, t) = task.pc
    BY DEF Answered, Pc
  <2>2. web' = CASE task.pc = "pl" /\ ok    -> ProgramPS(web, t, s)
                 [] task.pc = "ps" /\ ok    -> Programmed(web, t, s)
                 [] task.pc \in {"pl", "ps"} /\ ~ok -> StartError(web, t, s)
                 [] task.pc = "failreset"   ->
                      TryStartNext(IF ok THEN [web EXCEPT !.fpga = task.ans] ELSE web, t)
                 [] task.pc = "reset"       -> Ended(web, t)
                 [] task.pc = "reservedreset" -> ProblemEnded(web)
    BY DEF Answered
  <2> HIDE DEF task, s, ok
  <2>3. task.pc = "pl" /\ ok => web' = ProgramPS(web, t, s)
    BY <2>2
  <2>4. task.pc = "ps" /\ ok => web' = Programmed(web, t, s)
    BY <2>2
  <2>5. task.pc \in {"pl", "ps"} /\ ~ok => web' = StartError(web, t, s)
    BY <2>2
  <2>6. task.pc = "failreset" =>
            web' = TryStartNext(IF ok THEN [web EXCEPT !.fpga = task.ans] ELSE web, t)
    BY <2>2
  <2>7. task.pc = "reset" => web' = Ended(web, t)
    BY <2>2
  <2> QED
    BY <2>1, <2>3, <2>4, <2>5, <2>6, <2>7 DEF task, s, ok
<1>2. Quiet(web, NoTask, agent, procs)
  BY DEF DemosApart
<1>3. Place(web.store, t, web.tasks[t])
  BY <1>2, TaskFacts DEF Quiet, Places
<1>4. task.pc \in {"pl", "ps", "reset", "failreset"} /\ task.run = NoSession
  BY <1>1, <1>3 DEF Place, Calling, OnDuty, AtWork, AtEnding
<1>5. /\ Quiet(web, t, agent, procs) /\ Progress(web, agent, t)
      /\ Pc(web, t) \in OnDuty => Alone(web, t)
  BY <1>1, <1>2, <1>4, ResumesQuiet
<1>6. Runs(web, t) /\ Good(now, web, t)
  BY <1>1, <1>4, Resuming DEF DemosApart
<1>7. CASE task.pc \in {"pl", "ps"}
  <2>1. Starting(web, t, procs, s) /\ web.runtime = NoSession /\ s = ActiveId(web)
    BY <1>1, <1>3, <1>5, <1>7, WorkFacts DEF OnDuty, AtWork
  <2>2. CASE ok /\ task.pc = "pl"
    <3>1. Image(web.store) = s
      BY <1>3, <2>1, <2>2 DEF Place, Image, ActiveId
    <3>2. Will(web, agent, Image(web.store), NoSession)
      BY <1>1, <1>5, <2>1, <2>2, <3>1 DEF Progress
    <3> QED
      BY <1>1, <1>6, <2>1, <2>2, <3>2, ProgramPSQuiet
  <2>3. CASE ok /\ task.pc = "ps"
    <3>1. Elf(web.store) = s
      BY <1>3, <2>1, <2>3 DEF Place, Elf, ActiveId
    <3>2. Will(web, agent, Image(web.store), Elf(web.store))
      BY <1>1, <1>5, <2>1, <2>3, <3>1 DEF Progress
    <3> QED
      BY <1>1, <1>6, <2>1, <2>3, <3>2, ProgrammedQuiet
  <2>4. CASE ~ok
    BY <1>1, <1>6, <1>7, <2>1, <2>4, StartFailedQuiet
  <2> QED
    BY <1>7, <2>2, <2>3, <2>4
<1>8. CASE task.pc = "failreset"
  <2> DEFINE v == [web EXCEPT !.fpga = task.ans]
  <2>1. web' \in {TryStartNext(v, t), TryStartNext(web, t)}
    BY <1>1, <1>8
  <2>2. Past(web.store, t)
    BY <1>3, <1>8 DEF Place
  <2>3. /\ IsWeb(v) /\ v.store = web.store /\ v.tasks = web.tasks /\ v.calls = web.calls
        /\ v.zombies = web.zombies /\ v.runtime = web.runtime /\ v.expiry = web.expiry
    BY <1>6 DEF Runs, IsWeb
  <2> HIDE DEF v
  <2>4. Quiet(v, t, agent, procs)
    BY <1>5, <2>3, SameCalm, QuietIsCalm
  <2>5. Good(now, v, t)
    BY <1>6, <2>3, SameReady DEF Good
  <2> QED
    BY <1>5, <1>6, <2>1, <2>2, <2>3, <2>4, <2>5, TryStartNextQuiet
<1>9. CASE task.pc = "reset"
  <2>1. Alone(web, t) /\ ActiveIs(web.store, "ending")
        /\ Kind(t) \in LockKinds /\ Subject(t) = ActiveId(web)
    BY <1>1, <1>3, <1>5, <1>9 DEF Place, OnDuty, AtEnding, ActiveId
  <2>2. EndingBy(web, t, procs)
    BY <1>5, <2>1 DEF EndingBy, Quiet
  <2>3. web.runtime = NoSession
    BY <1>5, <2>1 DEF Quiet, Current, ActiveIs
  <2>4. web.calls = << >>
    BY <1>1, <1>2, <1>9, TaskFacts DEF Quiet, Asked
  <2>5. Will(web, agent, NoSession, NoSession)
    BY <1>1, <1>5, <1>9 DEF Progress
  <2>6. Ready(now, web, t)
    BY <1>6 DEF Good
  <2> QED
    BY <1>1, <1>9, <2>2, <2>3, <2>4, <2>5, <2>6, EndedQuiet
<1> QED
  BY <1>4, <1>7, <1>8, <1>9

\* The demo process of the session that starts is up.
LEMMA RuntimeUpQuiet ==
    ASSUME DemosApart, NEW t \in Tasks, RuntimeUp(t)
    PROVE  Quiet(web', NoTask, agent, procs')
<1> DEFINE s == web.tasks[t].ses
           v == [web EXCEPT !.runtime = s]
           p == procs \cup {s}
<1>1. Pc(web, t) = "rt" /\ procs' = p /\ web' = Started(v, t, s)
  BY DEF RuntimeUp
<1>2. Quiet(web, NoTask, agent, procs)
  BY DEF DemosApart
<1>3. Place(web.store, t, web.tasks[t])
  BY <1>2, TaskFacts DEF Quiet, Places
<1>4. Pc(web, t) \notin Calling /\ web.tasks[t].run = NoSession
  BY <1>1, <1>3 DEF Place, Pc, Calling
<1>5. /\ Quiet(web, t, agent, procs) /\ Progress(web, agent, t) /\ Alone(web, t)
  BY <1>1, <1>2, <1>4, ResumesQuiet DEF OnDuty, AtWork
<1>6. Runs(web, t) /\ Good(now, web, t)
  BY <1>1, Resuming DEF DemosApart
<1>7. Starting(web, t, procs, s) /\ web.runtime = NoSession /\ s = ActiveId(web)
  BY <1>1, <1>3, <1>5, WorkFacts DEF AtWork
<1>8. s # NoSession /\ ActiveDemo(web.store) \in RuntimeDemos
  BY <1>1, <1>3, <1>7 DEF Place, Pc, ActiveId, ActiveIs, AtWork
<1> HIDE DEF s
<1>9. /\ IsWeb(v) /\ v.store = web.store /\ v.tasks = web.tasks /\ v.calls = web.calls
      /\ v.zombies = web.zombies /\ v.runtime = s /\ v.expiry = web.expiry
  BY <1>6 DEF Runs, IsWeb
<1> HIDE DEF v
<1>10. \A x : Pc(v, x) = Pc(web, x)
  BY <1>9 DEF Pc
<1>11. Starting(v, t, p, s)
  <2>1. Places(v, t) /\ Alone(v, t)
    BY <1>7, <1>9, <1>10 DEF Starting, Places, Alone
  <2>2. Asked(v, t)
    BY <1>7, <1>9, <1>10 DEF Starting, Asked, Request
  <2>3. Covered(v, t, p)
    BY <1>7, <1>8, <1>9 DEF Starting, Covered
  <2> QED
    BY <1>7, <1>9, <2>1, <2>2, <2>3 DEF Starting, ActiveId
<1>12. Up(v, p, s)
  BY <1>8, <1>9 DEF Up
<1>13. ~Bare(v.store) => Will(v, agent, Image(v.store), Elf(v.store))
  BY <1>1, <1>5, <1>9, SameWill DEF Progress
<1>14. Good(now, v, t)
  BY <1>6, <1>9, SameReady DEF Good
<1> HIDE DEF p
<1> QED
  BY <1>1, <1>11, <1>12, <1>13, <1>14, StartedQuiet

LEMMA RuntimeFailsQuiet ==
    ASSUME DemosApart, NEW t \in Tasks, RuntimeFails(t)
    PROVE  Quiet(web', NoTask, agent, procs)
<1>1. Pc(web, t) = "rt" /\ web' = StartError(web, t, web.tasks[t].ses)
  BY DEF RuntimeFails
<1>2. Quiet(web, NoTask, agent, procs)
  BY DEF DemosApart
<1>3. Place(web.store, t, web.tasks[t])
  BY <1>2, TaskFacts DEF Quiet, Places
<1>4. Pc(web, t) \notin Calling /\ web.tasks[t].run = NoSession
  BY <1>1, <1>3 DEF Place, Pc, Calling
<1>5. Quiet(web, t, agent, procs) /\ Alone(web, t)
  BY <1>1, <1>2, <1>4, ResumesQuiet DEF OnDuty, AtWork
<1>6. Starting(web, t, procs, web.tasks[t].ses) /\ web.runtime = NoSession
  BY <1>1, <1>3, <1>5, WorkFacts DEF AtWork
<1>7. Runs(web, t)
  BY RunsInStep DEF DemosApart
<1> QED
  BY <1>1, <1>6, <1>7, StartFailedQuiet

\* The demo process of the session that ends is down.
LEMMA RuntimeDownQuiet ==
    ASSUME DemosApart, NEW t \in Tasks, RuntimeDown(t)
    PROVE  Quiet(web', NoTask, agent, procs')
<1> DEFINE task == web.tasks[t]
           r == task.run
           p == procs \ {r}
<1>1. Pc(web, t) \in Stopping /\ Pc(web, t) = task.pc /\ procs' = p
      /\ (task.pc = "stop" => web' = Send(web, t, "reset", task.ses))
  BY DEF RuntimeDown, Pc
<1>2. Quiet(web, NoTask, agent, procs) /\ t # NoTask
  BY TaskFacts DEF DemosApart
<1>3. Place(web.store, t, web.tasks[t])
  BY <1>2 DEF Quiet, Places
<1>4. /\ task.pc = "stop" /\ task.ses = ActiveId(web) /\ ActiveIs(web.store, "ending")
      /\ Kind(t) \in LockKinds /\ Subject(t) = ActiveId(web)
  BY <1>1, <1>3 DEF Place, Stopping, OnDuty, AtWork, AtEnding, ActiveId
<1>5. Alone(web, t) /\ Places(web, t)
  <2>1. t \in Tasks /\ t # NoTask /\ NoTask \notin Tasks /\ Pc(web, t) \in OnDuty
    BY <1>1, <1>4, TaskFacts DEF OnDuty, AtEnding
  <2>2. Places(web, NoTask)
    BY <1>2 DEF Quiet
  <2> QED
    BY <2>1, <2>2 DEF Places, Alone
<1>6. Asked(web, t)
  <2>1. ASSUME NEW i \in 1..Len(web.calls) PROVE Request(web, t, i)
    <3>1. Request(web, NoTask, i)
      BY <1>2 DEF Quiet, Asked
    <3>2. web.calls[i].by # t
      BY <1>1, <1>2, <1>4, <3>1 DEF Request, Calling
    <3> QED
      BY <3>1, <3>2 DEF Request
  <2> QED
    BY <1>2, <2>1, TaskFacts DEF Quiet, Asked
<1>7. web.runtime = NoSession /\ Current(web, p)
  BY <1>2, <1>4 DEF Quiet, Current, ActiveIs
<1>8. Covered(web, t, p)
  BY <1>2 DEF Quiet, Covered
<1>9. task.ses \in SessionIds
  BY <1>4, TaskFacts DEF LockKinds
<1>10. Place(web.store, t, Suspended("reset", task.ses))
  BY <1>4 DEF Place, Suspended, OnDuty, AtWork, AtEnding, ActiveId
<1>11. /\ "reset" \in {"pl", "ps", "reset", "failreset"} /\ "reset" \notin {"pl", "ps"}
       /\ ~ActiveIs(web.store, "active") /\ Runs(web, t)
  BY <1>4, RunsInStep DEF DemosApart, ActiveIs
<1>12. Quiet(Send(web, t, "reset", task.ses), NoTask, agent, p)
  <2> DEFINE s == task.ses
  <2>1. s \in SessionIds /\ Place(web.store, t, Suspended("reset", s))
    BY <1>9, <1>10
  <2> HIDE DEF s, p
  <2>2. Quiet(Send(web, t, "reset", s), NoTask, agent, p)
    BY <1>5, <1>6, <1>7, <1>8, <1>11, <2>1, SendQuiet
  <2> QED
    BY <2>2 DEF s
<1> QED
  BY <1>1, <1>4, <1>12

-----------------------------------------------------------------------------
(* The steps of the agent *)

LEMMA ToldFacts ==
    ASSUME NEW w, Asked(w, NoTask), NEW i \in 1..Len(w.calls), NEW v, NEW call, Told(w, v, i, call)
    PROVE  /\ v.calls \in Seq(Requests) /\ Len(v.calls) = Len(w.calls) - 1
           /\ \A j \in 1..(Len(w.calls) - 1) : v.calls[j] = IF j < i THEN w.calls[j] ELSE w.calls[j + 1]
           /\ \A x \in Tasks : Pc(v, x) = Pc(w, x)
           /\ ActiveId(v) = ActiveId(w)
<1>1. w.calls \in Seq(Requests)
  BY DEF Asked
<1>2. /\ v.calls = RemoveAt(w.calls, i) /\ ActiveId(v) = ActiveId(w)
      /\ \A x \in Tasks : Pc(v, x) = Pc(w, x)
  BY DEF Told, Pc, ActiveId
<1> QED
  BY <1>1, <1>2, RemoveAtShape

\* The tasks are where they were.
LEMMA ToldPlaces ==
    ASSUME NEW w, NEW a, NEW p, Quiet(w, NoTask, a, p), NEW i \in 1..Len(w.calls), NEW v, NEW call,
           Told(w, v, i, call)
    PROVE  Places(v, NoTask) /\ Current(v, p) /\ Covered(v, NoTask, p)
<1>1. \A x \in Tasks : Pc(v, x) = Pc(w, x)
  BY DEF Told, Pc
<1>2. \A x \in Tasks : Place(v.store, x, v.tasks[x])
  <2> TAKE x \in Tasks
  <2>1. Place(w.store, x, w.tasks[x])
    BY TaskFacts DEF Quiet, Places
  <2>2. v.store = w.store /\ v.tasks[x].pc = w.tasks[x].pc /\ v.tasks[x].ses = w.tasks[x].ses
        /\ v.tasks[x].run = w.tasks[x].run
    BY DEF Told
  <2> QED
    BY <2>1, <2>2 DEF Place
<1>3. Places(v, NoTask)
  BY <1>1, <1>2, TaskFacts DEF Quiet, Places, Told
<1>4. Current(v, p)
  BY DEF Quiet, Current, ActiveId, Told
<1>5. Covered(v, NoTask, p)
  BY TaskFacts DEF Quiet, Covered, Told
<1> QED
  BY <1>3, <1>4, <1>5

\* The first request is answered, or one that nobody waits for.
LEMMA ToldAsked ==
    ASSUME NEW w, Asked(w, NoTask), NEW i \in 1..Len(w.calls), NEW v, NEW call, Told(w, v, i, call),
           call # "out", i = 1 \/ w.calls[i].by = NoTask
    PROVE  Asked(v, NoTask)
<1> DEFINE t == w.calls[i].by
           n == Len(w.calls)
<1>1. /\ v.calls \in Seq(Requests) /\ Len(v.calls) = n - 1 /\ n \in Nat
      /\ \A j \in 1..(n - 1) : v.calls[j] = IF j < i THEN w.calls[j] ELSE w.calls[j + 1]
      /\ \A x \in Tasks : Pc(v, x) = Pc(w, x)
  BY ToldFacts, AskedFacts DEF Asked
<1>2. \A j \in 1..n : w.calls[j].by \in Tasks \cup {NoTask}
  BY AskedFacts DEF Asked
<1>3. \A j \in 1..(n - 1) :
         LET k == IF j < i THEN j ELSE j + 1
         IN  k \in 1..n /\ k # i /\ v.calls[j] = w.calls[k] /\ (j # n - 1 => k # n)
  BY <1>1
<1> HIDE DEF n
<1>4. ASSUME NEW j \in 1..(n - 1) PROVE Request(v, NoTask, j)
  <2> DEFINE k == IF j < i THEN j ELSE j + 1
  <2>1. k \in 1..n /\ k # i /\ v.calls[j] = w.calls[k] /\ (j # n - 1 => k # n)
    BY <1>3
  <2>2. k = 1 => j = 1
    BY <1>1
  <2> HIDE DEF k
  <2>3. Request(w, NoTask, k)
    BY <2>1 DEF Asked, n
  <2>4. w.calls[k].by # NoTask => w.calls[k].by # t
    BY <2>1 DEF Asked, n
  <2> DEFINE x == w.calls[k].by
  <2>5. CASE x = NoTask
    <3>1. w.calls[k].op = "reset" /\ MayDrop(w.store) /\ (w.calls[k].stage = "running" => k = 1)
      BY <2>3, <2>5 DEF Request
    <3> QED
      BY <2>1, <2>2, <2>5, <3>1 DEF Request, Told
  <2>6. CASE x # NoTask
    <3>1. x \in Tasks /\ x # t
      BY <1>2, <2>1, <2>4, <2>6
    <3>2. v.tasks[x].call = w.tasks[x].call /\ v.tasks[x].ses = w.tasks[x].ses /\ Pc(v, x) = Pc(w, x)
      BY <1>1, <3>1 DEF Told
    <3>3. /\ Pc(w, x) \in Calling /\ w.tasks[x].call = "out"
          /\ w.calls[k].op = Op(Pc(w, x)) /\ w.calls[k].ses = w.tasks[x].ses
          /\ k # n => Pc(w, x) = "failreset"
          /\ w.calls[k].stage = "running" => k = 1
      BY <2>3, <2>6 DEF Request, n
    <3>4. v.calls[j].by = x /\ v.calls[j].op = w.calls[k].op /\ v.calls[j].ses = w.calls[k].ses
          /\ v.calls[j].stage = w.calls[k].stage
      BY <2>1
    <3> HIDE DEF x
    <3> QED
      BY <1>1, <2>1, <2>2, <2>6, <3>2, <3>3, <3>4 DEF Request
  <2> QED
    BY <2>5, <2>6
<1>5. ASSUME NEW j \in 1..(n - 1), NEW k \in 1..(n - 1), v.calls[j].by = v.calls[k].by,
             v.calls[j].by # NoTask
      PROVE  j = k
  <2> DEFINE jj == IF j < i THEN j ELSE j + 1
             kk == IF k < i THEN k ELSE k + 1
  <2>1. jj \in 1..n /\ kk \in 1..n /\ v.calls[j] = w.calls[jj] /\ v.calls[k] = w.calls[kk]
    BY <1>3
  <2>2. jj = kk => j = k
    BY <1>1
  <2> HIDE DEF jj, kk
  <2> QED
    BY <1>5, <2>1, <2>2 DEF Asked, n
<1>6. ASSUME NEW x \in Tasks, x # NoTask, Pc(v, x) \in {"pl", "ps", "reset"},
             v.tasks[x].call # "out"
      PROVE  v.calls = << >>
  <2>1. x = t
    <3>1. CASE w.tasks[x].call = "out"
      BY <1>6, <3>1 DEF Told
    <3>2. CASE w.tasks[x].call # "out"
      <4>1. w.calls = << >>
        BY <1>1, <1>6, <3>2 DEF Asked
      <4> QED
        BY <4>1, EmptySeq
    <3> QED
      BY <3>1, <3>2
  <2>2. Request(w, NoTask, i) /\ i = 1
    BY <1>6, <2>1 DEF Asked
  <2>3. i = n
    BY <1>1, <1>6, <2>1, <2>2 DEF Request, n
  <2>4. Len(v.calls) = 0
    BY <1>1, <2>2, <2>3
  <2> QED
    BY <1>1, <2>4, EmptySeq
<1> QED
  BY <1>1, <1>4, <1>5, <1>6, TaskFacts DEF Asked

\* The board is what it was, and so are the resets under way.
LEMMA ToldQuiet ==
    ASSUME NEW w, NEW a, NEW p, Quiet(w, NoTask, a, p), NEW i \in 1..Len(w.calls), NEW v, NEW call,
           Told(w, v, i, call), call # "out", i = 1 \/ w.calls[i].by = NoTask,
           NEW b,
           \A image, elf : Will(w, a, image, elf) => Will(v, b, image, elf),
           \A x \in Tasks : x = w.calls[i].by => Progress(v, b, x)
    PROVE  Quiet(v, NoTask, b, p)
<1>1. /\ \A x \in Tasks : Pc(v, x) = Pc(w, x) /\ v.tasks[x].ses = w.tasks[x].ses
      /\ \A x \in Tasks : x # w.calls[i].by => v.tasks[x].call = w.tasks[x].call
      /\ v.store = w.store /\ ActiveId(v) = ActiveId(w)
  BY DEF Told, Pc, ActiveId
<1>2. ASSUME NEW x \in Tasks PROVE Progress(v, b, x)
  <2>1. CASE x # w.calls[i].by
    <3>1. Progress(w, a, x)
      BY TaskFacts DEF Quiet, Cleared
    <3>2. v.tasks[x].call = w.tasks[x].call /\ Pc(v, x) = Pc(w, x)
      BY <1>1, <2>1
    <3> QED
      BY <1>1, <3>1, <3>2 DEF Progress
  <2> QED
    BY <2>1
<1>3. Cleared(v, NoTask, b)
  BY <1>1, <1>2 DEF Quiet, Cleared
<1>4. Asked(v, NoTask)
  BY ToldAsked DEF Quiet
<1> QED
  BY <1>3, <1>4, ToldPlaces DEF Quiet

\* Nobody waits for a request that is answered: it was a reset that may be dropped.
LEMMA DroppedQuiet ==
    ASSUME NEW w, NEW a, NEW p, Quiet(w, NoTask, a, p), NEW i \in 1..Len(w.calls),
           w.calls[i].by = NoTask, NEW v, NEW call, Told(w, v, i, call), call # "out"
    PROVE  /\ Quiet(v, NoTask, a, p)
           /\ \A b : b.image = NoSession /\ b.elf = NoSession => Quiet(v, NoTask, b, p)
<1>1. Asked(w, NoTask) /\ Len(w.calls) \in Nat
  BY AskedFacts DEF Quiet, Asked
<1>2. w.calls[i].op = "reset" /\ MayDrop(w.store)
  BY <1>1 DEF Asked, Request
<1>3. ResetDue(v) <=> ResetDue(w)
  <2>1. /\ Len(v.calls) = Len(w.calls) - 1
        /\ \A j \in 1..(Len(w.calls) - 1) : v.calls[j] = IF j < i THEN w.calls[j] ELSE w.calls[j + 1]
    BY <1>1, ToldFacts
  <2>2. ASSUME NEW j \in 1..Len(w.calls), j # i
        PROVE  \E k \in 1..Len(v.calls) : v.calls[k] = w.calls[j]
    <3>1. CASE j < i
      <4>1. j \in 1..Len(v.calls) /\ v.calls[j] = w.calls[j]
        BY <1>1, <2>1, <3>1
      <4> QED
        BY <4>1
    <3>2. CASE ~(j < i)
      <4>1. j - 1 \in 1..Len(v.calls) /\ ~(j - 1 < i) /\ (j - 1) + 1 = j
        BY <1>1, <2>1, <2>2, <3>2
      <4>2. v.calls[j - 1] = w.calls[j]
        BY <2>1, <4>1
      <4> QED
        BY <4>1, <4>2
    <3> QED
      BY <3>1, <3>2
  <2>3. ASSUME NEW j \in 1..Len(v.calls)
        PROVE  \E k \in 1..Len(w.calls) : v.calls[j] = w.calls[k]
    <3>1. j \in 1..Len(w.calls) /\ j + 1 \in 1..Len(w.calls)
      BY <1>1, <2>1
    <3> QED
      BY <2>1, <3>1
  <2>4. ASSUME ResetDue(w) PROVE ResetDue(v)
    <3>1. PICK j \in 1..Len(w.calls) : w.calls[j].op = "reset" /\ w.calls[j].by # NoTask
      BY <2>4 DEF ResetDue
    <3>2. PICK k \in 1..Len(v.calls) : v.calls[k] = w.calls[j]
      BY <2>2, <3>1
    <3> QED
      BY <3>1, <3>2 DEF ResetDue
  <2>5. ASSUME ResetDue(v) PROVE ResetDue(w)
    <3>1. PICK j \in 1..Len(v.calls) : v.calls[j].op = "reset" /\ v.calls[j].by # NoTask
      BY <2>5 DEF ResetDue
    <3>2. PICK k \in 1..Len(w.calls) : v.calls[j] = w.calls[k]
      BY <2>3
    <3> QED
      BY <3>1, <3>2 DEF ResetDue
  <2> QED
    BY <2>4, <2>5
<1>4. \A image, elf : Will(w, a, image, elf) <=> Will(v, a, image, elf)
  BY <1>3 DEF Will
<1>5. \A x \in Tasks : x # w.calls[i].by
  BY TaskFacts
<1>6. Quiet(v, NoTask, a, p)
  BY <1>4, <1>5, ToldQuiet
<1>7. ASSUME NEW b, b.image = NoSession, b.elf = NoSession PROVE Quiet(v, NoTask, b, p)
  <2>1. v.store = w.store /\ ActiveId(v) = v.store.active
    BY DEF Told, ActiveId
  <2>2. Owned(v.store) /\ (ActiveIs(v.store, "active") => Bare(v.store))
        /\ ~ActiveIs(v.store, "starting") /\ v.store.active # NoSession
    BY <1>2, <2>1 DEF MayDrop, Owned, ActiveIs
  <2>3. ASSUME NEW x \in Tasks PROVE Progress(v, b, x)
    <3>1. Pc(v, x) \notin AtWork
      BY <1>6, <2>2, TaskFacts DEF Quiet, Places, Place, Pc
    <3>2. Will(v, b, NoSession, NoSession)
      BY <1>7 DEF Will
    <3> QED
      BY <3>1, <3>2 DEF Progress, AtWork
  <2>4. Cleared(v, NoTask, b)
    BY <2>1, <2>2, <2>3 DEF Cleared
  <2> QED
    BY <1>6, <2>4 DEF Quiet
<1> QED
  BY <1>6, <1>7

\* A request is admitted, or its work begins.
LEMMA StageQuiet ==
    ASSUME NEW w, NEW a, NEW p, Quiet(w, NoTask, a, p), Runs(w, Watch), NEW i \in 1..Len(w.calls),
           NEW stage \in {"admitted", "running"}, stage = "running" => i = 1
    PROVE  Quiet([w EXCEPT !.calls[i].stage = stage], NoTask, a, p)
<1> DEFINE c == [w.calls EXCEPT ![i].stage = stage]
           v == [w EXCEPT !.calls = c]
           n == Len(w.calls)
<1>1. w.calls \in Seq(Requests) /\ n \in Nat
  BY AskedFacts DEF Quiet, Asked
<1>2. /\ c \in Seq(Requests) /\ Len(c) = n
      /\ \A j \in 1..n : /\ c[j].op = w.calls[j].op /\ c[j].by = w.calls[j].by
                         /\ c[j].ses = w.calls[j].ses
                         /\ c[j].stage = IF j = i THEN stage ELSE w.calls[j].stage
  <2> DEFINE r == [w.calls[i] EXCEPT !.stage = stage]
  <2>1. r \in Requests /\ r.op = w.calls[i].op /\ r.by = w.calls[i].by /\ r.ses = w.calls[i].ses
        /\ r.stage = stage
    <3>1. w.calls[i] \in Requests
      BY <1>1
    <3> QED
      BY <3>1 DEF Requests
  <2>2. c = [w.calls EXCEPT ![i] = r]
    OBVIOUS
  <2> HIDE DEF r, c
  <2>3. /\ c \in Seq(Requests) /\ Len(c) = n
        /\ \A j \in 1..n : c[j] = IF j = i THEN r ELSE w.calls[j]
    BY <1>1, <2>1, <2>2
  <2> QED
    BY <2>1, <2>3
<1> HIDE DEF c
<1>3. /\ v.store = w.store /\ v.expiry = w.expiry /\ v.zombies = w.zombies
      /\ v.runtime = w.runtime /\ v.calls = c /\ v.tasks = w.tasks
  BY DEF Runs, IsWeb
<1>4. [w EXCEPT !.calls[i].stage = stage] = v
  BY DEF c
<1> HIDE DEF v
<1>5. \A x : Pc(v, x) = Pc(w, x)
  BY <1>3 DEF Pc
<1>6. Places(v, NoTask) /\ Current(v, p) /\ Covered(v, NoTask, p)
  BY <1>3, <1>5 DEF Quiet, Places, Current, Covered, ActiveId
<1>7. \A image, elf : Will(w, a, image, elf) <=> Will(v, a, image, elf)
  <2>1. ResetDue(v) <=> ResetDue(w)
    BY <1>2, <1>3 DEF ResetDue, n
  <2> QED
    BY <2>1 DEF Will
<1>8. ASSUME NEW x \in Tasks PROVE Progress(v, a, x)
  <2>1. Progress(w, a, x)
    BY TaskFacts DEF Quiet, Cleared
  <2> QED
    BY <1>3, <1>5, <1>7, <2>1 DEF Progress, ActiveId
<1>9. Cleared(v, NoTask, a)
  BY <1>3, <1>7, <1>8 DEF Quiet, Cleared, ActiveId
<1>10. ASSUME NEW j \in 1..n PROVE Request(v, NoTask, j)
  <2>1. Request(w, NoTask, j)
    BY DEF Quiet, Asked, n
  <2> QED
    BY <1>2, <1>3, <1>5, <2>1 DEF Request, n
<1>11. Asked(v, NoTask)
  <2>1. \A x \in Tasks : Pc(v, x) \in {"pl", "ps", "reset"} /\ v.tasks[x].call # "out" => n = 0
    <3> TAKE x \in Tasks
    <3> HAVE Pc(v, x) \in {"pl", "ps", "reset"} /\ v.tasks[x].call # "out"
    <3>1. w.calls = << >>
      BY <1>3, <1>5, TaskFacts DEF Quiet, Asked
    <3> QED
      BY <1>1, <3>1, EmptySeq DEF n
  <2>2. \A x \in Tasks : Pc(v, x) \in {"pl", "ps", "reset"} /\ v.tasks[x].call # "out" => v.calls = << >>
    BY <1>2, <1>3, <2>1, EmptySeq
  <2>3. \A j, k \in 1..n : v.calls[j].by = v.calls[k].by /\ v.calls[j].by # NoTask => j = k
    BY <1>2, <1>3 DEF Quiet, Asked, n
  <2> QED
    BY <1>2, <1>3, <1>10, <2>2, <2>3 DEF Asked
<1> QED
  BY <1>4, <1>6, <1>9, <1>11 DEF Quiet

\* The request that is carried out is the first; a start's is the only one.
LEMMA FirstRequest ==
    ASSUME NEW w, NEW a, NEW p, Quiet(w, NoTask, a, p), w.calls # << >>, w.calls[1].by # NoTask
    PROVE  LET t == w.calls[1].by
           IN  /\ 1 \in 1..Len(w.calls)
               /\ t \in Tasks /\ w.tasks[t].call = "out" /\ w.calls[1].ses = w.tasks[t].ses
               /\ w.calls[1].op = Op(Pc(w, t))
               /\ Pc(w, t) \in {"pl", "ps", "reset", "failreset"}
               /\ Pc(w, t) # "failreset" => Len(w.calls) = 1
               /\ Place(w.store, t, w.tasks[t]) /\ Progress(w, a, t)
<1> DEFINE t == w.calls[1].by
<1>1. Asked(w, NoTask) /\ 1 \in 1..Len(w.calls) /\ t \in Tasks
  <2>1. w.calls \in Seq(Requests) /\ Len(w.calls) \in Nat
    BY AskedFacts DEF Quiet, Asked
  <2>2. 1 \in 1..Len(w.calls)
    BY <2>1, EmptySeq
  <2> QED
    BY <2>1, <2>2, AskedFacts DEF Quiet
<1>2. Request(w, NoTask, 1)
  BY <1>1 DEF Asked
<1>3. Place(w.store, t, w.tasks[t]) /\ Progress(w, a, t)
  BY <1>1, TaskFacts DEF Quiet, Places, Cleared
<1>4. /\ Pc(w, t) \in Calling /\ w.tasks[t].call = "out" /\ w.calls[1].ses = w.tasks[t].ses
      /\ w.calls[1].op = Op(Pc(w, t)) /\ (1 # Len(w.calls) => Pc(w, t) = "failreset")
  BY <1>2 DEF Request
<1>5. Pc(w, t) \in {"pl", "ps", "reset", "failreset"}
  BY <1>3, <1>4 DEF Place, Calling, Pc, OnDuty, AtWork, AtEnding
<1> QED
  BY <1>1, <1>3, <1>4, <1>5

LEMMA MayProgram == ASSUME Alive(agent) PROVE CanProgram
BY DEF Alive, CanProgram

LEMMA WebTold ==
    ASSUME DemosApart
    PROVE  /\ Quiet(web, NoTask, agent, procs) /\ Runs(web, Watch)
           /\ \A i, call, ans : Told(web, Answer(web, i, call, ans), i, call)
<1>1. Runs(web, Watch) /\ \A x \in Tasks : IsTask(web.tasks[x])
  BY RunsInStep, TaskFacts DEF DemosApart, TimersSet, LockOrder, Order
<1> QED
  BY <1>1, AnswerTold DEF DemosApart

LEMMA ReceivesQuiet ==
    ASSUME DemosApart, NEW i \in 1..Len(web.calls), AgentReceives(i)
    PROVE  Quiet(web', NoTask, agent, procs)
<1>1. CanProgram
  BY MayProgram DEF DemosApart
<1>2. CASE web.calls[i].by = NoTask /\ web' = Answer(web, i, "error", NoView)
  <2>1. Told(web, web', i, "error")
    BY <1>2, WebTold
  <2> QED
    BY <1>2, <2>1, WebTold, DroppedQuiet
<1>3. CASE web' = [web EXCEPT !.calls[i].stage = IF i = 1 THEN "running" ELSE "admitted"]
  <2> DEFINE stage == IF i = 1 THEN "running" ELSE "admitted"
  <2>1. stage \in {"admitted", "running"} /\ (stage = "running" => i = 1)
    OBVIOUS
  <2>2. web' = [web EXCEPT !.calls[i].stage = stage]
    BY <1>3
  <2> HIDE DEF stage
  <2> QED
    BY <2>1, <2>2, WebTold, StageQuiet
<1> QED
  BY <1>1, <1>2, <1>3 DEF AgentReceives

LEMMA ContinuesQuiet ==
    ASSUME DemosApart, AgentContinues
    PROVE  Quiet(web', NoTask, agent, procs)
<1>1. CanProgram /\ Runs(web, Watch) /\ Quiet(web, NoTask, agent, procs)
  BY MayProgram, WebTold DEF DemosApart
<1>2. web' = [web EXCEPT !.calls[1].stage = "running"]
  BY <1>1 DEF AgentContinues
<1>3. 1 \in 1..Len(web.calls)
  <2>1. web.calls \in Seq(Requests) /\ web.calls # << >>
    BY <1>1 DEF Quiet, Asked, AgentContinues
  <2> QED
    BY <2>1, EmptySeq
<1>4. "running" \in {"admitted", "running"}
  OBVIOUS
<1> QED
  BY <1>1, <1>2, <1>3, <1>4, StageQuiet

\* A start that succeeds is on the board; a reset has cleared it.
LEMMA SucceedsQuiet ==
    ASSUME DemosApart, AgentSucceeds
    PROVE  Quiet(web', NoTask, agent', procs) /\ Alive(agent')
<1> DEFINE call == web.calls[1]
           t == call.by
           after == Effect(call.op, call.ses)
<1>1. Quiet(web, NoTask, agent, procs) /\ Asked(web, NoTask) /\ Alive(agent)
  BY WebTold DEF Quiet, DemosApart
<1>2. /\ web.calls \in Seq(Requests) /\ web.calls # << >> /\ 1 \in 1..Len(web.calls)
      /\ Head(web.calls) = call
  <2>1. web.calls \in Seq(Requests) /\ web.calls # << >>
    BY <1>1 DEF Asked, AgentSucceeds, Busy
  <2> QED
    BY <2>1, EmptySeq
<1>3. agent' = after /\ Told(web, web', 1, "ok")
  <2>1. agent' = after /\ \E ans : web' = Answer(web, 1, "ok", ans)
    BY <1>2 DEF AgentSucceeds
  <2> QED
    BY <2>1, WebTold
<1>4. call.op \in {"pl", "ps", "reset"} /\ call.ses \in SessionIds
  BY <1>1, <1>2, AskedFacts DEF Asked
<1>5. /\ Alive(after)
      /\ call.op = "pl" => after.image = call.ses /\ after.elf = agent.elf
      /\ call.op = "ps" => after.image = agent.image /\ after.elf = call.ses
      /\ call.op = "reset" => after.image = NoSession /\ after.elf = NoSession
  <2> HIDE DEF call
  <2> QED
    BY <1>1, <1>4 DEF Alive, AgentType, Effect
<1> HIDE DEF after
<1>6. CASE t = NoTask
  <2>1. call.op = "reset"
    BY <1>1, <1>2, <1>6 DEF Asked, Request
  <2>2. after.image = NoSession /\ after.elf = NoSession
    BY <1>5, <2>1
  <2> QED
    BY <1>1, <1>2, <1>3, <1>5, <1>6, <2>2, DroppedQuiet
<1>7. CASE t # NoTask
  <2>1. /\ t \in Tasks /\ web.tasks[t].call = "out" /\ call.ses = web.tasks[t].ses
        /\ call.op = Op(Pc(web, t)) /\ Pc(web, t) \in {"pl", "ps", "reset", "failreset"}
        /\ Pc(web, t) # "failreset" => Len(web.calls) = 1
        /\ Place(web.store, t, web.tasks[t]) /\ Progress(web, agent, t)
    BY <1>1, <1>2, <1>7, FirstRequest
  <2>2. /\ Len(web'.calls) = Len(web.calls) - 1 /\ Pc(web', t) = Pc(web, t)
        /\ web'.tasks[t].call = "ok" /\ web'.store = web.store /\ ActiveId(web') = ActiveId(web)
    <3>1. Len(web'.calls) = Len(web.calls) - 1 /\ Pc(web', t) = Pc(web, t) /\ ActiveId(web') = ActiveId(web)
      <4>1. /\ Len(web'.calls) = Len(web.calls) - 1 /\ ActiveId(web') = ActiveId(web)
            /\ \A x \in Tasks : Pc(web', x) = Pc(web, x)
        <5> HIDE DEF call
        <5> QED
          BY <1>1, <1>2, <1>3, ToldFacts
      <4> QED
        BY <2>1, <4>1
    <3>2. web'.tasks[t].call = "ok" /\ web'.store = web.store
      BY <1>3, <2>1 DEF Told
    <3> QED
      BY <3>1, <3>2
  <2>3. CASE Pc(web, t) \in {"reset", "failreset"}
    <3>1. call.op = "reset" /\ after.image = NoSession /\ after.elf = NoSession
      BY <1>5, <2>1, <2>3 DEF Op
    <3>2. ResetDue(web)
      BY <1>2, <1>7, <3>1 DEF ResetDue
    <3>3. \A image, elf : Will(web, agent, image, elf) => Will(web', after, image, elf)
      BY <3>1, <3>2 DEF Will
    <3>4. Progress(web', after, t)
      BY <2>2, <2>3, <3>1 DEF Progress, Will
    <3> QED
      BY <1>1, <1>2, <1>3, <1>5, <3>3, <3>4, ToldQuiet
  <2>4. CASE Pc(web, t) \in {"pl", "ps"}
    <3> DEFINE s == ActiveId(web)
    <3>1. ActiveIs(web.store, "starting") /\ call.ses = s /\ s # NoSession
          /\ call.op = Pc(web, t)
      BY <2>1, <2>4 DEF Place, AtWork, ActiveIs, ActiveId, Pc, Op
    <3>2. ~ResetDue(web)
      BY <2>1, <2>4, <3>1 DEF ResetDue
    <3>3. ~ResetDue(web')
      <4>1. Len(web'.calls) = 0
        BY <2>1, <2>2, <2>4
      <4> QED
        BY <4>1 DEF ResetDue
    <3>4. Progress(web', after, t)
      BY <1>5, <2>1, <2>2, <2>4, <3>1, <3>2, <3>3 DEF Progress, Will, Image
    <3>5. ASSUME NEW x \in Tasks PROVE Progress(web', after, x)
      <4>1. CASE x = t
        BY <3>4, <4>1
      <4>2. CASE x # t
        <5>1. Pc(web', x) \notin OnDuty
          BY <1>1, <1>2, <1>3, <2>1, <2>4, <4>2, ToldFacts, TaskFacts
             DEF Quiet, Places, OnDuty, AtWork
        <5> QED
          BY <5>1, OffDuty
      <4> QED
        BY <4>1, <4>2
    <3>6. Cleared(web', NoTask, after)
      BY <2>2, <3>1, <3>5 DEF Cleared, ActiveIs
    <3>7. Asked(web', NoTask)
      BY <1>1, <1>2, <1>3, ToldAsked
    <3> QED
      BY <1>1, <1>2, <1>3, <1>5, <3>6, <3>7, ToldPlaces DEF Quiet
  <2> QED
    BY <2>1, <2>3, <2>4
<1> QED
  BY <1>6, <1>7

\* Only a start fails: the board is what it was.
LEMMA FailsQuiet ==
    ASSUME DemosApart, Troubles \subseteq FailedStarts, AgentFails
    PROVE  Quiet(web', NoTask, agent, procs)
<1> DEFINE call == web.calls[1]
           t == call.by
<1>1. Quiet(web, NoTask, agent, procs) /\ Asked(web, NoTask)
  BY WebTold DEF Quiet
<1>2. /\ web.calls \in Seq(Requests) /\ web.calls # << >> /\ 1 \in 1..Len(web.calls)
      /\ Head(web.calls) = call
  <2>1. web.calls \in Seq(Requests) /\ web.calls # << >>
    BY <1>1 DEF Asked, AgentFails, Busy
  <2> QED
    BY <2>1, EmptySeq
<1>3. Told(web, web', 1, "error")
  BY WebTold DEF AgentFails
<1>4. call.op \in {"pl", "ps"}
  <2>1. call.op \in {"pl", "ps", "reset"} /\ Failure(call.op) \in FailedStarts
    BY <1>1, <1>2, AskedFacts DEF Asked, AgentFails, May
  <2> QED
    BY <2>1 DEF Failure, FailedStarts
<1>5. t # NoTask
  BY <1>1, <1>2, <1>4 DEF Asked, Request
<1>6. /\ t \in Tasks /\ web.tasks[t].call = "out" /\ Len(web.calls) = 1
      /\ Progress(web, agent, t) /\ Pc(web, t) \in {"pl", "ps"}
  <2>1. /\ t \in Tasks /\ web.tasks[t].call = "out" /\ call.op = Op(Pc(web, t))
        /\ Pc(web, t) \in {"pl", "ps", "reset", "failreset"}
        /\ Pc(web, t) # "failreset" => Len(web.calls) = 1
        /\ Progress(web, agent, t)
    BY <1>1, <1>2, <1>5, FirstRequest
  <2> QED
    BY <1>4, <2>1 DEF Op
<1>7. /\ Len(web'.calls) = Len(web.calls) - 1 /\ Pc(web', t) = Pc(web, t)
      /\ web'.tasks[t].call = "error" /\ web'.store = web.store /\ ActiveId(web') = ActiveId(web)
  <2>1. Len(web'.calls) = Len(web.calls) - 1 /\ Pc(web', t) = Pc(web, t) /\ ActiveId(web') = ActiveId(web)
    <3>1. /\ Len(web'.calls) = Len(web.calls) - 1 /\ ActiveId(web') = ActiveId(web)
          /\ \A x \in Tasks : Pc(web', x) = Pc(web, x)
      <4> HIDE DEF call
      <4> QED
        BY <1>1, <1>2, <1>3, ToldFacts
    <3> QED
      BY <1>6, <3>1
  <2>2. web'.tasks[t].call = "error" /\ web'.store = web.store
    BY <1>3, <1>6 DEF Told
  <2> QED
    BY <2>1, <2>2
<1>8. ~ResetDue(web) /\ ~ResetDue(web')
  BY <1>4, <1>6, <1>7 DEF ResetDue
<1>9. \A image, elf : Will(web, agent, image, elf) => Will(web', agent, image, elf)
  BY <1>8 DEF Will
<1>10. Progress(web', agent, t)
  BY <1>6, <1>7, <1>9 DEF Progress
<1> QED
  BY <1>1, <1>2, <1>3, <1>9, <1>10, ToldQuiet

-----------------------------------------------------------------------------
(* The inductive invariant *)

LEMMA AliveIsMild == ASSUME NEW a, Alive(a) PROVE ViewOf(a) \in Mild
BY DEF Alive, AgentType, ViewOf, Mild, View, Status

LEMMA PublishMild ==
    ASSUME events \in Seq(Mild), NEW a, Alive(a), Publish(a) PROVE events' \in Seq(Mild)
<1> DEFINE v == ViewOf(a)
<1>1. v \in Mild
  BY AliveIsMild
<1>2. events' = IF Len(events) < EventBuffer THEN Append(events, v)
                ELSE [events EXCEPT ![EventBuffer] = v]
  BY DEF Publish
<1> HIDE DEF v
<1>3. Append(events, v) \in Seq(Mild)
  BY <1>1
<1>4. [events EXCEPT ![EventBuffer] = v] \in Seq(Mild)
  <2>1. Len(events) \in Nat /\ events \in [1..Len(events) -> Mild]
    OBVIOUS
  <2>2. [events EXCEPT ![EventBuffer] = v] \in [1..Len(events) -> Mild]
    BY <1>1, <2>1
  <2> QED
    BY <2>1, <2>2, SeqDef
<1> QED
  BY <1>2, <1>3, <1>4

LEMMA DemoInit == Init => DemosApart
<1> SUFFICES ASSUME Init PROVE DemosApart
  OBVIOUS
<1>1. TimersSet
  BY TimerInit
<1>2. Alive(agent) /\ events \in Seq(Mild)
  BY DEF Init, Alive, NewAgent, AgentType
<1> DEFINE store == EmptyStore
           view == ViewOf(NewAgent)
<1>3. store.active = NoSession
  BY DEF EmptyStore
<1>4. web = StartedManager(store, view)
  BY DEF Init
<1> HIDE DEF store, view
<1>5. /\ web.store.active = NoSession /\ web.runtime = NoSession /\ web.expiry = NoTask
      /\ web.calls = << >> /\ web.zombies = {}
      /\ \A t \in Tasks : web.tasks[t] = Rest(t)
  BY <1>3, <1>4 DEF StartedManager
<1>6. \A t \in Tasks : /\ Rest(t).pc \in {"done", "idle"}
                       /\ Rest(t).ses = NoSession /\ Rest(t).run = NoSession
  BY DEF Rest, Done, Suspended
<1>7. \A t \in Tasks : Pc(web, t) \in {"done", "idle"}
  BY <1>5, <1>6 DEF Pc
<1>8. Places(web, NoTask)
  <2>1. \A t \in Tasks : Place(web.store, t, web.tasks[t])
    BY <1>5, <1>6 DEF Place, OnDuty, AtWork, AtEnding
  <2> QED
    BY <1>5, <1>7, <2>1 DEF Places, OnDuty, AtWork, AtEnding
<1>9. Asked(web, NoTask)
  BY <1>5, <1>7 DEF Asked
<1>10. Cleared(web, NoTask, agent)
  <2>1. ~ResetDue(web) /\ agent.image = NoSession /\ agent.elf = NoSession
    BY <1>5 DEF ResetDue, Init, NewAgent
  <2> QED
    BY <1>5, <1>7, <2>1, OffDuty DEF Cleared, Will, ActiveIs, OnDuty, AtWork, AtEnding
<1>11. Current(web, procs) /\ Covered(web, NoTask, procs)
  BY <1>5 DEF Current, Covered, Init, ActiveIs
<1> QED
  BY <1>1, <1>2, <1>8, <1>9, <1>10, <1>11 DEF DemosApart, Quiet

\* What goes wrong beside starts does not.
LEMMA NoTrouble ==
    ASSUME DemosApart, Troubles \subseteq FailedStarts
    PROVE  ~Environment /\ \A s : ~ZombieUp(s) /\ ~ZombieDown(s)
<1>1. \A k \in {"agent", "web", "comm", "heat", "mode"} : ~May(k)
  BY DEF May, FailedStarts
<1>2. agent.up /\ ~agent.comm /\ ~agent.heat /\ agent.mode # "project" /\ web.zombies = {}
  BY DEF DemosApart, Alive, Quiet, Places
<1> QED
  BY <1>1, <1>2 DEF Environment, AgentStops, AgentBoots, WebRestarts, CommunicationLost,
                    CommunicationBack, Overheats, CoolsDown, Reserved, Freed, ZombieUp,
                    ZombieDown, ThreadEnds

LEMMA NobodyWaits == ASSUME DemosApart, NEW t \in Tasks PROVE ~TakeLock(t)
BY TaskFacts DEF DemosApart, Quiet, Places, Place, TakeLock, Pc, OnDuty, AtWork, AtEnding

LEMMA DemoStep ==
    ASSUME Troubles \subseteq FailedStarts, DemosApart, [Next]_vars PROVE DemosApart'
<1> SUFFICES Quiet(web', NoTask, agent', procs') /\ Alive(agent') /\ events' \in Seq(Mild)
  BY TimerStep DEF DemosApart
<1>0. Alive(agent) /\ events \in Seq(Mild) /\ Quiet(web, NoTask, agent, procs)
  BY DEF DemosApart
<1>1. CASE UserActions
  <2>1. agent' = agent /\ procs' = procs /\ events' = events
    BY <1>1 DEF UserActions, CreateSession, CancelSession, EndSession, OpenConnection, CloseConnection
  <2>2. Quiet(web', NoTask, agent, procs)
    BY <1>1, CreateQuiet, CancelQuiet, EndQuiet, OpenQuiet, CloseQuiet DEF UserActions
  <2> QED
    BY <1>0, <2>1, <2>2
<1>2. CASE Timers
  <2>1. agent' = agent /\ procs' = procs /\ events' = events
    BY <1>2 DEF Timers, ExpiryFires, DisconnectFires
  <2>2. Quiet(web', NoTask, agent, procs)
    BY <1>2, ExpiryQuiet, DisconnectQuiet DEF Timers
  <2> QED
    BY <1>0, <2>1, <2>2
<1>3. CASE WatchEvent
  <2>1. agent' = agent /\ procs' = procs /\ events' \in Seq(Mild)
    BY <1>0, <1>3 DEF WatchEvent
  <2>2. Quiet(web', NoTask, agent, procs)
    BY <1>3, WatchQuiet
  <2> QED
    BY <1>0, <2>1, <2>2
<1>4. CASE \E t \in Tasks : Replies(t)
  <2>1. PICK t \in Tasks : Replies(t)
    BY <1>4
  <2>2. CASE Answered(t)
    <3>1. agent' = agent /\ procs' = procs /\ events' = events
      BY <2>2 DEF Answered
    <3>2. Quiet(web', NoTask, agent, procs)
      BY <2>2, AnsweredQuiet
    <3> QED
      BY <1>0, <3>1, <3>2
  <2>3. CASE RuntimeUp(t) \/ RuntimeDown(t)
    <3>1. agent' = agent /\ events' = events
      BY <2>3 DEF RuntimeUp, RuntimeDown
    <3>2. Quiet(web', NoTask, agent, procs')
      BY <2>3, RuntimeUpQuiet, RuntimeDownQuiet
    <3> QED
      BY <1>0, <3>1, <3>2
  <2> QED
    BY <2>1, <2>2, <2>3, NobodyWaits DEF Replies
<1>5. CASE \E t \in Tasks : RuntimeFails(t)
  <2>1. agent' = agent /\ procs' = procs /\ events' = events
    BY <1>5 DEF RuntimeFails
  <2>2. Quiet(web', NoTask, agent, procs)
    BY <1>5, RuntimeFailsQuiet
  <2> QED
    BY <1>0, <2>1, <2>2
<1>6. CASE AgentSucceeds
  <2>1. procs' = procs /\ Publish(agent')
    BY <1>6 DEF AgentSucceeds
  <2>2. Quiet(web', NoTask, agent', procs) /\ Alive(agent')
    BY <1>6, SucceedsQuiet
  <2> QED
    BY <1>0, <2>1, <2>2, PublishMild
<1>7. CASE (\E i \in 1..Len(web.calls) : AgentReceives(i)) \/ AgentContinues \/ AgentFails
  <2>1. agent' = agent /\ procs' = procs /\ events' = events
    BY <1>7 DEF AgentReceives, AgentContinues, AgentFails
  <2>2. Quiet(web', NoTask, agent, procs)
    BY <1>7, ReceivesQuiet, ContinuesQuiet, FailsQuiet
  <2> QED
    BY <1>0, <2>1, <2>2
<1>8. CASE Tick \/ AgentReports \/ UNCHANGED vars
  <2>1. web' = web /\ agent' = agent /\ procs' = procs
    BY <1>8 DEF Tick, AgentReports, vars
  <2>2. events' \in Seq(Mild)
    BY <1>0, <1>8, PublishMild DEF Tick, AgentReports, vars
  <2> QED
    BY <1>0, <2>1, <2>2
<1> QED
  BY <1>1, <1>2, <1>3, <1>4, <1>5, <1>6, <1>7, <1>8, NoTrouble DEF Next, AgentServes

\* The inductive invariant of a board on which nothing but starts fails.
THEOREM DemosInvariant ==
    ASSUME Troubles \subseteq FailedStarts PROVE Spec => []DemosApart
BY DemoInit, DemoStep, PTL DEF Spec

\* The active session runs on its own bitstream and ELF, and its own demo
\* process is the current one and up (_program_demo, _end_active_session),
\* whatever starts fail and whoever is cancelled at whatever point.
THEOREM DemoAlwaysOwnBoard ==
    ASSUME Troubles \subseteq FailedStarts PROVE Spec => []OwnBoard
<1>1. DemosApart => OwnBoard
  <2> SUFFICES ASSUME DemosApart, ActiveIs(web.store, "active")
               PROVE  LET s == ActiveId(web)
                          d == DemoOf(web, s)
                      IN  /\ d \in PLDemos => agent.image = s
                          /\ d \in PSDemos => agent.elf = s
                          /\ d \in RuntimeDemos => web.runtime = s /\ s \in procs
    BY DEF OwnBoard
  <2> DEFINE s == ActiveId(web)
             d == ActiveDemo(web.store)
  <2>1. DemoOf(web, s) = d
    BY DEF DemoOf, ActiveId, ActiveDemo
  <2>2. Quiet(web, NoTask, agent, procs) /\ StoreOK(web.store) /\ web.calls \in Seq(Requests)
    BY DEF DemosApart, TimersSet, LockOrder, Order, Quiet, Asked
  <2>3. ~ResetDue(web) \/ Bare(web.store)
    <3> SUFFICES ASSUME NEW i \in 1..Len(web.calls), web.calls[i].op = "reset",
                        web.calls[i].by # NoTask, ~Bare(web.store)
                 PROVE  FALSE
      BY DEF ResetDue
    <3>1. Will(web, agent, Image(web.store), Elf(web.store))
      BY <2>2 DEF Quiet, Cleared
    <3>2. Image(web.store) = NoSession /\ Elf(web.store) = NoSession
      BY <3>1 DEF Will, ResetDue
    <3> QED
      BY <3>2 DEF Image, Elf, Bare, ActiveIs
  <2>4. d \in PLDemos \cup PSDemos =>
           agent.image = Image(web.store) /\ agent.elf = Elf(web.store)
    BY <2>2, <2>3 DEF Quiet, Cleared, Will, Bare
  <2>5. d \in RuntimeDemos => web.runtime = s /\ s \in procs
    BY <2>2 DEF Quiet, Current
  <2> QED
    BY <2>1, <2>4, <2>5 DEF Image, Elf, ActiveId
<1> QED
  BY <1>1, DemosInvariant, PTL

\* No demo process is left behind (stop_session is always called): one that is
\* up is the current runtime's or is being stopped.
THEOREM RuntimeNeverLeaked ==
    ASSUME Troubles \subseteq FailedStarts PROVE Spec => []NoRuntimeLeaked
<1>1. DemosApart => NoRuntimeLeaked
  BY TaskFacts DEF DemosApart, Quiet, Covered, NoRuntimeLeaked
<1> QED
  BY <1>1, DemosInvariant, PTL

\* A session is programmed onto a board that has been cleared of the previous
\* one (_reset_board_after_start_failure, the reset of _end_active_session), and
\* no reset meant for another session comes after its programming.
THEOREM StartAlwaysClean ==
    ASSUME Troubles \subseteq FailedStarts PROVE Spec => []CleanStart
<1>1. ASSUME DemosApart, NEW i \in 1..Len(web.calls), web.calls[i].op # "reset"
      PROVE  LET call == web.calls[i]
             IN  /\ call.stage = "running" => /\ agent.image \in {NoSession, call.ses}
                                              /\ agent.elf \in {NoSession, call.ses}
                 /\ \A j \in i..Len(web.calls) : web.calls[j].ses = call.ses
  <2> DEFINE call == web.calls[i]
             t == call.by
  <2>1. Quiet(web, NoTask, agent, procs) /\ Asked(web, NoTask) /\ Len(web.calls) \in Nat
    BY <1>1, AskedFacts DEF DemosApart, Quiet, Asked
  <2>2. Request(web, NoTask, i) /\ t \in Tasks \cup {NoTask}
    BY <2>1, AskedFacts DEF Asked
  <2>3. /\ t \in Tasks /\ Pc(web, t) \in {"pl", "ps"} /\ web.tasks[t].call = "out"
        /\ call.ses = web.tasks[t].ses /\ i = Len(web.calls)
        /\ call.stage = "running" => i = 1
    BY <1>1, <2>2 DEF Request, Op
  <2>4. \A j \in i..Len(web.calls) : web.calls[j].ses = call.ses
    BY <2>1, <2>3
  <2>5. ASSUME call.stage = "running"
        PROVE  agent.image \in {NoSession, call.ses} /\ agent.elf \in {NoSession, call.ses}
    <3>1. ~ResetDue(web)
      BY <1>1, <2>1, <2>3, <2>5 DEF ResetDue
    <3>2. Progress(web, agent, t) /\ Place(web.store, t, web.tasks[t])
      BY <2>1, <2>3, TaskFacts DEF Quiet, Cleared, Places
    <3>3. call.ses = ActiveId(web)
      BY <2>3, <3>2 DEF Place, Pc, AtWork, ActiveId
    <3> QED
      BY <2>3, <3>1, <3>2, <3>3 DEF Progress, Will, Image, ActiveId
  <2> QED
    BY <2>4, <2>5
<1>2. DemosApart => CleanStart
  BY <1>1 DEF CleanStart
<1> QED
  BY <1>2, DemosInvariant, PTL

\* A session is timed out only while nobody is connected to its demo
\* (_timeout_disconnected_session looks at the count and then takes the flow
\* lock, which on this board is always free for it).
THEOREM TimedOutAlone ==
    ASSUME Troubles \subseteq FailedStarts PROVE Spec => TimedOutOnlyDisconnected
<1> DEFINE Unseen == \A s \in SessionIds :
                       /\ web.store.ses[s].reason # "timed_out"
                       /\ web'.store.ses[s].reason = "timed_out"
                       => conns[s] = 0
<1>1. ASSUME Typed, Counted, DemosApart, [Next]_vars PROVE Unseen
  <2> SUFFICES ASSUME NEW s \in SessionIds, web.store.ses[s].reason # "timed_out",
                      web'.store.ses[s].reason = "timed_out"
               PROVE  conns[s] = 0
    OBVIOUS
  <2>1. ~Accounted({})
    BY DEF Accounted, Accounts
  <2>2. \A x \in SessionIds : ~(OpenConnection(x) \/ CloseConnection(x))
    BY <1>1, OpenRecounts, CloseRecounts DEF Recount
  <2>3. ~WebRestarts /\ \A t \in Tasks : ~TakeLock(t)
    BY <1>1, NoTrouble, NobodyWaits DEF Environment
  <2>4. PICK x \in SessionIds : /\ Accounted({x}) /\ web.counts[x] = 0
                                /\ ActiveId(web) = x /\ ActiveIs(web.store, "active")
    BY <1>1, <2>1, <2>2, <2>3, StepKinds
  <2>5. s = x
    BY <2>4 DEF Accounted, Accounts
  <2>6. StatusOf(web.store, s) \notin Ending
    BY <2>4, <2>5 DEF ActiveIs, StatusOf, ActiveId, Ending
  <2> QED
    BY <1>1, <2>4, <2>5, <2>6 DEF Counted
<1>2. Typed /\ Counted /\ DemosApart /\ [Next]_vars => [Unseen]_vars
  BY <1>1
<1> QED
  BY <1>2, TypedInvariant, ConnectionsCounted, DemosInvariant, PTL DEF Spec, TimedOutOnlyDisconnected
=============================================================================
