---------------------------- MODULE SessionStore ----------------------------
(***************************************************************************)
(* The in-memory queue and session state of the Web API as a value: one    *)
(* operator per method of SessionManager, from the store before the call   *)
(* to the store after it.  Every method runs under SessionManager._lock    *)
(* and suspends nowhere inside it, so a call is one atomic step, and the   *)
(* board manager may make several calls in one step of its own.            *)
(*                                                                         *)
(* A store is a record                                                     *)
(*   ses     the sessions by id; ids are handed out in creation order      *)
(*   count   how many sessions have been created                           *)
(*   queue   the deque of waiting ids                                      *)
(*   active  _active_id, or NoSession                                      *)
(***************************************************************************)
EXTENDS Integers, Sequences, SequencesExt

CONSTANTS Users,        \* browser identities
          NoUser,       \* the owner of a slot no session has been created in
          Demos,        \* demo ids
          NoDemo,
          MaxSessions,  \* bound: sessions created over the whole behaviour
          Contended,    \* config.contended_session_seconds
          EndReasons    \* the reasons begin_active_end is called with

ASSUME UsersAssumption == NoUser \notin Users
ASSUME DemosAssumption == NoDemo \notin Demos
ASSUME BoundAssumption == MaxSessions \in Nat
ASSUME ContendedAssumption == Contended \in Nat

BoardProblem == {"fpga_fault", "board_offline", "reserved"}
TimeLimit == {"expired", "timed_out"}

ASSUME ReasonsAssumption == EndReasons \subseteq BoardProblem \cup TimeLimit

SessionIds == 1..MaxSessions
NoSession == 0
NoTime == -1

Time == Nat \cup {NoTime}

SessionStatus == {"unused", "queued", "starting", "active", "ending", "ended"}

\* The statuses of a session that is on the board.
OnBoard == {"starting", "active", "ending"}

SessionEndReason ==
    {"user_ended", "cancelled", "programming_failed"} \cup BoardProblem \cup TimeLimit

DemoSession ==
    [user    : Users \cup {NoUser},
     demo    : Demos \cup {NoDemo},
     status  : SessionStatus,
     started : Time,
     expires : Time,
     reason  : SessionEndReason \cup {"none"}]

Blank == [user |-> NoUser, demo |-> NoDemo, status |-> "unused",
          started |-> NoTime, expires |-> NoTime, reason |-> "none"]

Store ==
    [ses    : [SessionIds -> DemoSession],
     count  : 0..MaxSessions,
     queue  : Seq(SessionIds),
     active : SessionIds \cup {NoSession}]

EmptyStore == [ses    |-> [i \in SessionIds |-> Blank],
               count  |-> 0,
               queue  |-> << >>,
               active |-> NoSession]

-----------------------------------------------------------------------------
(* Reading the store. *)

StatusOf(m, i) == m.ses[i].status

Live(m, u) ==
    \E i \in SessionIds : m.ses[i].user = u /\ m.ses[i].status # "ended"

\* The board's session has the given status.
ActiveIs(m, s) == m.active # NoSession /\ StatusOf(m, m.active) = s

\* _require_active: the call names the board's session.
IsActive(m, i) == m.active # NoSession /\ m.active = i

Update(m, i, s) == [m.ses EXCEPT ![i] = s]

-----------------------------------------------------------------------------
(* create *)

\* Only the board's session is looked at.
CanCreateWhileWaiting(m, u) ==
    /\ \A i \in SessionIds : m.ses[i].user = u => m.ses[i].status \notin OnBoard
    /\ m.count < MaxSessions

CanCreate(m, u) == ~Live(m, u) /\ m.count < MaxSessions

\* A fresh window that starts at the arrival even when the session still is
\* in the window it is owed.
RestartedWindow(s, now) == now

\* The active user keeps the window that started with the session; one who
\* had it already gets a fresh one from the newcomer's arrival.
ContendedExpiry(s, now) ==
    IF s.started = NoTime THEN now + Contended
    ELSE IF now < s.started + Contended THEN s.started + Contended
    ELSE now + Contended

NewSession(u, d) == [Blank EXCEPT !.user = u, !.demo = d, !.status = "queued"]

\* The waiting session alone, without its effect on the active one.
CreateWithoutDeadline(m, u, d, now) ==
    [m EXCEPT !.count = @ + 1,
              !.queue = Append(@, m.count + 1),
              !.ses   = Update(m, m.count + 1, NewSession(u, d))]

\* Every newcomer sets the deadline again.
CreateExtends(m, u, d, now) ==
    LET a == m.active
        created == CreateWithoutDeadline(m, u, d, now)
    IN  IF ActiveIs(m, "active")
        THEN [created EXCEPT !.ses =
                 Update(created, a,
                        [m.ses[a] EXCEPT !.expires = ContendedExpiry(m.ses[a], now)])]
        ELSE created

Create(m, u, d, now) ==
    LET a == m.active
        uncontended == ActiveIs(m, "active") /\ m.ses[a].expires = NoTime
        created == CreateWithoutDeadline(m, u, d, now)
    IN  IF uncontended
        THEN [created EXCEPT !.ses =
                 Update(created, a,
                        [m.ses[a] EXCEPT !.expires = ContendedExpiry(m.ses[a], now)])]
        ELSE created

-----------------------------------------------------------------------------
(* begin_next, activate, fail_start *)

\* The board is not looked at.
CanBeginAnyTime(m) == m.queue # << >>

CanBegin(m) == m.active = NoSession /\ m.queue # << >>

\* The wrong end of the queue is taken.
BeginLast(m) ==
    LET i == Last(m.queue)
    IN  [m EXCEPT !.queue  = Front(@),
                  !.active = i,
                  !.ses    = Update(m, i, [m.ses[i] EXCEPT !.status = "starting"])]

BeginNext(m) ==
    LET i == Head(m.queue)
    IN  [m EXCEPT !.queue  = Tail(@),
                  !.active = i,
                  !.ses    = Update(m, i, [m.ses[i] EXCEPT !.status = "starting"])]

CanActivate(m, i) == IsActive(m, i) /\ StatusOf(m, i) = "starting"

Activate(m, i, now) ==
    [m EXCEPT !.ses = Update(m, i,
        [m.ses[i] EXCEPT !.status  = "active",
                         !.started = now,
                         !.expires = IF m.queue # << >> THEN now + Contended ELSE NoTime])]

\* The board's session is over: its status and, when one is given, its reason.
LeaveBoard(m, reason) ==
    LET i == m.active
    IN  [m EXCEPT !.active = NoSession,
                  !.ses    = Update(m, i, [m.ses[i] EXCEPT !.status = "ended",
                                                           !.reason = reason])]

FailStart(m, i) == LeaveBoard(m, "programming_failed")

-----------------------------------------------------------------------------
(* end_by_user *)

\* deque.remove: the first occurrence goes.
Position(q, i) == CHOOSE k \in 1..Len(q) : q[k] = i /\ \A j \in 1..(k - 1) : q[j] # i

RemoveFromQueue(q, i) == RemoveAt(q, Position(q, i))

CanCancel(m, u, i) == m.ses[i].user = u /\ StatusOf(m, i) = "queued"

\* The deadline stays when nobody waits any more.
KeepExpiry(m) == m.ses

\* _clear_active_expiry_if_queue_empty, the sessions after it.
ClearExpiryIfQueueEmpty(m) ==
    IF m.queue = << >> /\ ActiveIs(m, "active")
    THEN Update(m, m.active, [m.ses[m.active] EXCEPT !.expires = NoTime])
    ELSE m.ses

Cancel(m, i) ==
    LET removed == [m EXCEPT !.queue = RemoveFromQueue(@, i),
                             !.ses   = Update(m, i, [m.ses[i] EXCEPT !.status = "ended",
                                                                     !.reason = "cancelled"])]
    IN  [removed EXCEPT !.ses = ClearExpiryIfQueueEmpty(removed)]

CanEndOnBoard(m, u, i) ==
    /\ m.ses[i].user = u
    /\ IsActive(m, i)
    /\ StatusOf(m, i) \in {"starting", "active"}

BeginEnd(m, reason) ==
    [m EXCEPT !.ses = Update(m, m.active,
        [m.ses[m.active] EXCEPT !.status = "ending", !.reason = reason])]

-----------------------------------------------------------------------------
(* begin_active_end and finish_active: both name no session, they act on   *)
(* whichever one is on the board.                                          *)

BeginActiveEnd(m, reason) ==
    IF m.active = NoSession \/ ActiveIs(m, "ending") THEN m ELSE BeginEnd(m, reason)

FinishActive(m) ==
    IF m.active = NoSession THEN m ELSE LeaveBoard(m, m.ses[m.active].reason)

=============================================================================
