------------------------------ MODULE Sessions ------------------------------
(***************************************************************************)
(* SessionManager on its own: any caller may make any call at any time.    *)
(* What holds here holds whatever the board manager and the API do.  A     *)
(* call that the code rejects with SessionError changes nothing and is a   *)
(* stuttering step.                                                        *)
(***************************************************************************)
EXTENDS SessionStore

CONSTANT MaxTime        \* bound: the last instant of the clock
ASSUME TimeAssumption == MaxTime \in Nat

VARIABLES store,        \* _sessions, _queue and _active_id
          now           \* the wall clock, _now()

vars == <<store, now>>

Init == store = EmptyStore /\ now = 0

DoCreate(u, d) ==
    /\ CanCreate(store, u)
    /\ store' = Create(store, u, d, now)
    /\ UNCHANGED now

DoBeginNext ==
    /\ CanBegin(store)
    /\ store' = BeginNext(store)
    /\ UNCHANGED now

DoActivate(i) ==
    /\ CanActivate(store, i)
    /\ store' = Activate(store, i, now)
    /\ UNCHANGED now

DoFailStart(i) ==
    /\ IsActive(store, i)
    /\ store' = FailStart(store, i)
    /\ UNCHANGED now

DoCancel(u, i) ==
    /\ CanCancel(store, u, i)
    /\ store' = Cancel(store, i)
    /\ UNCHANGED now

DoEndOnBoard(u, i) ==
    /\ CanEndOnBoard(store, u, i)
    /\ store' = BeginEnd(store, "user_ended")
    /\ UNCHANGED now

DoBeginActiveEnd(reason) ==
    /\ store' = BeginActiveEnd(store, reason)
    /\ UNCHANGED now

DoFinishActive ==
    /\ store' = FinishActive(store)
    /\ UNCHANGED now

Tick ==
    /\ now < MaxTime
    /\ now' = now + 1
    /\ UNCHANGED store

Next ==
    \/ \E u \in Users, d \in Demos : DoCreate(u, d)
    \/ DoBeginNext
    \/ \E i \in SessionIds : DoActivate(i)
    \/ \E i \in SessionIds : DoFailStart(i)
    \/ \E u \in Users, i \in SessionIds : DoCancel(u, i)
    \/ \E u \in Users, i \in SessionIds : DoEndOnBoard(u, i)
    \/ \E r \in EndReasons : DoBeginActiveEnd(r)
    \/ DoFinishActive
    \/ Tick

Spec == Init /\ [][Next]_vars

-----------------------------------------------------------------------------
(* Properties *)

\* The shape of the store, and a clock that never runs past its bound: no
\* deadline is set that create or activate could not compute from it.
TypeOK == store \in Store /\ now \in 0..MaxTime

\* Ids are used up to the count, and the slots above it are blank.
Allocated ==
    \A i \in SessionIds : (i <= store.count) = (store.ses[i] # Blank)

Increasing(q) == \A j, k \in 1..Len(q) : j < k => q[j] < q[k]

\* The deque holds the ids in the order the sessions were created: nothing
\* the callers do lets a later session overtake an earlier one.
QueueInOrder == Increasing(store.queue)

\* A session waits exactly while its id is in the deque: none is lost from
\* the queue and none is left in it after it was cancelled or started.
QueueHoldsTheWaiting ==
    \A i \in SessionIds :
        store.ses[i].status = "queued" <=> Contains(store.queue, i)

\* "Only one active/starting session can own the board" (README): a session
\* is starting, active or ending exactly while it is the active one.
SingleOwner ==
    \A i \in SessionIds : store.ses[i].status \in OnBoard <=> i = store.active

\* A user has one live session at most, whatever calls overlap.
OneLiveSessionPerUser ==
    \A i, j \in SessionIds :
        /\ store.ses[i].status \notin {"unused", "ended"}
        /\ store.ses[j].status \notin {"unused", "ended"}
        /\ store.ses[i].user = store.ses[j].user
        => i = j

\* An active session is time-limited exactly while somebody waits for the
\* board: create sets the deadline, cancelling the last waiting one lifts it.
LimitedIffContended ==
    ActiveIs(store, "active") =>
        (store.ses[store.active].expires # NoTime <=> store.queue # << >>)

\* "The active user should keep at least their minimum contended session
\* window" (SessionManager.create): a deadline is never earlier than the
\* start plus the window.
MinimumWindow ==
    \A i \in SessionIds :
        store.ses[i].expires # NoTime =>
            /\ store.ses[i].started # NoTime
            /\ store.ses[i].expires >= store.ses[i].started + Contended

\* The clock of a session starts when it becomes active and not before.
ClockStartsWhenActive ==
    \A i \in SessionIds :
        LET s == store.ses[i]
        IN  /\ s.status \in {"queued", "starting"} => s.started = NoTime /\ s.expires = NoTime
            /\ s.status = "active" => s.started # NoTime

\* A session that is still waiting, starting or running has no end reason.
ReasonOnlyAtEnd ==
    \A i \in SessionIds :
        store.ses[i].status \notin {"ending", "ended"} => store.ses[i].reason = "none"

\* The invariants above make an inductive one together.
SessionsInv ==
    /\ TypeOK
    /\ Allocated
    /\ QueueInOrder
    /\ QueueHoldsTheWaiting
    /\ SingleOwner
    /\ OneLiveSessionPerUser
    /\ ClockStartsWhenActive
    /\ ReasonOnlyAtEnd
    /\ LimitedIffContended
    /\ MinimumWindow

\* The moves of a session's status.
Lifecycle ==
    {<<"unused", "queued">>, <<"queued", "starting">>, <<"queued", "ended">>,
     <<"starting", "active">>, <<"starting", "ending">>, <<"starting", "ended">>,
     <<"active", "ending">>, <<"active", "ended">>, <<"ending", "ended">>}

\* A session only moves forward, an ended session never changes again, and
\* the reason a session is ending for is the one it has ended with: a second
\* ender (a fault while the user's end is being carried out) does not
\* rewrite history.  The exception is fail_start, which overwrites it.
ForwardOnly ==
    [][\A i \in SessionIds :
         LET before == store.ses[i]
             after  == store'.ses[i]
         IN  /\ \/ after.status = before.status
                \/ <<before.status, after.status>> \in Lifecycle
             /\ before.status = "ended" => after = before
             /\ before.reason # "none" =>
                    after.reason \in {before.reason, "programming_failed"}]_vars

\* While a deadline stands it does not move: neither a second newcomer nor
\* anything else shortens or extends the time the active user was told.
DeadlineStands ==
    [][\A i \in SessionIds :
         store.ses[i].expires # NoTime /\ store'.ses[i].expires # NoTime =>
             store'.ses[i].expires = store.ses[i].expires]_vars

\* The store hands the board out like a ticket queue.
Turns == INSTANCE BoardTurns
            WITH Tickets <- SessionIds, NoTicket <- NoSession,
                 issued <- store.count, waiting <- store.queue, holder <- store.active

TurnsSpec == Turns!Spec
=============================================================================
