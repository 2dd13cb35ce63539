------------------------------- MODULE Feeds --------------------------------
(***************************************************************************)
(* What visitors are told of the board and of their sessions: the events   *)
(* BoardManager publishes at every step of a session's life, the page that *)
(* gets them over its WebSocket after a snapshot, and the anonymous public *)
(* stream.                                                                 *)
(*                                                                         *)
(* The web API is one event loop, and publishing never suspends it.  A     *)
(* step is one run of a coroutine from one suspension to the next: the     *)
(* changes it makes and, in their order, the events it publishes.  How the *)
(* sessions are scheduled is module Board's; here programming, ending and  *)
(* resetting may take any time and any turn.                               *)
(***************************************************************************)
EXTENDS Naturals, FiniteSets, Sequences, SequencesExt

CONSTANTS
    Visitors,
    Pages,          \* the visitors whose page is followed
    Readers,        \* readers of the public stream
    Demos, NoDemo,
    Boards,         \* the agent's reports: "idle", "running", and problems
    SubscriberSize, \* of the queue of a subscription
    OutgoingSize,   \* of the queue of a connection and what is on the wire
    MaxSessions,    \* bound: sessions
    MaxEvents,      \* bound: the agent's reports
    MaxObservers    \* bound: pages and readers connected at once

ASSUME PagesAssumption == Pages \subseteq Visitors
ASSUME DemosAssumption == NoDemo \notin Demos
ASSUME BoardsAssumption == "idle" \in Boards
ASSUME SizeAssumption == SubscriberSize \in Nat \ {0}    \* a queue without a bound would be 0

VARIABLES
    lab,        \* what there is to tell
    work,       \* coroutines that are suspended in the middle of a change
    pages,      \* each page, its connection and its subscription
    readers,    \* the public subscriptions
    last,       \* _last_public_snapshot
    events      \* how much of MaxEvents is used

vars == <<lab, work, pages, readers, last, events>>

Topics == {"board", "session", "queue"}
Problems == Boards \ {"idle", "running"}

NoSession == [id |-> 0, status |-> "none", deadline |-> FALSE]

\* Sessions are numbered as they are created; owners[i] is whose session i is and
\* demos[i] its demo.
Init ==
    /\ lab = [board |-> "idle", connected |-> TRUE, waiting |-> << >>,
              active |-> NoSession, owners |-> << >>, demos |-> << >>]
    /\ work = [starts |-> {}, resets |-> 0, enders |-> 0, lock |-> "free", problem |-> 0]
    /\ pages = [u \in Pages |->
                  [state |-> "closed", sub |-> << >>, out |-> << >>, shown |-> << >>,
                   missed |-> {}]]
    /\ readers = [r \in Readers |-> [open |-> FALSE, slot |-> << >>, seen |-> << >>]]
    /\ last = << >>
    /\ events = 0

-----------------------------------------------------------------------------
(* What there is to tell *)

\* The session of u that is not over yet.
Waiting(l, u) == {id \in ToSet(l.waiting) : l.owners[id] = u}

Session(l, u) ==
    IF l.active.id # 0 /\ l.owners[l.active.id] = u THEN l.active
    ELSE IF Waiting(l, u) # {}
    THEN [id |-> CHOOSE id \in Waiting(l, u) : TRUE, status |-> "queued", deadline |-> FALSE]
    ELSE NoSession

\* queue_for_user and recent_sessions, which are sent together.
Queue(l) == [waiting |-> l.waiting, active |-> l.active]

\* snapshot_for
Snapshot(l, u) == [board |-> l.board, session |-> Session(l, u), queue |-> Queue(l)]

\* active_demo
ActiveDemo(l) ==
    IF l.connected /\ l.active.status \in {"starting", "active"}
    THEN l.demos[l.active.id] ELSE NoDemo

\* public_snapshot: of the active session it has the demo, so that the snapshots
\* of two sessions may be equal.  Two reports of one board value are the same
\* report, its time included.
PublicSnapshot(l) ==
    [online |-> l.connected, board |-> l.board, demo |-> ActiveDemo(l), waiting |-> Len(l.waiting)]

Event(topic, value) == [topic |-> topic, value |-> value, stale |-> FALSE]

-----------------------------------------------------------------------------
(* Publishing *)

\* _publish_user: a full queue loses its oldest event, and what is published
\* before the connection has subscribed is lost too.  missed remembers of which
\* topics the latest was lost, or followed by something stale.
Received(p, e) ==
    LET full == Len(p.sub) = SubscriberSize
        kept == Append(IF full THEN Tail(p.sub) ELSE p.sub, e)
        lost == (IF full THEN {Head(p.sub).topic} ELSE {}) \ {kept[i].topic : i \in DOMAIN kept}
        stale == IF e.stale THEN {e.topic} ELSE {}
    IN  CASE p.state = "closed" -> p
          [] p.state = "opened" -> [p EXCEPT !.missed = @ \cup ({e.topic} \cap Topics)]
          [] OTHER -> [p EXCEPT !.sub = kept,
                                !.missed = (@ \ {e.topic}) \cup ((lost \cup stale) \cap Topics)]

\* All that events change, so that a step can publish one after the other.
Feed == [pages |-> pages, readers |-> readers, last |-> last]

AnyReader(f) == \E r \in Readers : f.readers[r].open

ToReaders(f, snapshot) ==
    [f EXCEPT !.last = snapshot,
              !.readers = [r \in Readers |-> IF @[r].open THEN [@[r] EXCEPT !.slot = <<snapshot>>]
                                             ELSE @[r]]]

\* What was published last is remembered when nobody reads.
PublishPublicRemembers(f, snapshot) ==
    IF ~AnyReader(f) \/ snapshot = f.last THEN f ELSE ToReaders(f, snapshot)

\* _publish_public: one slot each, and what was published last is not repeated.
PublishPublic(f, snapshot) ==
    IF ~AnyReader(f) THEN [f EXCEPT !.last = << >>]
    ELSE IF snapshot = f.last THEN f ELSE ToReaders(f, snapshot)

PublishUser(f, u, event) ==
    [f EXCEPT !.pages = [v \in Pages |-> IF v = u THEN Received(@[v], event) ELSE @[v]]]

Broadcast(f, l, event) ==
    PublishPublic([f EXCEPT !.pages = [v \in Pages |-> Received(@[v], event)]], PublicSnapshot(l))

SessionUpdated(f, l, u) == PublishUser(f, u, Event("session", Session(l, u)))
BoardUpdated(f, l) == Broadcast(f, l, Event("board", l.board))
QueueUpdated(f, l) == Broadcast(f, l, Event("queue", Queue(l)))

\* The state after a step, and what has been published of it.
Step(l, w, f) ==
    /\ lab' = l /\ work' = w
    /\ pages' = f.pages /\ readers' = f.readers /\ last' = f.last

-----------------------------------------------------------------------------
(* The life of a session *)

MayStart(l) == l.board = "idle" /\ l.active = NoSession /\ l.waiting # << >>

\* _try_start_next, up to the first programming request.
StartNext(l) ==
    IF MayStart(l)
    THEN [l EXCEPT !.waiting = Tail(@),
                   !.active = [id |-> Head(l.waiting), status |-> "starting", deadline |-> FALSE]]
    ELSE l

StartTold(f, l) ==
    IF MayStart(l)
    THEN QueueUpdated(SessionUpdated(f, StartNext(l), l.owners[Head(l.waiting)]), StartNext(l))
    ELSE f

StartWork(l, w) == [w EXCEPT !.starts = @ \cup IF MayStart(l) THEN {Head(l.waiting)} ELSE {}]

StepAndStartNext(l, w, f) == Step(StartNext(l), StartWork(l, w), StartTold(f, l))

\* create_session: the owner of the board is told when its time is now limited.
Create(l, u, d) ==
    [l EXCEPT !.waiting = Append(@, Len(l.owners) + 1),
              !.owners = Append(@, u),
              !.demos = Append(@, d),
              !.active.deadline = @ \/ l.active.status = "active"]

\* The owner is not told.
OwnerForgotten(f, l, l1) == f

OwnerTold(f, l, l1) ==
    IF l.active.deadline = l1.active.deadline THEN f
    ELSE SessionUpdated(f, l1, l.owners[l.active.id])

CreateSession(u, d) ==
    LET l == Create(lab, u, d)
    IN  /\ Session(lab, u) = NoSession
        /\ lab.board # "reserved"
        /\ Len(lab.owners) < MaxSessions
        /\ StepAndStartNext(l, work,
                            OwnerTold(QueueUpdated(SessionUpdated(Feed, l, u), l), lab, l))
        /\ UNCHANGED events

\* end_session of one that waits.
Cancel(l, id) ==
    LET waiting == RemoveFirst(l.waiting, id)
    IN  [l EXCEPT !.waiting = waiting,
                  !.active.deadline = @ /\ waiting # << >>]

CancelSession(u) ==
    LET l == Cancel(lab, Session(lab, u).id)
    IN  /\ Session(lab, u).status = "queued"
        /\ Step(l, work, OwnerTold(QueueUpdated(SessionUpdated(Feed, l, u), l), lab, l))
        /\ UNCHANGED events

Ending(l) == [l EXCEPT !.active.status = "ending"]

\* end_session of the one that has the board takes the flow lock or waits for it,
\* maybe behind an earlier one whose session something else has finished.
EndSession(u) ==
    LET lock == IF work.enders = 0 /\ work.lock = "free" THEN "user" ELSE work.lock
    IN  /\ Session(lab, u).status \in {"starting", "active"}
        /\ Step(Ending(lab), [work EXCEPT !.enders = @ + 1, !.lock = lock],
                SessionUpdated(Feed, Ending(lab), u))
        /\ UNCHANGED events

\* The expiry or the disconnect timer ends what is active once it has the lock.
TimerEnds ==
    /\ work.lock = "free"
    /\ lab.active # NoSession
    /\ LET u == lab.owners[lab.active.id]
       IN  Step(Ending(lab), [work EXCEPT !.lock = "timer"], SessionUpdated(Feed, Ending(lab), u))
    /\ UNCHANGED events

\* finish_active: whichever session is active is over.
Finished(l) == [l EXCEPT !.active = NoSession]
FinishTold(f, l) ==
    IF l.active = NoSession THEN f ELSE SessionUpdated(f, Finished(l), l.owners[l.active.id])

\* The lock is left to whoever waits for it, a timer may be the first.
EndFinished(w) ==
    /\ StepAndStartNext(Finished(lab), [w EXCEPT !.lock = "free"],
                        QueueUpdated(FinishTold(Feed, lab), Finished(lab)))
    /\ UNCHANGED events

EndingFinishes ==
    /\ work.enders > 0 /\ work.lock # "timer"
    /\ EndFinished([work EXCEPT !.enders = @ - 1])

TimerFinishes == work.lock = "timer" /\ EndFinished(work)

\* The board is programmed and the demo runs; the session may be over by now.
Activated(l) == [l EXCEPT !.active.status = "active", !.active.deadline = l.waiting # << >>]

Started(id) ==
    /\ id \in work.starts
    /\ LET w == [work EXCEPT !.starts = @ \ {id}]
           l == Activated(lab)
           u == lab.owners[id]
       IN  IF lab.active.id = id /\ lab.active.status = "starting"
           THEN Step(l, w, QueueUpdated(SessionUpdated(Feed, l, u), l))
           ELSE Step(lab, w, Feed)
    /\ UNCHANGED events

\* Only its owner hears of a start that failed, until the board is reset.
StartFails(id) ==
    /\ id \in work.starts
    /\ LET w == [work EXCEPT !.starts = @ \ {id}, !.resets = @ + 1]
           l == Finished(lab)
           u == lab.owners[id]
       IN  IF lab.active.id = id /\ lab.active.status = "starting"
           THEN Step(l, w, SessionUpdated(Feed, l, u))
           ELSE Step(lab, w, Feed)
    /\ UNCHANGED events

ResetAnswers ==
    /\ work.resets > 0
    /\ LET w == [work EXCEPT !.resets = @ - 1]
       IN  \/ \E b \in Boards :
                LET l == [lab EXCEPT !.board = b]
                IN  StepAndStartNext(l, w, QueueUpdated(BoardUpdated(Feed, l), l))
           \/ StepAndStartNext(lab, w, QueueUpdated(Feed, lab))
    /\ UNCHANGED events

-----------------------------------------------------------------------------
(* The agent's events *)

\* _handle_board_state.  A problem ends the session, of which nobody hears
\* before its runtime has stopped; the watch task waits for that.  A timer that is
\* ending it already is cancelled if it is the expiry.
BoardEvent(b) ==
    LET l == [lab EXCEPT !.board = b, !.connected = TRUE]
    IN  /\ work.problem = 0
        /\ events < MaxEvents
        /\ events' = events + 1
        /\ IF b \in Problems /\ l.active # NoSession
           THEN \E lock \in {work.lock} \cup (IF work.lock = "timer" THEN {"free"} ELSE {}) :
                   Step(Ending(l), [work EXCEPT !.problem = l.active.id, !.lock = lock],
                        BoardUpdated(Feed, l))
           ELSE StepAndStartNext(l, work, BoardUpdated(Feed, l))

\* What it publishes first is the session as it was when the problem came.
ProblemFinishes ==
    /\ work.problem # 0
    /\ LET u == lab.owners[work.problem]
           then == [id |-> work.problem, status |-> "ending", deadline |-> FALSE]
           told == PublishUser(Feed, u, [Event("session", then) EXCEPT !.stale = TRUE])
       IN  Step(Finished(lab), [work EXCEPT !.problem = 0],
                QueueUpdated(FinishTold(told, lab), Finished(lab)))
    /\ UNCHANGED events

\* The agent's event stream is lost, until the next report.  Pages get a message, which like the others
\* says nothing of the state and is left out.
AgentLost ==
    LET l == [lab EXCEPT !.connected = FALSE]
    IN  /\ work.problem = 0
        /\ lab.connected
        /\ events < MaxEvents
        /\ UNCHANGED events
        /\ Step(l, work, PublishPublic(Feed, PublicSnapshot(l)))

-----------------------------------------------------------------------------
(* A page and its WebSocket *)

Observed ==
    Cardinality({u \in Pages : pages[u].state # "closed"})
        + Cardinality({r \in Readers : readers[r].open})

SetPage(u, p) == pages' = [pages EXCEPT ![u] = p]

\* websocket: the snapshot is the first thing sent; the task that subscribes has
\* been created and not run yet.
Connects(u) ==
    /\ pages[u].state = "closed"
    /\ Observed < MaxObservers
    /\ SetPage(u, [pages[u] EXCEPT
                     !.state = "opened",
                     !.out = <<[topic |-> "initial", value |-> Snapshot(lab, u)]>>,
                     !.missed = {}])
    /\ UNCHANGED <<lab, work, readers, last, events>>

Subscribes(u) ==
    /\ pages[u].state = "opened"
    /\ SetPage(u, [pages[u] EXCEPT !.state = "subscribed"])
    /\ UNCHANGED <<lab, work, readers, last, events>>

\* forward_updates, which holds one event while the connection's queue is full.
Forwards(u) ==
    /\ pages[u].sub # << >>
    /\ Len(pages[u].out) <= OutgoingSize
    /\ SetPage(u, [pages[u] EXCEPT !.sub = Tail(@), !.out = Append(@, Head(pages[u].sub))])
    /\ UNCHANGED <<lab, work, readers, last, events>>

\* The page does not know the topic of the queue.
ShownButQueue(shown, e) ==
    IF e.topic = "initial" THEN e.value
    ELSE IF e.topic \in {"board", "session"} THEN [shown EXCEPT ![e.topic] = e.value]
    ELSE shown

\* The page's handler of messages.
Shown(shown, e) ==
    IF e.topic = "initial" THEN e.value
    ELSE IF e.topic \in Topics THEN [shown EXCEPT ![e.topic] = e.value]
    ELSE shown

Delivers(u) ==
    /\ pages[u].out # << >>
    /\ SetPage(u, [pages[u] EXCEPT !.out = Tail(@), !.shown = Shown(@, Head(pages[u].out))])
    /\ UNCHANGED <<lab, work, readers, last, events>>

\* A page without its connection shows no state.
Disconnects(u) ==
    /\ pages[u].state # "closed"
    /\ SetPage(u, [state |-> "closed", sub |-> << >>, out |-> << >>, shown |-> << >>,
                   missed |-> {}])
    /\ UNCHANGED <<lab, work, readers, last, events>>

-----------------------------------------------------------------------------
(* The public stream *)

Opens(r) ==
    /\ ~readers[r].open
    /\ Observed < MaxObservers
    /\ readers' = [readers EXCEPT ![r] = [open |-> TRUE, slot |-> <<PublicSnapshot(lab)>>,
                                         seen |-> << >>]]
    /\ UNCHANGED <<lab, work, pages, last, events>>

Fetches(r) ==
    /\ readers[r].slot # << >>
    /\ readers' = [readers EXCEPT ![r].slot = << >>, ![r].seen = readers[r].slot]
    /\ UNCHANGED <<lab, work, pages, last, events>>

Closes(r) ==
    /\ readers[r].open
    /\ readers' = [readers EXCEPT ![r] = [open |-> FALSE, slot |-> << >>, seen |-> << >>]]
    /\ UNCHANGED <<lab, work, pages, last, events>>

-----------------------------------------------------------------------------

Finishes == EndingFinishes \/ TimerFinishes \/ ProblemFinishes
Proceeds(id) == Started(id) \/ StartFails(id)

Next ==
    \/ \E u \in Visitors : (\E d \in Demos : CreateSession(u, d)) \/ CancelSession(u) \/ EndSession(u)
    \/ TimerEnds \/ Finishes \/ ResetAnswers
    \/ \E id \in 1..MaxSessions : Proceeds(id)
    \/ \E b \in Boards : BoardEvent(b)
    \/ AgentLost
    \/ \E u \in Pages : \/ Connects(u) \/ Subscribes(u) \/ Forwards(u) \/ Delivers(u) \/ Disconnects(u)
    \/ \E r \in Readers : Opens(r) \/ Fetches(r) \/ Closes(r)

\* The event loop runs the two tasks of a connection and the network delivers.
Fairness ==
    \A u \in Pages : WF_vars(Subscribes(u) \/ Forwards(u) \/ Delivers(u))

Spec == Init /\ [][Next]_vars /\ Fairness

-----------------------------------------------------------------------------

\* A session whose end has begun and which the others have not heard of yet.
Unannounced == lab.active.status = "ending" \/ work.resets > 0

\* Reader r has, or is about to get, the snapshot as it is now.
HasLatest(r) ==
    (IF readers[r].slot # << >> THEN readers[r].slot ELSE readers[r].seen) = <<PublicSnapshot(lab)>>

\* Every open public reader has the latest snapshot, but for an end that is
\* announced when it is complete: dropping the oldest entry and leaving out a
\* snapshot equal to the last one never leave an old one for good, although the
\* next session may make a snapshot equal to an earlier one
\* (BoardManager._publish_public).
PublicIsCurrent == ~Unannounced => \A r \in Readers : readers[r].open => HasLatest(r)

\* The stream has the snapshot "on connect and on every change" (README, Public
\* board status), and the queue of a reader "always holds the latest public
\* snapshot" (BoardManager.open_public_subscription).
EveryChangeIsPublic == \A r \in Readers : readers[r].open => HasLatest(r)

\* What a page will show of a topic when all that is under way has arrived.
Under(p, t) ==
    LET all == p.out \o p.sub
        about == {i \in DOMAIN all : all[i].topic \in {t, "initial"}}
        final == all[Max(about)]
    IN  IF about = {} THEN p.shown[t]
        ELSE IF final.topic = "initial" THEN final.value[t] ELSE final.value

Owed(u) ==
    (IF work.problem # 0 /\ work.problem = lab.active.id /\ lab.owners[work.problem] = u
     THEN {"session"} ELSE {})
    \cup (IF Unannounced THEN {"queue"} ELSE {})

\* Snapshot, subscription and events leave a page with the latest of everything:
\* what is older never overtakes what is newer, and every step that changes what
\* a page shows is announced to it, once it is complete.  What a page misses is
\* what a full queue dropped, what came before the connection had subscribed,
\* and a session whose end was overtaken by another's (board.py, api.py).
PageIsCurrent ==
    \A u \in Pages : pages[u].state # "closed" =>
        \A t \in Topics \ (pages[u].missed \cup Owed(u)) :
            Under(pages[u], t) = Snapshot(lab, u)[t]

\* A page that stays connected comes to show all that it was told, when no end
\* of a session is left to be announced.
PageCatchesUp ==
    \A u \in Pages :
        <>[](pages[u].state = "subscribed" /\ Owed(u) = {}) =>
        []<>(/\ pages[u].shown # << >>
             /\ \A t \in Topics \ pages[u].missed : pages[u].shown[t] = Snapshot(lab, u)[t])
=============================================================================
