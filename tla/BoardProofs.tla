----------------------------- MODULE BoardProofs -----------------------------
(***************************************************************************)
(* The flow lock is never left to a task that is gone, whatever interleaves *)
(* with whatever goes wrong, for any number of users and sessions: every   *)
(* task in the lock is at a point where it waits for it or holds it, and   *)
(* every task at such a point is in the lock, once.                        *)
(*                                                                         *)
(* This is not inductive.  A task may only be started anew when its        *)
(* predecessor is not in the lock any more: an ender, since a session ends *)
(* once; an expiry for the same deadline, since one that has fired lies in *)
(* the past; a disconnect timer, since it is forgotten only when it is     *)
(* cancelled or has left the lock.                                         *)
(*                                                                         *)
(* The second half, from Starters on, proves that the board is never left  *)
(* to a session nobody is responsible for.                                 *)
(***************************************************************************)
EXTENDS Board, SequenceTheorems, TLAPS

Once(q) == \A i, j \in 1..Len(q) : q[i] = q[j] => i = j

-----------------------------------------------------------------------------
(* Queues in which everybody stands once *)

\* One element is taken out, and those behind it move up by one.
LEMMA RemoveAtShape ==
    ASSUME NEW S, NEW q \in Seq(S), NEW k \in 1..Len(q)
    PROVE  /\ RemoveAt(q, k) \in Seq(S)
           /\ Len(RemoveAt(q, k)) = Len(q) - 1
           /\ \A j \in 1..(Len(q) - 1) : RemoveAt(q, k)[j] = IF j < k THEN q[j] ELSE q[j + 1]
<1>0. Len(q) \in Nat /\ \A j \in 1..Len(q) : q[j] \in S
  OBVIOUS
<1> DEFINE a == SubSeq(q, 1, k - 1)
           b == SubSeq(q, k + 1, Len(q))
<1>1. RemoveAt(q, k) = a \o b
  BY DEF RemoveAt
<1>3. a \in Seq(S) /\ Len(a) = k - 1 /\ \A j \in 1..(k - 1) : a[j] = q[j]
  BY <1>0, SubSeqProperties
<1>4. b \in Seq(S) /\ Len(b) = Len(q) - k /\ \A j \in 1..(Len(q) - k) : b[j] = q[k + j]
  BY <1>0, SubSeqProperties
<1> HIDE DEF a, b
<1>5. /\ a \o b \in Seq(S)
      /\ Len(a \o b) = Len(a) + Len(b)
      /\ \A j \in 1..(Len(a) + Len(b)) : (a \o b)[j] = IF j <= Len(a) THEN a[j] ELSE b[j - Len(a)]
  BY <1>3, <1>4, ConcatProperties
<1>6. Len(a \o b) = Len(q) - 1
  BY <1>0, <1>3, <1>4, <1>5
<1>7. ASSUME NEW j \in 1..(Len(q) - 1)
      PROVE  (a \o b)[j] = IF j < k THEN q[j] ELSE q[j + 1]
  <2>1. CASE j < k
    BY <1>0, <1>3, <1>4, <1>5, <2>1
  <2>2. CASE ~(j < k)
    <3>1. (a \o b)[j] = b[j - (k - 1)]
      <4>1. j \in 1..(Len(a) + Len(b)) /\ ~(j <= Len(a)) /\ Len(a) = k - 1
        BY <1>0, <1>3, <1>4, <2>2
      <4> QED
        BY <1>5, <4>1
    <3>2. j - (k - 1) \in 1..(Len(q) - k) /\ k + (j - (k - 1)) = j + 1
      BY <1>0, <2>2
    <3> QED
      BY <1>4, <2>2, <3>1, <3>2
  <2> QED
    BY <2>1, <2>2
<1> QED
  BY <1>1, <1>5, <1>6, <1>7

\* deque.remove takes exactly the one element out.
LEMMA RemoveShape ==
    ASSUME NEW S, NEW q \in Seq(S), Once(q), NEW x, Contains(q, x)
    PROVE  \E k \in 1..Len(q) :
              /\ q[k] = x
              /\ RemoveFromQueue(q, x) \in Seq(S)
              /\ Len(RemoveFromQueue(q, x)) = Len(q) - 1
              /\ \A j \in 1..(Len(q) - 1) :
                    RemoveFromQueue(q, x)[j] = IF j < k THEN q[j] ELSE q[j + 1]
<1> DEFINE k == Position(q, x)
<1>1. k \in 1..Len(q) /\ q[k] = x
  <2>0. Len(q) \in Nat
    OBVIOUS
  <2>1. PICK p \in 1..Len(q) : q[p] = x
    BY DEF Contains
  <2>2. \A j \in 1..(p - 1) : q[j] # x
    BY <2>0, <2>1 DEF Once
  <2> QED
    BY <2>1, <2>2 DEF Position
<1>2. RemoveFromQueue(q, x) = RemoveAt(q, k)
  BY DEF RemoveFromQueue
<1> HIDE DEF k
<1> QED
  BY <1>1, <1>2, RemoveAtShape

\* Who is cancelled is gone, the others stay, nobody changes place with the
\* head.
LEMMA RemoveOnce ==
    ASSUME NEW S, NEW q \in Seq(S), Once(q), NEW x, Contains(q, x)
    PROVE  LET r == RemoveFromQueue(q, x)
           IN  /\ r \in Seq(S)
               /\ Once(r)
               /\ \A y : Contains(r, y) <=> Contains(q, y) /\ y # x
               /\ \A i \in 2..Len(r) : \E j \in 2..Len(q) : r[i] = q[j]
               /\ x # Head(q) => r # << >> /\ Head(r) = Head(q)
<1> DEFINE r == RemoveFromQueue(q, x)
<1>0. Len(q) \in Nat /\ Len(q) > 0
  BY DEF Contains
<1>1. PICK k \in 1..Len(q) :
        /\ q[k] = x
        /\ r \in Seq(S)
        /\ Len(r) = Len(q) - 1
        /\ \A j \in 1..(Len(q) - 1) : r[j] = IF j < k THEN q[j] ELSE q[j + 1]
  BY RemoveShape
<1> HIDE DEF r
<1>2. ASSUME NEW i \in 1..Len(r), NEW j \in 1..Len(r), r[i] = r[j]
      PROVE  i = j
  <2>1. PICK m \in 1..Len(q) : r[i] = q[m] /\ m = IF i < k THEN i ELSE i + 1
    BY <1>0, <1>1
  <2>2. PICK n \in 1..Len(q) : r[j] = q[n] /\ n = IF j < k THEN j ELSE j + 1
    BY <1>0, <1>1
  <2>3. m = n
    BY <1>2, <2>1, <2>2 DEF Once
  <2> QED
    BY <1>0, <1>1, <2>1, <2>2, <2>3
<1>3. ASSUME NEW y
      PROVE  Contains(r, y) <=> Contains(q, y) /\ y # x
  <2>1. ASSUME Contains(r, y) PROVE Contains(q, y) /\ y # x
    <3>1. PICK n \in 1..(Len(q) - 1) : r[n] = y
      BY <1>1, <2>1 DEF Contains
    <3>2. PICK m \in 1..Len(q) : q[m] = y /\ m # k
      BY <1>0, <1>1, <3>1
    <3> QED
      BY <1>1, <3>2 DEF Contains, Once
  <2>2. ASSUME Contains(q, y), y # x PROVE Contains(r, y)
    <3>1. PICK m \in 1..Len(q) : q[m] = y
      BY <2>2 DEF Contains
    <3>2. CASE m < k
      <4>1. m \in 1..Len(r) /\ r[m] = y
        BY <1>0, <1>1, <3>1, <3>2
      <4> QED
        BY <4>1 DEF Contains
    <3>3. CASE m > k
      <4>1. m - 1 \in 1..Len(r) /\ r[m - 1] = y
        BY <1>0, <1>1, <3>1, <3>3
      <4> QED
        BY <4>1 DEF Contains
    <3> QED
      BY <1>0, <1>1, <2>2, <3>1, <3>2, <3>3
  <2> QED
    BY <2>1, <2>2
<1>4. ASSUME NEW i \in 2..Len(r)
      PROVE  \E j \in 2..Len(q) : r[i] = q[j]
  <2>1. (i \in 2..Len(q) /\ r[i] = q[i]) \/ (i + 1 \in 2..Len(q) /\ r[i] = q[i + 1])
    BY <1>0, <1>1
  <2> QED
    BY <2>1
<1>5. ASSUME x # Head(q)
      PROVE  r # << >> /\ Head(r) = Head(q)
  <2>1. k > 1 /\ Len(r) > 0
    BY <1>0, <1>1, <1>5
  <2>2. r[1] = q[1]
    BY <1>0, <1>1, <2>1
  <2>3. r # << >>
    BY <2>1
  <2> QED
    BY <1>0, <1>1, <2>1, <2>2, <2>3
<1> QED
  BY <1>1, <1>2, <1>3, <1>4, <1>5 DEF r, Once

\* The one who is served leaves from the head.
LEMMA PopOnce ==
    ASSUME NEW S, NEW q \in Seq(S), Once(q), q # << >>
    PROVE  /\ Head(q) \in S /\ Contains(q, Head(q))
           /\ Tail(q) \in Seq(S)
           /\ Once(Tail(q))
           /\ \A y : Contains(Tail(q), y) <=> Contains(q, y) /\ y # Head(q)
           /\ \A i \in 1..Len(Tail(q)) : i + 1 \in 2..Len(q) /\ Tail(q)[i] = q[i + 1]
<1>1. /\ Len(q) \in Nat /\ Len(q) > 0
      /\ Head(q) = q[1] /\ q[1] \in S
      /\ Tail(q) \in Seq(S) /\ Len(Tail(q)) = Len(q) - 1
      /\ \A i \in 1..Len(Tail(q)) : Tail(q)[i] = q[i + 1]
  OBVIOUS
<1> DEFINE r == Tail(q)
<1> HIDE DEF r
<1>2. Len(r) = Len(q) - 1 /\ \A i \in 1..Len(r) : i + 1 \in 2..Len(q) /\ r[i] = q[i + 1]
  BY <1>1 DEF r
<1>3. Once(r)
  BY <1>1, <1>2 DEF Once
<1>4. ASSUME NEW y
      PROVE  Contains(r, y) <=> Contains(q, y) /\ y # q[1]
  <2>1. ASSUME Contains(r, y) PROVE Contains(q, y) /\ y # q[1]
    BY <1>1, <1>2, <2>1 DEF Contains, Once
  <2>2. ASSUME Contains(q, y), y # q[1] PROVE Contains(r, y)
    <3>1. PICK m \in 1..Len(q) : q[m] = y
      BY <2>2 DEF Contains
    <3>2. m - 1 \in 1..Len(r) /\ r[m - 1] = y
      BY <1>1, <1>2, <2>2, <3>1
    <3> QED
      BY <3>2 DEF Contains
  <2> QED
    BY <2>1, <2>2
<1>5. Contains(q, q[1])
  BY <1>1 DEF Contains
<1> QED
  BY <1>1, <1>2, <1>3, <1>4, <1>5 DEF r

\* A newcomer goes to the end.
LEMMA AppendOnce ==
    ASSUME NEW S, NEW q \in Seq(S), Once(q), NEW x \in S, ~Contains(q, x)
    PROVE  /\ Append(q, x) \in Seq(S)
           /\ Once(Append(q, x))
           /\ \A y : Contains(Append(q, x), y) <=> Contains(q, y) \/ y = x
           /\ q # << >> => Head(Append(q, x)) = Head(q)
           /\ q = << >> => Head(Append(q, x)) = x
           /\ Append(q, x) # << >>
           /\ \A i \in 2..Len(Append(q, x)) :
                 \/ i \in 2..Len(q) /\ Append(q, x)[i] = q[i]
                 \/ Append(q, x)[i] = x
<1> DEFINE r == Append(q, x)
<1>1. /\ Len(q) \in Nat /\ r \in Seq(S) /\ Len(r) = Len(q) + 1 /\ r[Len(q) + 1] = x
      /\ \A i \in 1..Len(q) : r[i] = q[i]
  OBVIOUS
<1>2. q # << >> => Head(q) = q[1] /\ Len(q) >= 1
  BY <1>1
<1>3. q = << >> => Len(q) = 0
  OBVIOUS
<1>9. Head(r) = r[1] /\ r # << >>
  BY <1>1
<1> HIDE DEF r
<1>4. Once(r)
  BY <1>1 DEF Once, Contains
<1>5. ASSUME NEW y PROVE Contains(r, y) <=> Contains(q, y) \/ y = x
  <2>1. Contains(r, y) => Contains(q, y) \/ y = x
    BY <1>1 DEF Contains
  <2>2. Contains(q, y) => Contains(r, y)
    BY <1>1 DEF Contains
  <2>3. Contains(r, x)
    <3>1. Len(q) + 1 \in 1..Len(r)
      BY <1>1
    <3> QED
      BY <1>1, <3>1 DEF Contains
  <2> QED
    BY <2>1, <2>2, <2>3
<1> QED
  BY <1>1, <1>2, <1>3, <1>4, <1>5, <1>9 DEF r

-----------------------------------------------------------------------------
(* The store, as far as the lock depends on it *)

\* Sessions that were not created are unused, and the queue holds exactly the
\* waiting, and on the board is the active one.
StoreOK(m) ==
    /\ m \in Store
    /\ \A i \in SessionIds : i > m.count => StatusOf(m, i) = "unused"
    /\ Once(m.queue)
    /\ \A i \in SessionIds : Contains(m.queue, i) <=> StatusOf(m, i) = "queued"
    /\ m.active # NoSession => StatusOf(m, m.active) \in OnBoard
    /\ \A i \in SessionIds : StatusOf(m, i) \in OnBoard => i = m.active

\* Sessions that have been active or have begun to end do not go back.
Ending == {"ending", "ended"}
Begun == {"active", "ending", "ended"}

Forward(m, n) ==
    \A i \in SessionIds : /\ StatusOf(m, i) \in Ending => StatusOf(n, i) \in Ending
                          /\ StatusOf(m, i) \in Begun => StatusOf(n, i) \in Begun
                          /\ StatusOf(m, i) # "unused" => StatusOf(n, i) # "unused"

LEMMA ForwardTwice ==
    ASSUME NEW m, NEW n, NEW o, Forward(m, n), Forward(n, o) PROVE Forward(m, o)
BY DEF Forward

LEMMA StoreFacts ==
    ASSUME NEW m, m \in Store
    PROVE  /\ m.ses \in [SessionIds -> DemoSession]
           /\ m.count \in 0..MaxSessions
           /\ m.queue \in Seq(SessionIds)
           /\ m.active \in SessionIds \cup {NoSession}
           /\ NoSession \notin SessionIds
BY DEF Store, SessionIds, NoSession

LEMMA SessionsType ==
    ASSUME NEW m, m \in Store, NEW i \in SessionIds, NEW s \in DemoSession
    PROVE  [m.ses EXCEPT ![i] = s] \in [SessionIds -> DemoSession]
BY StoreFacts

\* One session is rewritten, which is and was not waiting.
LEMMA Rewrite ==
    ASSUME NEW m, StoreOK(m), NEW i \in SessionIds, i <= m.count, NEW s \in DemoSession,
           NEW a \in {NoSession, i}, m.active = i,
           StatusOf(m, i) # "queued", s.status # "queued",
           a # NoSession <=> s.status \in OnBoard, s.status # "unused",
           StatusOf(m, i) \in Ending => s.status \in Ending,
           StatusOf(m, i) \in Begun => s.status \in Begun,
           NEW n, n \in Store, n.ses = [m.ses EXCEPT ![i] = s], n.count = m.count,
           n.queue = m.queue, n.active = a
    PROVE  StoreOK(n) /\ Forward(m, n)
<1>1. \A j \in SessionIds : StatusOf(n, j) = IF j = i THEN s.status ELSE StatusOf(m, j)
  BY StoreFacts DEF StatusOf, StoreOK
<1>2. Forward(m, n)
  BY <1>1 DEF Forward
<1>3. \A j \in SessionIds : j > n.count => StatusOf(n, j) = "unused"
  BY <1>1, StoreFacts DEF StoreOK, SessionIds
<1>4. Once(n.queue) /\ \A j \in SessionIds : Contains(n.queue, j) <=> StatusOf(n, j) = "queued"
  BY <1>1 DEF StoreOK
<1>5. /\ n.active # NoSession => StatusOf(n, n.active) \in OnBoard
      /\ \A j \in SessionIds : StatusOf(n, j) \in OnBoard => j = n.active
  BY <1>1, StoreFacts DEF StoreOK
<1> QED
  BY <1>2, <1>3, <1>4, <1>5 DEF StoreOK

LEMMA EmptyOK == StoreOK(EmptyStore)
<1>1. EmptyStore \in Store
  BY BoundAssumption DEF EmptyStore, Store, Blank, DemoSession, SessionStatus, Time, NoTime
<1>2. EmptyStore.queue = << >> /\ EmptyStore.active = NoSession
  BY DEF EmptyStore
<1> QED
  BY <1>1, <1>2 DEF EmptyStore, StoreOK, Once, Contains, StatusOf, Blank, OnBoard

\* fail_start and finish_active.
LEMMA LeaveBoardOK ==
    ASSUME NEW m, StoreOK(m), m.active # NoSession, NEW r \in SessionEndReason \cup {"none"}
    PROVE  /\ StoreOK(LeaveBoard(m, r)) /\ Forward(m, LeaveBoard(m, r))
           /\ LeaveBoard(m, r).active = NoSession
<1> DEFINE s == [m.ses[m.active] EXCEPT !.status = "ended", !.reason = r]
<1>1. m.active \in SessionIds /\ m.ses[m.active] \in DemoSession
  BY StoreFacts DEF StoreOK
<1>2. s \in DemoSession /\ s.status = "ended"
  BY <1>1 DEF DemoSession, SessionStatus
<1>3. LeaveBoard(m, r) = [m EXCEPT !.active = NoSession, !.ses = [m.ses EXCEPT ![m.active] = s]]
  BY DEF LeaveBoard, Update
<1> DEFINE f == [m.ses EXCEPT ![m.active] = s]
           n == LeaveBoard(m, r)
<1> HIDE DEF s
<1>4. f \in [SessionIds -> DemoSession]
  BY <1>1, <1>2, SessionsType DEF StoreOK
<1>5. n \in Store /\ n.ses = f /\ n.count = m.count /\ n.queue = m.queue /\ n.active = NoSession
  <2> HIDE DEF f
  <2> QED
    BY <1>3, <1>4 DEF StoreOK, Store, f
<1> HIDE DEF n
<1>6. m.active <= m.count /\ StatusOf(m, m.active) # "queued"
  BY <1>1, StoreFacts, BoundAssumption DEF StoreOK, OnBoard, SessionIds
<1>7. StoreOK(n) /\ Forward(m, n)
  BY <1>1, <1>2, <1>5, <1>6, Rewrite DEF Begun, Ending, OnBoard
<1> QED
  BY <1>5, <1>7 DEF n

LEMMA FinishOK ==
    ASSUME NEW m, StoreOK(m)
    PROVE  /\ StoreOK(FinishActive(m)) /\ Forward(m, FinishActive(m))
           /\ FinishActive(m).active = NoSession
<1>1. CASE m.active = NoSession
  BY <1>1 DEF FinishActive, Forward
<1>2. CASE m.active # NoSession
  <2>1. m.ses[m.active].reason \in SessionEndReason \cup {"none"}
    BY <1>2, StoreFacts DEF StoreOK, DemoSession
  <2> QED
    BY <1>2, <2>1, LeaveBoardOK DEF FinishActive
<1> QED
  BY <1>1, <1>2

LEMMA FailStartOK ==
    ASSUME NEW m, StoreOK(m), NEW s, CanActivate(m, s)
    PROVE  /\ StoreOK(FailStart(m, s)) /\ Forward(m, FailStart(m, s))
           /\ FailStart(m, s).active = NoSession
BY LeaveBoardOK DEF FailStart, CanActivate, IsActive, SessionEndReason

\* The session on the board is marked ending, or becomes active.
LEMMA StaysOnBoardOK ==
    ASSUME NEW m, StoreOK(m), m.active # NoSession, NEW s \in DemoSession,
           \/ s.status = "ending"
           \/ s.status = "active" /\ StatusOf(m, m.active) = "starting"
    PROVE  LET n == [m EXCEPT !.ses = [m.ses EXCEPT ![m.active] = s]]
           IN  StoreOK(n) /\ Forward(m, n) /\ StatusOf(n, n.active) = s.status
                 /\ n.active = m.active /\ n.ses[m.active] = s
<1> DEFINE n == [m EXCEPT !.ses = [m.ses EXCEPT ![m.active] = s]]
<1>1. m.active \in SessionIds /\ m.ses[m.active] \in DemoSession
  BY StoreFacts DEF StoreOK
<1>2. n \in Store /\ n.ses = [m.ses EXCEPT ![m.active] = s] /\ n.count = m.count
      /\ n.queue = m.queue /\ n.active = m.active
  BY <1>1, StoreFacts DEF StoreOK, Store
<1> HIDE DEF n
<1>3. m.active <= m.count /\ StatusOf(m, m.active) # "queued"
  BY <1>1, StoreFacts, BoundAssumption DEF StoreOK, OnBoard, SessionIds
<1>4. StoreOK(n) /\ Forward(m, n)
  BY <1>1, <1>2, <1>3, Rewrite DEF Begun, Ending, OnBoard
<1>5. StatusOf(n, n.active) = s.status /\ n.ses[m.active] = s
  BY <1>1, <1>2, StoreFacts DEF StatusOf, StoreOK
<1> QED
  BY <1>2, <1>4, <1>5 DEF n

LEMMA BeginEndOK ==
    ASSUME NEW m, StoreOK(m), m.active # NoSession, NEW r \in SessionEndReason
    PROVE  /\ StoreOK(BeginEnd(m, r)) /\ Forward(m, BeginEnd(m, r))
           /\ StatusOf(BeginEnd(m, r), m.active) = "ending"
           /\ BeginEnd(m, r).active = m.active
<1> DEFINE s == [m.ses[m.active] EXCEPT !.status = "ending", !.reason = r]
<1>1. m.active \in SessionIds /\ m.ses[m.active] \in DemoSession
  BY StoreFacts DEF StoreOK
<1>2. s \in DemoSession /\ s.status = "ending"
  BY <1>1 DEF DemoSession, SessionStatus
<1>3. BeginEnd(m, r) = [m EXCEPT !.ses = [m.ses EXCEPT ![m.active] = s]]
  BY DEF BeginEnd, Update
<1> HIDE DEF s
<1> QED
  BY <1>2, <1>3, StaysOnBoardOK

LEMMA BeginActiveEndOK ==
    ASSUME NEW m, StoreOK(m), NEW r \in SessionEndReason
    PROVE  /\ StoreOK(BeginActiveEnd(m, r)) /\ Forward(m, BeginActiveEnd(m, r))
           /\ m.active # NoSession => ActiveIs(BeginActiveEnd(m, r), "ending")
BY BeginEndOK DEF BeginActiveEnd, Forward, ActiveIs

LEMMA ActivateOK ==
    ASSUME NEW m, StoreOK(m), NEW i, CanActivate(m, i), NEW n \in Nat
    PROVE  /\ StoreOK(Activate(m, i, n)) /\ Forward(m, Activate(m, i, n))
           /\ i \in SessionIds
           /\ ActiveIs(Activate(m, i, n), "active")
<1> DEFINE e == IF m.queue # << >> THEN n + Contended ELSE NoTime
           s == [m.ses[i] EXCEPT !.status = "active", !.started = n, !.expires = e]
<1>1. i = m.active /\ i \in SessionIds /\ m.ses[i] \in DemoSession
  BY StoreFacts DEF StoreOK, CanActivate, IsActive
<1>2. e \in Time /\ n \in Time
  BY ContendedAssumption DEF Time
<1>5. s \in DemoSession /\ s.status = "active" /\ s.expires = e
  <2> HIDE DEF e
  <2> QED
    BY <1>1, <1>2 DEF DemoSession, SessionStatus
<1>3. Activate(m, i, n) = [m EXCEPT !.ses = [m.ses EXCEPT ![m.active] = s]]
  BY <1>1 DEF Activate, Update
<1>4. StatusOf(m, m.active) = "starting" /\ m.active # NoSession
  BY <1>1 DEF CanActivate, IsActive
<1> HIDE DEF s, e
<1> QED
  BY <1>1, <1>2, <1>5, <1>3, <1>4, StaysOnBoardOK DEF ActiveIs

\* begin_next
LEMMA BeginNextOK ==
    ASSUME NEW m, StoreOK(m), CanBegin(m)
    PROVE  /\ StoreOK(BeginNext(m)) /\ Forward(m, BeginNext(m))
           /\ BeginNext(m).active = Head(m.queue) /\ ~ActiveIs(BeginNext(m), "ending")
<1> DEFINE i == Head(m.queue)
           s == [m.ses[i] EXCEPT !.status = "starting"]
<1>1. /\ i \in SessionIds /\ Contains(m.queue, i) /\ Tail(m.queue) \in Seq(SessionIds)
      /\ Once(Tail(m.queue))
      /\ \A y : Contains(Tail(m.queue), y) <=> Contains(m.queue, y) /\ y # i
  BY PopOnce, StoreFacts DEF CanBegin, StoreOK
<1>2. StatusOf(m, i) = "queued" /\ m.ses[i] \in DemoSession
  BY <1>1, StoreFacts DEF StoreOK
<1>3. s \in DemoSession /\ s.status = "starting"
  BY <1>2 DEF DemoSession, SessionStatus
<1>4. BeginNext(m) = [m EXCEPT !.queue = Tail(m.queue), !.active = i,
                               !.ses = [m.ses EXCEPT ![i] = s]]
  BY DEF BeginNext, Update
<1> DEFINE n == BeginNext(m)
<1> HIDE DEF i, s, n
<1> DEFINE f == [m.ses EXCEPT ![i] = s]
<1>0. f \in [SessionIds -> DemoSession]
  BY <1>1, <1>3, SessionsType DEF StoreOK
<1>5. n \in Store /\ n.ses = f /\ n.count = m.count /\ n.queue = Tail(m.queue) /\ n.active = i
  <2> HIDE DEF f
  <2> QED
    BY <1>0, <1>1, <1>4 DEF StoreOK, Store, n, f
<1>6. \A j \in SessionIds : StatusOf(n, j) = IF j = i THEN "starting" ELSE StatusOf(m, j)
  BY <1>1, <1>3, <1>5, StoreFacts DEF StatusOf, StoreOK
<1>7. i <= m.count
  BY <1>1, <1>2, StoreFacts DEF StoreOK, SessionIds
<1>8. Forward(m, n)
  BY <1>2, <1>6 DEF Forward, Ending, Begun
<1>10. /\ n.active # NoSession => StatusOf(n, n.active) \in OnBoard
       /\ \A j \in SessionIds : StatusOf(n, j) \in OnBoard => j = n.active
  BY <1>1, <1>5, <1>6, StoreFacts DEF StoreOK, OnBoard, CanBegin
<1>11. \A j \in SessionIds : j > n.count => StatusOf(n, j) = "unused"
  BY <1>5, <1>6, <1>7, StoreFacts DEF StoreOK, SessionIds
<1>12. \A j \in SessionIds : Contains(n.queue, j) <=> StatusOf(n, j) = "queued"
  BY <1>1, <1>5, <1>6 DEF StoreOK
<1>9. StoreOK(n)
  BY <1>1, <1>5, <1>10, <1>11, <1>12 DEF StoreOK
<1>13. n.active = i /\ ~ActiveIs(n, "ending")
  BY <1>1, <1>5, <1>6 DEF ActiveIs
<1> QED
  BY <1>8, <1>9, <1>13 DEF n, i

\* The owner stays, and has another deadline only if it is active.
SameOwner(m, n) ==
    /\ n.active = m.active
    /\ m.active # NoSession =>
          /\ StatusOf(n, m.active) = StatusOf(m, m.active)
          /\ n.ses[m.active].started = m.ses[m.active].started
          /\ n.ses[m.active].demo = m.ses[m.active].demo
          /\ n.ses[m.active].expires # m.ses[m.active].expires => StatusOf(m, m.active) = "active"

\* end_by_user of a waiting session: a deadline can only be lifted.
LEMMA CancelOK ==
    ASSUME NEW m, StoreOK(m), NEW u, NEW i \in SessionIds, CanCancel(m, u, i)
    PROVE  LET n == Cancel(m, i)
           IN  /\ StoreOK(n) /\ Forward(m, n)
               /\ SameOwner(m, n)
               /\ m.active # NoSession => n.ses[m.active].expires \in {NoTime, m.ses[m.active].expires}
<1> DEFINE q == RemoveFromQueue(m.queue, i)
           s == [m.ses[i] EXCEPT !.status = "ended", !.reason = "cancelled"]
           f == [m.ses EXCEPT ![i] = s]
           p == [m EXCEPT !.queue = q, !.ses = f]
           a == m.active
<1>1. StatusOf(m, i) = "queued" /\ Contains(m.queue, i) /\ m.ses[i] \in DemoSession
  BY StoreFacts DEF CanCancel, StoreOK
<1>2. s \in DemoSession /\ s.status = "ended"
  BY <1>1 DEF DemoSession, SessionStatus, SessionEndReason
<1>3. q \in Seq(SessionIds) /\ Once(q) /\ \A y : Contains(q, y) <=> Contains(m.queue, y) /\ y # i
  BY <1>1, RemoveOnce, StoreFacts DEF StoreOK
<1>4. Cancel(m, i) = [p EXCEPT !.ses = ClearExpiryIfQueueEmpty(p)]
  BY DEF Cancel, Update
<1> HIDE DEF s, q
<1>5. f \in [SessionIds -> DemoSession]
  BY <1>2, SessionsType DEF StoreOK
<1>6. p \in Store /\ p.ses = f /\ p.count = m.count /\ p.queue = q /\ p.active = a
  <2> HIDE DEF f
  <2> QED
    BY <1>3, <1>5 DEF StoreOK, Store, f
<1> HIDE DEF p
<1>7. \A j \in SessionIds : StatusOf(p, j) = IF j = i THEN "ended" ELSE StatusOf(m, j)
  BY <1>2, <1>6, StoreFacts DEF StatusOf, StoreOK
<1>8. a # NoSession => a \in SessionIds /\ a # i
  BY <1>1, StoreFacts DEF StoreOK, OnBoard
<1>9. StoreOK(p) /\ Forward(m, p)
  <2>1. Forward(m, p)
    BY <1>1, <1>7 DEF Forward, Ending, Begun
  <2>2. \A j \in SessionIds : j > p.count => StatusOf(p, j) = "unused"
    BY <1>1, <1>6, <1>7 DEF StoreOK
  <2>3. \A j \in SessionIds : Contains(p.queue, j) <=> StatusOf(p, j) = "queued"
    BY <1>3, <1>6, <1>7 DEF StoreOK
  <2>4. /\ p.active # NoSession => StatusOf(p, p.active) \in OnBoard
        /\ \A j \in SessionIds : StatusOf(p, j) \in OnBoard => j = p.active
    BY <1>6, <1>7, <1>8 DEF StoreOK, OnBoard
  <2> QED
    BY <1>3, <1>6, <2>1, <2>2, <2>3, <2>4 DEF StoreOK
<1>10. a # NoSession => p.ses[a] = m.ses[a]
  BY <1>6, <1>8, StoreFacts DEF StoreOK
<1> DEFINE lifted == p.queue = << >> /\ ActiveIs(p, "active")
           t == [p.ses[a] EXCEPT !.expires = NoTime]
<1>11. CASE lifted
  <2>1. a \in SessionIds /\ p.active = a /\ StatusOf(p, a) = "active" /\ p.ses[a] \in DemoSession
    BY <1>6, <1>8, <1>11, StoreFacts DEF ActiveIs
  <2>2. /\ t \in DemoSession /\ t.status = "active" /\ t.expires = NoTime
        /\ t.started = p.ses[a].started /\ t.demo = p.ses[a].demo
    BY <2>1 DEF DemoSession, StatusOf, Time, SessionStatus
  <2>3. Cancel(m, i) = [p EXCEPT !.ses = [p.ses EXCEPT ![p.active] = t]]
    BY <1>4, <1>11, <2>1 DEF ClearExpiryIfQueueEmpty, Update
  <2> HIDE DEF t
  <2> DEFINE g == [p.ses EXCEPT ![a] = t]
             n == Cancel(m, i)
  <2>4. g \in [SessionIds -> DemoSession]
    BY <2>1, <2>2, <1>6, SessionsType
  <2>5. n \in Store /\ n.ses = g /\ n.count = p.count /\ n.queue = p.queue /\ n.active = a
    <3> HIDE DEF g
    <3> QED
      BY <1>6, <2>1, <2>3, <2>4 DEF Store, g
  <2> HIDE DEF n
  <2>6. a <= p.count /\ a # NoSession
    BY <1>9, <2>1, StoreFacts DEF StoreOK, SessionIds, NoSession
  <2>7. StoreOK(n) /\ Forward(p, n)
    BY <1>9, <2>1, <2>2, <2>5, <2>6, Rewrite DEF Ending, Begun, OnBoard
  <2>8. n.ses[a] = t
    BY <1>6, <2>1, <2>5, StoreFacts
  <2>9. SameOwner(m, n)
    BY <1>7, <1>8, <1>10, <2>1, <2>2, <2>5, <2>8 DEF SameOwner, StatusOf
  <2> QED
    BY <1>9, <2>2, <2>7, <2>8, <2>9, ForwardTwice DEF n
<1>12. CASE ~lifted
  <2>1. ClearExpiryIfQueueEmpty(p) = p.ses
    BY <1>12 DEF ClearExpiryIfQueueEmpty
  <2>2. Cancel(m, i) = p
    BY <1>4, <1>6, <2>1 DEF Store
  <2> QED
    BY <1>6, <1>9, <1>10, <2>2 DEF SameOwner, StatusOf
<1> QED
  BY <1>11, <1>12

\* create: the newcomer waits, and the session on the board may get a deadline.
LEMMA CreateOK ==
    ASSUME NEW m, StoreOK(m), NEW u \in Users, NEW d \in Demos, NEW k \in Nat, CanCreate(m, u)
    PROVE  LET n == Create(m, u, d, k)
           IN  /\ StoreOK(n) /\ Forward(m, n)
               /\ SameOwner(m, n)
               /\ StatusOf(n, m.count + 1) = "queued"
               /\ m.active # NoSession =>
                     \/ n.ses[m.active].expires \in {NoTime, m.ses[m.active].expires}
                     \/ n.ses[m.active].expires > k
<1> DEFINE i == m.count + 1
           s == NewSession(u, d)
           q == Append(m.queue, i)
           f == [m.ses EXCEPT ![i] = s]
           p == CreateWithoutDeadline(m, u, d, k)
           a == m.active
<1>1. /\ i \in SessionIds /\ i > m.count
      /\ StatusOf(m, i) = "unused" /\ ~Contains(m.queue, i) /\ m.queue \in Seq(SessionIds)
  BY StoreFacts, BoundAssumption DEF StoreOK, CanCreate, SessionIds
<1>2. s \in DemoSession /\ s.status = "queued"
  BY DEF NewSession, Blank, DemoSession, SessionStatus, Time
<1>3. q \in Seq(SessionIds) /\ Once(q) /\ \A y : Contains(q, y) <=> Contains(m.queue, y) \/ y = i
  BY <1>1, AppendOnce DEF StoreOK
<1>4. p = [m EXCEPT !.count = i, !.queue = q, !.ses = f]
  BY DEF CreateWithoutDeadline, Update
<1>5. i \in 0..MaxSessions
  BY <1>1 DEF SessionIds
<1> HIDE DEF s, q, i, p
<1>6. f \in [SessionIds -> DemoSession]
  BY <1>1, <1>2, SessionsType DEF StoreOK
<1>7. p \in Store /\ p.ses = f /\ p.count = i /\ p.queue = q /\ p.active = a
  <2> HIDE DEF f
  <2> QED
    BY <1>3, <1>4, <1>5, <1>6 DEF StoreOK, Store, f
<1>8. \A j \in SessionIds : StatusOf(p, j) = IF j = i THEN "queued" ELSE StatusOf(m, j)
  BY <1>1, <1>2, <1>7, StoreFacts DEF StatusOf, StoreOK
<1>9. a # NoSession => a \in SessionIds /\ a # i
  BY <1>1, StoreFacts DEF StoreOK, OnBoard
<1>10. StoreOK(p) /\ Forward(m, p)
  <2>1. Forward(m, p)
    BY <1>1, <1>8 DEF Forward, Ending, Begun
  <2>2. \A j \in SessionIds : j > p.count => StatusOf(p, j) = "unused"
    <3> SUFFICES ASSUME NEW j \in SessionIds, j > p.count PROVE StatusOf(p, j) = "unused"
      OBVIOUS
    <3>1. j # i /\ j > m.count
      BY <1>1, <1>7, StoreFacts DEF StoreOK, SessionIds, i
    <3> QED
      BY <1>8, <3>1 DEF StoreOK
  <2>3. \A j \in SessionIds : Contains(p.queue, j) <=> StatusOf(p, j) = "queued"
    BY <1>3, <1>7, <1>8 DEF StoreOK
  <2>4. /\ p.active # NoSession => StatusOf(p, p.active) \in OnBoard
        /\ \A j \in SessionIds : StatusOf(p, j) \in OnBoard => j = p.active
    BY <1>7, <1>8, <1>9 DEF StoreOK, OnBoard
  <2> QED
    BY <1>3, <1>7, <2>1, <2>2, <2>3, <2>4 DEF StoreOK
<1>11. a # NoSession => p.ses[a] = m.ses[a]
  BY <1>1, <1>7, <1>9, StoreFacts DEF StoreOK
<1> DEFINE limits == ActiveIs(m, "active") /\ m.ses[a].expires = NoTime
           e == ContendedExpiry(m.ses[a], k)
           t == [m.ses[a] EXCEPT !.expires = e]
<1>12. CASE limits
  <2>1. a \in SessionIds /\ StatusOf(m, a) = "active" /\ m.ses[a] \in DemoSession
    BY <1>9, <1>12, StoreFacts DEF StoreOK, ActiveIs
  <2>2. e \in Nat /\ e > k
    BY <2>1, WindowAssumption, ContendedAssumption DEF ContendedExpiry, DemoSession, Time, NoTime
  <2> HIDE DEF e
  <2>3. /\ t \in DemoSession /\ t.status = "active" /\ t.expires = e
        /\ t.started = m.ses[a].started /\ t.demo = m.ses[a].demo
    BY <2>1, <2>2 DEF DemoSession, StatusOf, Time, SessionStatus
  <2>4. Create(m, u, d, k) = [p EXCEPT !.ses = [p.ses EXCEPT ![a] = t]]
    BY <1>12 DEF Create, Update, p, t, e
  <2> HIDE DEF t
  <2> DEFINE g == [p.ses EXCEPT ![a] = t]
             n == Create(m, u, d, k)
  <2>5. g \in [SessionIds -> DemoSession]
    BY <2>1, <2>3, <1>7, SessionsType
  <2>6. n \in Store /\ n.ses = g /\ n.count = p.count /\ n.queue = p.queue /\ n.active = a
    <3> HIDE DEF g
    <3> QED
      BY <1>7, <2>4, <2>5 DEF Store, g
  <2> HIDE DEF n
  <2>7. a <= p.count /\ a # NoSession /\ StatusOf(p, a) = "active"
    BY <1>8, <1>9, <1>10, <2>1, StoreFacts DEF StoreOK, SessionIds, NoSession
  <2>8. StoreOK(n) /\ Forward(p, n)
    BY <1>7, <1>10, <2>1, <2>3, <2>6, <2>7, Rewrite DEF Ending, Begun, OnBoard
  <2>9. n.ses[a] = t
    BY <1>7, <2>1, <2>6, StoreFacts
  <2>10. SameOwner(m, n)
    BY <2>1, <2>3, <2>6, <2>9 DEF SameOwner, StatusOf
  <2>11. StatusOf(n, i) = "queued"
    BY <1>1, <1>7, <1>8, <1>9, <2>1, <2>6, StoreFacts DEF StatusOf
  <2> QED
    BY <1>10, <2>2, <2>3, <2>8, <2>9, <2>10, <2>11, ForwardTwice DEF n, i
<1>13. CASE ~limits
  <2>1. Create(m, u, d, k) = p
    BY <1>13 DEF Create, p
  <2> QED
    BY <1>1, <1>7, <1>8, <1>10, <1>11, <2>1 DEF SameOwner, StatusOf, i
<1> QED
  BY <1>12, <1>13

\* A new process knows of no session, and hands out other ids.
LEMMA ForgottenOK == ASSUME NEW m, StoreOK(m) PROVE StoreOK(Forgotten(m))
<1> DEFINE f == [i \in SessionIds |-> IF i <= m.count THEN [Blank EXCEPT !.status = "ended"] ELSE Blank]
           n == Forgotten(m)
<1>1. Blank \in DemoSession /\ [Blank EXCEPT !.status = "ended"] \in DemoSession
  BY DEF Blank, DemoSession, SessionStatus, Time
<1>2. f \in [SessionIds -> DemoSession]
  BY <1>1
<1>3. << >> \in Seq(SessionIds) /\ \A x : ~Contains(<< >>, x)
  BY DEF Contains
<1>4. n \in Store /\ n.ses = f /\ n.count = m.count /\ n.queue = << >> /\ n.active = NoSession
  <2>1. n = [m EXCEPT !.ses = f, !.queue = << >>, !.active = NoSession]
    BY DEF Forgotten
  <2> HIDE DEF f
  <2> QED
    BY <1>2, <1>3, <2>1 DEF StoreOK, Store
<1> HIDE DEF n
<1>5. \A i \in SessionIds : StatusOf(n, i) = IF i <= m.count THEN "ended" ELSE "unused"
  BY <1>4 DEF StatusOf, Blank
<1>6. \A i \in SessionIds : i > n.count => StatusOf(n, i) = "unused"
  BY <1>4, <1>5, StoreFacts DEF StoreOK, SessionIds
<1> QED
  BY <1>3, <1>4, <1>5, <1>6 DEF StoreOK, Once, n, OnBoard

-----------------------------------------------------------------------------
(* The order of the lock *)

LockKinds == {"end", "expiry", "disconnect"}

\* Why a task may be in the lock: its session does not come back to where the
\* task is started anew.
Entitled(n, m, t) ==
    /\ Kind(t) \in LockKinds
    /\ Kind(t) = "end" => StatusOf(m, Subject(t)) \in Ending
    /\ Kind(t) = "expiry" => StatusOf(m, Subject(t)) \in Begun /\ t[3] <= n

\* A disconnect timer that is to be cancelled when its user comes back.
Listed(w, t) == Kind(t) = "disconnect" => Subject(t) \in w.disc

IsTask(k) == k = [pc |-> k.pc, ses |-> k.ses, run |-> k.run, call |-> k.call, ans |-> k.ans]

\* Only the watcher ends a session for a reservation, and the task of a
\* session is there once the session is.
Known(w, t) == Kind(t) = "create" => StatusOf(w.store, Subject(t)) # "unused"

Tame(w, t) ==
    /\ Pc(w, t) = "reservedstop" => t = Watch
    /\ Pc(w, t) # "done" => Known(w, t)

Put(tasks, t, k) == [tasks EXCEPT ![t] = k]

IsWeb(w) ==
    w = [store |-> w.store, fpga |-> w.fpga, runtime |-> w.runtime, flow |-> w.flow,
         expiry |-> w.expiry, disc |-> w.disc, counts |-> w.counts, tasks |-> w.tasks,
         calls |-> w.calls, zombies |-> w.zombies]

\* The state at the instant n while the task me runs; NoTask is none.
Order(n, w, me) ==
    /\ IsWeb(w)
    /\ w.tasks = [t \in Tasks |-> w.tasks[t]]
    /\ \A t \in Tasks : IsTask(w.tasks[t])
    /\ StoreOK(w.store)
    /\ w.flow \in Seq(Tasks)
    /\ Once(w.flow)
    /\ \A t \in Tasks : Contains(w.flow, t) => Entitled(n, w.store, t)
    /\ \A t \in Tasks : t # me =>
          /\ Pc(w, t) \in InFlow <=> Contains(w.flow, t)
          /\ Pc(w, t) \in {"sleep"} \cup InFlow => Listed(w, t)
          /\ Tame(w, t)
    /\ \A i \in 2..Len(w.flow) : w.flow[i] # me => Pc(w, w.flow[i]) = "lock"

Out(n, w, me) == Order(n, w, me) /\ me \in Tasks /\ ~Contains(w.flow, me) /\ Known(w, me)

Holding(n, w, me) == Order(n, w, me) /\ me \in Tasks /\ w.flow # << >> /\ Head(w.flow) = me

LEMMA TaskFacts ==
    /\ NoTask \notin Tasks
    /\ Watch \in Tasks /\ Kind(Watch) = "watch"
    /\ \A s \in SessionIds :
          /\ Creator(s) \in Tasks /\ Ender(s) \in Tasks /\ Disconnector(s) \in Tasks
          /\ Kind(Creator(s)) = "create" /\ Subject(Creator(s)) = s
          /\ Kind(Ender(s)) = "end" /\ Subject(Ender(s)) = s
          /\ Kind(Disconnector(s)) = "disconnect" /\ Subject(Disconnector(s)) = s
    /\ \A s, due : /\ Kind(Expirer(s, due)) = "expiry" /\ Subject(Expirer(s, due)) = s
                   /\ Expirer(s, due)[3] = due
    /\ \A t \in Tasks : Kind(t) \in {"create", "end", "expiry", "disconnect"} => Subject(t) \in SessionIds
    /\ \A t \in Tasks : Kind(t) = "disconnect" => t = Disconnector(Subject(t))
    /\ \A t \in Tasks : Kind(t) = "end" => t = Ender(Subject(t))
BY DEF Tasks, NoTask, Watch, Creator, Ender, Disconnector, Expirer, Kind, Subject

LEMMA DeadlinesAreNumbers == \A t \in Tasks : Kind(t) = "expiry" => t[3] \in Int
<1>1. Deadlines \subseteq Int
  BY DEF Deadlines
<1> QED
  BY <1>1 DEF Tasks, Watch, Creator, Ender, Disconnector, Expirer, Kind

LEMMA HeadFacts ==
    ASSUME NEW S, NEW q \in Seq(S), Once(q)
    PROVE  /\ q # << >> => /\ Contains(q, Head(q)) /\ Head(q) \in S
                           /\ \A i \in 2..Len(q) : q[i] # Head(q)
           /\ \A x : Contains(q, x) => /\ q # << >>
                                       /\ x # Head(q) => \E i \in 2..Len(q) : q[i] = x
<1>1. q # << >> => 1 \in 1..Len(q) /\ Head(q) = q[1]
  OBVIOUS
<1>2. \A i \in 1..Len(q) : i = 1 \/ i \in 2..Len(q)
  OBVIOUS
<1> QED
  BY <1>1, <1>2 DEF Contains, Once

\* A task resumes that is not in the lock, or that holds it.
LEMMA Resumes ==
    ASSUME NEW n, NEW w, Order(n, w, NoTask), NEW t \in Tasks
    PROVE  /\ Pc(w, t) \notin InFlow /\ (Pc(w, t) # "done" \/ Known(w, t)) => Out(n, w, t)
           /\ Pc(w, t) \in InFlow /\ (Pc(w, t) = "lock" => Head(w.flow) = t) =>
                 Holding(n, w, t) /\ Listed(w, t)
<1>1. t # NoTask
  BY TaskFacts
<1>2. Order(n, w, t)
  BY TaskFacts DEF Order
<1>3. ASSUME Pc(w, t) \in InFlow, Pc(w, t) # "lock" PROVE Head(w.flow) = t
  <2>1. Contains(w.flow, t)
    BY <1>1, <1>3 DEF Order
  <2>2. \A i \in 2..Len(w.flow) : w.flow[i] # t
    BY <1>1, <1>3 DEF Order
  <2> QED
    BY <2>1, <2>2, HeadFacts DEF Order
<1>4. Pc(w, t) \in InFlow => w.flow # << >>
  BY <1>1, HeadFacts DEF Order
<1>5. Pc(w, t) # "done" => Known(w, t)
  BY <1>1 DEF Order, Tame
<1> QED
  BY <1>1, <1>2, <1>3, <1>4, <1>5 DEF Order, Out, Holding

\* A web process that differs elsewhere only.
LEMMA SameOrder ==
    ASSUME NEW n, NEW w, NEW me, Order(n, w, me), NEW v, IsWeb(v),
           v.store = w.store, v.flow = w.flow, v.disc = w.disc, v.tasks = w.tasks
    PROVE  Order(n, v, me)
BY DEF Order, Pc, Listed, Tame, Known

\* Time passes.
LEMMA LaterOrder ==
    ASSUME NEW n \in Nat, NEW w, NEW me, Order(n, w, me),
           \A t \in Tasks : Kind(t) = "expiry" => t[3] \in Int
    PROVE  Order(n + 1, w, me)
<1>1. \A t \in Tasks : Entitled(n, w.store, t) => Entitled(n + 1, w.store, t)
  BY DEF Entitled
<1> QED
  BY <1>1 DEF Order

\* The store goes forward.
LEMMA StoreOrder ==
    ASSUME NEW n, NEW w, NEW me, Order(n, w, me), NEW v, IsWeb(v),
           StoreOK(v.store), Forward(w.store, v.store),
           v.flow = w.flow, v.disc = w.disc, v.tasks = w.tasks
    PROVE  Order(n, v, me)
<1>1. \A t \in Tasks : Entitled(n, w.store, t) => Entitled(n, v.store, t)
  BY TaskFacts DEF Entitled, Forward, LockKinds
<1>2. \A t \in Tasks : Tame(w, t) => Tame(v, t)
  BY TaskFacts DEF Tame, Known, Forward, Pc
<1> QED
  BY <1>1, <1>2 DEF Order, Pc, Listed

\* Another task is cancelled.
LEMMA CancelOrder ==
    ASSUME NEW n, NEW w, NEW me, Order(n, w, me), NEW x, x # me, NEW v, IsWeb(v),
           v.store = w.store, v.flow = LeaveLock(w.flow, x), v.disc = w.disc,
           v.tasks = Put(w.tasks, x, Done)
    PROVE  /\ Order(n, v, me)
           /\ \A y : Contains(v.flow, y) => Contains(w.flow, y)
           /\ Holding(n, w, me) => Holding(n, v, me)
<1>1. /\ v.flow \in Seq(Tasks) /\ Once(v.flow)
      /\ \A y : Contains(v.flow, y) <=> Contains(w.flow, y) /\ y # x
      /\ \A i \in 2..Len(v.flow) : \E j \in 2..Len(w.flow) : v.flow[i] = w.flow[j]
      /\ w.flow # << >> /\ x # Head(w.flow) => v.flow # << >> /\ Head(v.flow) = Head(w.flow)
  <2>1. CASE Contains(w.flow, x)
    BY <2>1, RemoveOnce DEF LeaveLock, Order
  <2>2. CASE ~Contains(w.flow, x)
    BY <2>2 DEF LeaveLock, Order
  <2> QED
    BY <2>1, <2>2
<1>2. IsTask(Done) /\ Done.pc = "done"
  BY DEF IsTask, Done, Suspended
<1>3. \A t \in Tasks : v.tasks[t] = IF t = x THEN Done ELSE w.tasks[t]
  BY DEF Order, Put
<1>4. v.tasks = [t \in Tasks |-> v.tasks[t]] /\ \A t \in Tasks : IsTask(v.tasks[t])
  BY <1>2, <1>3 DEF Order, Put
<1>5. ASSUME NEW t \in Tasks, t # me
      PROVE  /\ Pc(v, t) \in InFlow <=> Contains(v.flow, t)
             /\ Pc(v, t) \in {"sleep"} \cup InFlow => Listed(v, t)
             /\ Tame(v, t)
  <2>1. CASE t = x
    BY <1>1, <1>2, <1>3, <2>1 DEF Pc, InFlow, Tame
  <2>2. CASE t # x
    BY <1>1, <1>3, <1>5, <2>2 DEF Pc, Order, Listed, Tame, Known
  <2> QED
    BY <2>1, <2>2
<1>6. ASSUME NEW i \in 2..Len(v.flow), v.flow[i] # me
      PROVE  Pc(v, v.flow[i]) = "lock"
  <2>1. PICK j \in 2..Len(w.flow) : v.flow[i] = w.flow[j]
    BY <1>1
  <2>2. Contains(v.flow, v.flow[i]) /\ v.flow[i] \in Tasks
    <3>1. i \in 1..Len(v.flow)
      BY <1>1
    <3> QED
      BY <1>1, <3>1 DEF Contains
  <2>3. v.flow[i] # x
    BY <1>1, <2>2
  <2>4. Pc(w, w.flow[j]) = "lock"
    BY <1>6, <2>1 DEF Order
  <2> QED
    BY <1>3, <2>1, <2>2, <2>3, <2>4 DEF Pc
<1>7. Order(n, v, me)
  BY <1>1, <1>4, <1>5, <1>6 DEF Order
<1> QED
  BY <1>1, <1>7 DEF Holding

\* A timer that is not in the lock is set, or a task of one's own.
LEMMA SleepOrder ==
    ASSUME NEW n, NEW w, NEW me, Order(n, w, me), NEW x, ~Contains(w.flow, x), Kind(x) # "create",
           NEW s, NEW v, IsWeb(v), v.store = w.store, v.flow = w.flow, v.disc = w.disc,
           v.tasks = Put(w.tasks, x, Suspended("sleep", s)), Listed(w, x)
    PROVE  Order(n, v, me)
<1>1. IsTask(Suspended("sleep", s)) /\ Suspended("sleep", s).pc = "sleep"
  BY DEF IsTask, Suspended
<1>2. \A t \in Tasks : v.tasks[t] = IF t = x THEN Suspended("sleep", s) ELSE w.tasks[t]
  BY DEF Order, Put
<1>3. v.tasks = [t \in Tasks |-> v.tasks[t]] /\ \A t \in Tasks : IsTask(v.tasks[t])
  BY <1>1, <1>2 DEF Order, Put
<1>4. ASSUME NEW t \in Tasks, t # me
      PROVE  /\ Pc(v, t) \in InFlow <=> Contains(v.flow, t)
             /\ Pc(v, t) \in {"sleep"} \cup InFlow => Listed(v, t)
             /\ Tame(v, t)
  <2>1. CASE t = x
    BY <1>1, <1>2, <2>1 DEF Pc, InFlow, Listed, Tame, Known
  <2>2. CASE t # x
    BY <1>2, <1>4, <2>2 DEF Pc, Order, Listed, Tame, Known
  <2> QED
    BY <2>1, <2>2
<1>5. ASSUME NEW i \in 2..Len(v.flow), v.flow[i] # me
      PROVE  Pc(v, v.flow[i]) = "lock"
  <2>1. i \in 1..Len(w.flow) /\ v.flow[i] \in Tasks
    BY DEF Order
  <2>2. Contains(w.flow, v.flow[i])
    BY <2>1 DEF Contains
  <2> QED
    BY <1>2, <1>5, <2>1, <2>2 DEF Order, Pc
<1> QED
  BY <1>3, <1>4, <1>5 DEF Order

\* The list of disconnect timers grows, or loses one that sleeps no more.
LEMMA ListOrder ==
    ASSUME NEW n, NEW w, NEW me, Order(n, w, me), NEW v, IsWeb(v),
           v.store = w.store, v.flow = w.flow, v.tasks = w.tasks,
           \A s \in SessionIds : s \in w.disc /\ s \notin v.disc =>
              \/ Disconnector(s) = me
              \/ Pc(w, Disconnector(s)) \notin {"sleep"} \cup InFlow
    PROVE  Order(n, v, me)
<1>1. ASSUME NEW t \in Tasks, t # me, Pc(v, t) \in {"sleep"} \cup InFlow
      PROVE  Listed(v, t)
  <2>1. Listed(w, t) /\ Pc(w, t) \in {"sleep"} \cup InFlow
    BY <1>1 DEF Order, Pc
  <2> QED
    BY <1>1, <2>1, TaskFacts DEF Listed
<1> QED
  BY <1>1 DEF Order, Pc, Tame, Known

\* The running task suspends, outside the lock or with it.
LEMMA SuspendOrder ==
    ASSUME NEW n, NEW w, NEW me \in Tasks, Order(n, w, me), NEW k, IsTask(k), NEW v, IsWeb(v),
           v.store = w.store, v.flow = w.flow, v.disc = w.disc,
           v.tasks = Put(w.tasks, me, k), k.pc = "reservedstop" => me = Watch,
           \/ Out(n, w, me) /\ k.pc \notin {"sleep"} \cup InFlow
           \/ Holding(n, w, me) /\ Listed(w, me) /\ k.pc \in InFlow
    PROVE  Order(n, v, NoTask)
<1>1. \A t \in Tasks : v.tasks[t] = IF t = me THEN k ELSE w.tasks[t]
  BY DEF Order, Put
<1>2. v.tasks = [t \in Tasks |-> v.tasks[t]] /\ \A t \in Tasks : IsTask(v.tasks[t])
  BY <1>1 DEF Order, Put
<1>3. /\ Holding(n, w, me) => Contains(w.flow, me) /\ Kind(me) # "create"
      /\ Out(n, w, me) => ~Contains(w.flow, me) /\ Known(w, me)
  BY HeadFacts DEF Holding, Order, Entitled, LockKinds, Out
<1>4. ASSUME NEW t \in Tasks
      PROVE  /\ Pc(v, t) \in InFlow <=> Contains(v.flow, t)
             /\ Pc(v, t) \in {"sleep"} \cup InFlow => Listed(v, t)
             /\ Tame(v, t)
  <2>1. CASE t = me
    BY <1>1, <1>3, <2>1 DEF Pc, Listed, Tame, Known
  <2>2. CASE t # me
    BY <1>1, <2>2 DEF Pc, Order, Listed, Tame, Known
  <2> QED
    BY <2>1, <2>2
<1>5. ASSUME NEW i \in 2..Len(v.flow)
      PROVE  Pc(v, v.flow[i]) = "lock"
  <2>1. i \in 1..Len(w.flow) /\ v.flow[i] \in Tasks
    BY DEF Order
  <2>2. Contains(w.flow, v.flow[i])
    BY <2>1 DEF Contains
  <2>3. v.flow[i] # me
    BY <2>2, HeadFacts DEF Order, Holding, Out
  <2> QED
    BY <1>1, <2>1, <2>3 DEF Order, Pc
<1> QED
  BY <1>2, <1>4, <1>5 DEF Order

\* The running task asks for the lock: it has it, or waits at the end.
LEMMA EnterOrder ==
    ASSUME NEW n, NEW w, NEW me, Out(n, w, me), Entitled(n, w.store, me), Listed(w, me),
           NEW v, IsWeb(v), v.store = w.store, v.flow = Append(w.flow, me), v.disc = w.disc,
           v.tasks = w.tasks
    PROVE  /\ Order(n, v, me)
           /\ w.flow = << >> => Holding(n, v, me)
           /\ Contains(v.flow, me)
<1>1. /\ v.flow \in Seq(Tasks) /\ Once(v.flow) /\ v.flow # << >>
      /\ \A y : Contains(v.flow, y) <=> Contains(w.flow, y) \/ y = me
      /\ w.flow # << >> => Head(v.flow) = Head(w.flow)
      /\ w.flow = << >> => Head(v.flow) = me
      /\ \A i \in 2..Len(v.flow) : (i \in 2..Len(w.flow) /\ v.flow[i] = w.flow[i]) \/ v.flow[i] = me
  BY AppendOnce DEF Out, Order
<1>2. Order(n, v, me)
  <2>1. \A t \in Tasks : t # me =>
          /\ Pc(v, t) \in InFlow <=> Contains(v.flow, t)
          /\ Pc(v, t) \in {"sleep"} \cup InFlow => Listed(v, t)
          /\ Tame(v, t)
    BY <1>1 DEF Out, Order, Pc, Listed, Tame, Known
  <2>2. \A i \in 2..Len(v.flow) : v.flow[i] # me => Pc(v, v.flow[i]) = "lock"
    BY <1>1 DEF Out, Order, Pc
  <2>3. \A t \in Tasks : Contains(v.flow, t) => Entitled(n, v.store, t)
    BY <1>1 DEF Out, Order
  <2> QED
    BY <1>1, <2>1, <2>2, <2>3 DEF Out, Order
<1> QED
  BY <1>1, <1>2 DEF Out, Holding

\* Who finds the lock taken waits for it.
LEMMA WaitOrder ==
    ASSUME NEW n, NEW w, NEW me \in Tasks, Order(n, w, me), Contains(w.flow, me), Listed(w, me),
           NEW s, NEW v, IsWeb(v), v.store = w.store, v.flow = w.flow, v.disc = w.disc,
           v.tasks = Put(w.tasks, me, Suspended("lock", s))
    PROVE  Order(n, v, NoTask)
<1>1. IsTask(Suspended("lock", s)) /\ Suspended("lock", s).pc = "lock"
  BY DEF IsTask, Suspended
<1>2. \A t \in Tasks : v.tasks[t] = IF t = me THEN Suspended("lock", s) ELSE w.tasks[t]
  BY DEF Order, Put
<1>3. v.tasks = [t \in Tasks |-> v.tasks[t]] /\ \A t \in Tasks : IsTask(v.tasks[t])
  BY <1>1, <1>2 DEF Order, Put
<1>6. Kind(me) # "create"
  BY DEF Order, Entitled, LockKinds
<1>4. ASSUME NEW t \in Tasks
      PROVE  /\ Pc(v, t) \in InFlow <=> Contains(v.flow, t)
             /\ Pc(v, t) \in {"sleep"} \cup InFlow => Listed(v, t)
             /\ Tame(v, t)
  <2>1. CASE t = me
    BY <1>1, <1>2, <1>6, <2>1 DEF Pc, Listed, InFlow, Tame, Known
  <2>2. CASE t # me
    BY <1>2, <2>2 DEF Pc, Order, Listed, Tame, Known
  <2> QED
    BY <2>1, <2>2
<1>5. ASSUME NEW i \in 2..Len(v.flow)
      PROVE  Pc(v, v.flow[i]) = "lock"
  <2>1. i \in 1..Len(w.flow) /\ v.flow[i] \in Tasks
    BY DEF Order
  <2> QED
    BY <1>1, <1>2, <2>1 DEF Order, Pc
<1> QED
  BY <1>3, <1>4, <1>5 DEF Order

\* The holder leaves the lock to the next one.
LEMMA ReleaseOrder ==
    ASSUME NEW n, NEW w, NEW me, Holding(n, w, me), NEW v, IsWeb(v),
           v.store = w.store, v.flow = Tail(w.flow), v.disc = w.disc, v.tasks = w.tasks
    PROVE  Out(n, v, me)
<1>1. /\ v.flow \in Seq(Tasks) /\ Once(v.flow)
      /\ \A y : Contains(v.flow, y) <=> Contains(w.flow, y) /\ y # me
      /\ \A i \in 1..Len(v.flow) : i + 1 \in 2..Len(w.flow) /\ v.flow[i] = w.flow[i + 1]
  BY PopOnce DEF Holding, Order
<1>2. \A t \in Tasks : t # me =>
          /\ Pc(v, t) \in InFlow <=> Contains(v.flow, t)
          /\ Pc(v, t) \in {"sleep"} \cup InFlow => Listed(v, t)
          /\ Tame(v, t)
  BY <1>1 DEF Holding, Order, Pc, Listed, Tame, Known
<1>3. ASSUME NEW i \in 2..Len(v.flow), v.flow[i] # me
      PROVE  Pc(v, v.flow[i]) = "lock"
  <2>1. i \in 1..Len(v.flow)
    BY <1>1
  <2> QED
    BY <1>1, <1>3, <2>1 DEF Holding, Order, Pc
<1>4. \A t \in Tasks : Contains(v.flow, t) => Entitled(n, v.store, t)
  BY <1>1 DEF Holding, Order
<1>5. Order(n, v, me)
  BY <1>1, <1>2, <1>3, <1>4 DEF Holding, Order
<1>6. Known(v, me)
  BY HeadFacts DEF Holding, Order, Entitled, LockKinds, Known
<1> QED
  BY <1>1, <1>5, <1>6 DEF Out, Holding

-----------------------------------------------------------------------------
(* What the methods do to the lock *)

LEMMA AtFields ==
    ASSUME NEW w, IsWeb(w), NEW t, NEW k
    PROVE  /\ IsWeb(At(w, t, k))
           /\ At(w, t, k).tasks = Put(w.tasks, t, k)
           /\ At(w, t, k).flow = w.flow
           /\ At(w, t, k).store = w.store
           /\ At(w, t, k).disc = w.disc
<1> DEFINE d == Put(w.tasks, t, k)
           v == [w EXCEPT !.tasks = d]
<1>1. At(w, t, k) = v
  BY DEF At, Put
<1> HIDE DEF d
<1>2. IsWeb(v) /\ v.tasks = d /\ v.flow = w.flow /\ v.store = w.store /\ v.disc = w.disc
  BY DEF IsWeb
<1> QED
  BY <1>1, <1>2 DEF d

LEMMA CancelFields ==
    ASSUME NEW w, IsWeb(w), NEW t
    PROVE  /\ IsWeb(CancelTask(w, t))
           /\ CancelTask(w, t).tasks = Put(w.tasks, t, Done)
           /\ CancelTask(w, t).flow = LeaveLock(w.flow, t)
           /\ CancelTask(w, t).store = w.store
           /\ CancelTask(w, t).disc = w.disc
<1> DEFINE c == [i \in DOMAIN w.calls |->
                    IF w.calls[i].by = t THEN [w.calls[i] EXCEPT !.by = NoTask] ELSE w.calls[i]]
           z == w.zombies \cup Thread(w.tasks[t])
           f == LeaveLock(w.flow, t)
           d == [w.tasks EXCEPT ![t] = Done]
           v1 == [w EXCEPT !.tasks = d]
           v2 == [v1 EXCEPT !.flow = f]
           v3 == [v2 EXCEPT !.calls = c]
           v4 == [v3 EXCEPT !.zombies = z]
<1>1. CancelTask(w, t) = [w EXCEPT !.tasks[t] = Done, !.flow = f, !.calls = c, !.zombies = z]
  BY DEF CancelTask
<1>2. CancelTask(w, t) = [w EXCEPT !.tasks = d, !.flow = f, !.calls = c, !.zombies = z]
  <2> HIDE DEF c, z, f
  <2> QED
    BY <1>1
<1>3. CancelTask(w, t) = v4
  <2> HIDE DEF c, z, f, d
  <2> QED
    BY <1>2
<1> HIDE DEF c, z, f, d
<1>4. IsWeb(v1) /\ v1.tasks = d /\ v1.flow = w.flow /\ v1.store = w.store /\ v1.disc = w.disc
  BY DEF IsWeb
<1> HIDE DEF v1
<1>5. IsWeb(v2) /\ v2.tasks = d /\ v2.flow = f /\ v2.store = w.store /\ v2.disc = w.disc
  BY <1>4 DEF IsWeb
<1> HIDE DEF v2
<1>6. IsWeb(v3) /\ v3.tasks = d /\ v3.flow = f /\ v3.store = w.store /\ v3.disc = w.disc
  BY <1>5 DEF IsWeb
<1> HIDE DEF v3
<1>7. IsWeb(v4) /\ v4.tasks = d /\ v4.flow = f /\ v4.store = w.store /\ v4.disc = w.disc
  BY <1>6 DEF IsWeb
<1> QED
  BY <1>3, <1>7 DEF f, d, Put

\* A step of the running task that keeps the lock and whoever is in it, but
\* for tasks that it cancels.
Keeps(n, w, v, me) ==
    /\ Order(n, v, me)
    /\ v.store = w.store
    /\ \A x : Contains(v.flow, x) => Contains(w.flow, x)
    /\ Holding(n, w, me) => Holding(n, v, me)

LEMMA CancelKeeps ==
    ASSUME NEW n, NEW w, NEW me, Order(n, w, me), NEW x, x # me
    PROVE  /\ Keeps(n, w, CancelTask(w, x), me)
           /\ CancelTask(w, x).store = w.store
           /\ CancelTask(w, x).disc = w.disc
<1> DEFINE v == CancelTask(w, x)
<1>1. /\ IsWeb(v) /\ v.tasks = Put(w.tasks, x, Done) /\ v.flow = LeaveLock(w.flow, x)
      /\ v.store = w.store /\ v.disc = w.disc
  BY CancelFields DEF Order
<1> HIDE DEF v
<1> QED
  BY <1>1, CancelOrder DEF Keeps, v

LEMMA CancelExpiryKeeps ==
    ASSUME NEW n, NEW w, NEW me, Order(n, w, me), NEW by, by = me \/ me = NoTask
    PROVE  /\ Keeps(n, w, CancelExpiry(w, by), me)
           /\ CancelExpiry(w, by).store = w.store
           /\ CancelExpiry(w, by).disc = w.disc
<1> DEFINE v == [w EXCEPT !.expiry = NoTask]
<1>1. IsWeb(v) /\ v.store = w.store /\ v.flow = w.flow /\ v.disc = w.disc /\ v.tasks = w.tasks
  BY DEF Order, IsWeb
<1>2. CancelExpiry(w, by) = IF w.expiry = NoTask \/ w.expiry = by THEN v ELSE CancelTask(v, w.expiry)
  BY DEF CancelExpiry
<1> HIDE DEF v
<1>3. Order(n, v, me)
  BY <1>1, SameOrder
<1>4. Keeps(n, w, v, me)
  BY <1>1, <1>3 DEF Keeps, Holding
<1>5. CASE w.expiry = NoTask \/ w.expiry = by
  BY <1>1, <1>2, <1>4, <1>5
<1>6. CASE ~(w.expiry = NoTask \/ w.expiry = by)
  <2>1. /\ Keeps(n, v, CancelTask(v, w.expiry), me)
        /\ CancelTask(v, w.expiry).store = v.store
        /\ CancelTask(v, w.expiry).disc = v.disc
    BY <1>3, <1>6, CancelKeeps
  <2> QED
    BY <1>1, <1>2, <1>4, <1>6, <2>1 DEF Keeps
<1> QED
  BY <1>5, <1>6

\* A timer may be set for a deadline no task in the lock is there for.
LEMMA ScheduleExpiryKeeps ==
    ASSUME NEW n, NEW w, NEW me, Order(n, w, me), NEW by, by = me \/ me = NoTask,
           NEW s,
           \/ w.store.ses[s].expires = NoTime
           \/ ~Contains(w.flow, Expirer(s, w.store.ses[s].expires))
    PROVE  /\ Keeps(n, w, ScheduleExpiry(w, by, s), me)
           /\ ScheduleExpiry(w, by, s).store = w.store
           /\ ScheduleExpiry(w, by, s).disc = w.disc
<1> DEFINE due == w.store.ses[s].expires
           x == Expirer(s, due)
           c == CancelExpiry(w, by)
           k == Suspended("sleep", s)
<1>1. Keeps(n, w, c, me) /\ c.store = w.store /\ c.disc = w.disc
  BY CancelExpiryKeeps
<1>2. ScheduleExpiry(w, by, s) =
        IF due = NoTime THEN c ELSE [c EXCEPT !.expiry = x, !.tasks[x] = k]
  BY DEF ScheduleExpiry
<1>3. CASE due = NoTime
  BY <1>1, <1>2, <1>3
<1>4. CASE due # NoTime
  <2>1. ~Contains(c.flow, x) /\ IsWeb(c) /\ Order(n, c, me) /\ Listed(c, x) /\ Kind(x) # "create"
    BY <1>1, <1>4, TaskFacts DEF Keeps, Order, Listed
  <2> HIDE DEF c, x, k, due
  <2> DEFINE d == Put(c.tasks, x, k)
             u == [c EXCEPT !.expiry = x]
             v == [u EXCEPT !.tasks = d]
  <2>2. ScheduleExpiry(w, by, s) = v
    <3>1. ScheduleExpiry(w, by, s) = [c EXCEPT !.expiry = x, !.tasks[x] = k]
      BY <1>2, <1>4
    <3>2. ScheduleExpiry(w, by, s) = [c EXCEPT !.expiry = x, !.tasks = d]
      BY <2>1, <3>1 DEF Put, IsWeb
    <3> QED
      BY <3>2
  <2> HIDE DEF d
  <2>3. IsWeb(u) /\ u.store = c.store /\ u.flow = c.flow /\ u.disc = c.disc /\ u.tasks = c.tasks
    BY <2>1 DEF IsWeb
  <2> HIDE DEF u
  <2>4. IsWeb(v) /\ v.store = c.store /\ v.flow = c.flow /\ v.disc = c.disc /\ v.tasks = d
    BY <2>3 DEF IsWeb
  <2> HIDE DEF v
  <2>5. Order(n, v, me)
    BY <2>1, <2>4, SleepOrder DEF d, k
  <2>6. Keeps(n, c, v, me)
    BY <2>4, <2>5 DEF Keeps, Holding
  <2> QED
    BY <1>1, <2>2, <2>4, <2>6 DEF Keeps
<1> QED
  BY <1>3, <1>4

LEMMA CancelDisconnectKeeps ==
    ASSUME NEW n, NEW w, NEW me, Order(n, w, me), NEW s \in SessionIds
    PROVE  /\ Keeps(n, w, CancelDisconnect(w, me, s), me)
           /\ CancelDisconnect(w, me, s).store = w.store
           /\ CancelDisconnect(w, me, s).disc = w.disc \ {s}
<1> DEFINE x == Disconnector(s)
           l == w.disc \ {s}
           v == [w EXCEPT !.disc = l]
           u == CancelDisconnect(w, me, s)
<1>1. u = IF s \notin w.disc \/ x = me THEN v ELSE CancelTask(v, x)
  BY DEF CancelDisconnect
<1>2. IsWeb(v) /\ v.store = w.store /\ v.flow = w.flow /\ v.disc = l /\ v.tasks = w.tasks
  <2> HIDE DEF l
  <2> QED
    BY DEF Order, IsWeb
<1>3. \A r \in SessionIds : Disconnector(r) = x => r = s
  BY DEF Disconnector
<1> HIDE DEF u, v
<1>4. CASE s \notin w.disc \/ x = me
  <2>1. Order(n, v, me)
    BY <1>2, <1>4, ListOrder
  <2> QED
    BY <1>1, <1>2, <1>4, <2>1 DEF Keeps, Holding, u
<1>5. CASE ~(s \notin w.disc \/ x = me)
  <2> DEFINE c == CancelTask(w, x)
  <2>1. /\ IsWeb(u) /\ u.tasks = Put(w.tasks, x, Done) /\ u.flow = LeaveLock(w.flow, x)
        /\ u.store = w.store /\ u.disc = l
    BY <1>1, <1>2, <1>5, CancelFields
  <2>2. /\ IsWeb(c) /\ c.tasks = Put(w.tasks, x, Done) /\ c.flow = LeaveLock(w.flow, x)
        /\ c.store = w.store /\ c.disc = w.disc
    BY CancelFields DEF Order
  <2>3. Keeps(n, w, c, me)
    BY <1>5, CancelKeeps
  <2> HIDE DEF c
  <2>4. x \in Tasks /\ Pc(c, x) = "done"
    BY <2>2, TaskFacts DEF Pc, Put, Order, Done, Suspended
  <2>5. Order(n, u, me)
    BY <2>1, <2>2, <2>3, <2>4, ListOrder DEF Keeps, InFlow
  <2> QED
    BY <2>1, <2>2, <2>3, <2>5 DEF Keeps, Holding, u
<1> QED
  BY <1>4, <1>5

\* A disconnect timer is set anew: the one before it is not in the lock.
LEMMA ScheduleDisconnectOrder ==
    ASSUME NEW n, NEW w, Order(n, w, NoTask), NEW s \in SessionIds
    PROVE  Order(n, ScheduleDisconnect(w, s), NoTask)
<1> DEFINE x == Disconnector(s)
           c == CancelDisconnect(w, NoTask, s)
           l == c.disc \cup {s}
           k == Suspended("sleep", s)
           d == Put(c.tasks, x, k)
           u == [c EXCEPT !.disc = l]
           v == [u EXCEPT !.tasks = d]
<1>1. Order(n, c, NoTask) /\ IsWeb(c) /\ c.disc = w.disc \ {s}
  <2>1. Order(n, c, NoTask) /\ c.disc = w.disc \ {s}
    BY CancelDisconnectKeeps DEF Keeps
  <2> HIDE DEF c
  <2> QED
    BY <2>1 DEF Order
<1>2. ScheduleDisconnect(w, s) = [c EXCEPT !.disc = l, !.tasks[x] = k]
  BY DEF ScheduleDisconnect
<1> HIDE DEF c, l, k, x
<1>3. ScheduleDisconnect(w, s) = [c EXCEPT !.disc = l, !.tasks = d]
  BY <1>1, <1>2 DEF Put, Order, IsWeb
<1> HIDE DEF d
<1>4. ScheduleDisconnect(w, s) = v
  BY <1>3
<1>5. IsWeb(u) /\ u.store = c.store /\ u.flow = c.flow /\ u.disc = l /\ u.tasks = c.tasks
  BY <1>1 DEF IsWeb
<1> HIDE DEF u
<1>6. IsWeb(v) /\ v.store = u.store /\ v.flow = u.flow /\ v.disc = u.disc /\ v.tasks = d
  BY <1>5 DEF IsWeb
<1> HIDE DEF v
<1>7. Order(n, u, NoTask)
  BY <1>1, <1>5, ListOrder DEF l
<1>8. x \in Tasks /\ Kind(x) = "disconnect" /\ Subject(x) = s
  BY TaskFacts DEF x
<1>9. ~Contains(u.flow, x)
  BY <1>1, <1>5, <1>8, TaskFacts DEF Order, Listed
<1>10. Listed(u, x)
  BY <1>5, <1>8 DEF Listed, l
<1>11. Order(n, v, NoTask)
  BY <1>5, <1>6, <1>7, <1>8, <1>9, <1>10, SleepOrder DEF d, k
<1> QED
  BY <1>4, <1>11

\* Changes that the lock does not depend on.
LEMMA SameOut ==
    ASSUME NEW n, NEW w, NEW t, NEW v, IsWeb(v),
           v.store = w.store, v.flow = w.flow, v.disc = w.disc, v.tasks = w.tasks
    PROVE  /\ Out(n, w, t) => Out(n, v, t)
           /\ Holding(n, w, t) => Holding(n, v, t)
           /\ Listed(w, t) => Listed(v, t)
BY SameOrder DEF Out, Holding, Listed, Known

LEMMA StoreOut ==
    ASSUME NEW n, NEW w, NEW t, NEW v, IsWeb(v), StoreOK(v.store), Forward(w.store, v.store),
           v.flow = w.flow, v.disc = w.disc, v.tasks = w.tasks
    PROVE  /\ Out(n, w, t) => Out(n, v, t)
           /\ Holding(n, w, t) => Holding(n, v, t)
           /\ Listed(w, t) => Listed(v, t)
<1>1. Out(n, w, t) => Order(n, v, t)
  BY StoreOrder DEF Out
<1>2. Out(n, w, t) => Known(v, t)
  BY TaskFacts DEF Out, Known, Forward
<1> QED
  BY <1>1, <1>2, StoreOrder DEF Out, Holding, Listed

LEMMA AtOrder ==
    ASSUME NEW n, NEW w, NEW t, NEW k, IsTask(k), k.pc = "reservedstop" => t = Watch,
           \/ Out(n, w, t) /\ k.pc \notin {"sleep"} \cup InFlow
           \/ Holding(n, w, t) /\ Listed(w, t) /\ k.pc \in InFlow
    PROVE  Order(n, At(w, t, k), NoTask)
<1> DEFINE v == At(w, t, k)
<1>1. Order(n, w, t) /\ IsWeb(w) /\ t \in Tasks
  BY DEF Out, Holding, Order
<1>2. /\ IsWeb(v) /\ v.tasks = Put(w.tasks, t, k) /\ v.flow = w.flow /\ v.store = w.store
      /\ v.disc = w.disc
  BY <1>1, AtFields
<1> HIDE DEF v
<1>3. Order(n, v, NoTask)
  BY <1>1, <1>2, SuspendOrder DEF Out
<1> QED
  BY <1>3 DEF v

\* A request goes out, of a start or of the holder of the lock.
LEMMA SendOrder ==
    ASSUME NEW n, NEW w, NEW t, NEW pc, NEW s, pc = "reservedstop" => t = Watch,
           \/ Out(n, w, t) /\ pc \notin {"sleep"} \cup InFlow
           \/ Holding(n, w, t) /\ Listed(w, t) /\ pc \in InFlow
    PROVE  Order(n, Send(w, t, pc, s), NoTask)
<1> DEFINE c == Append(w.calls, [op |-> Op(pc), ses |-> s, by |-> t, stage |-> "sent"])
           v == [w EXCEPT !.calls = c]
           k == [Suspended(pc, s) EXCEPT !.call = "out"]
<1>1. Send(w, t, pc, s) = At(v, t, k)
  BY DEF Send
<1>2. IsTask(k) /\ k.pc = pc
  BY DEF IsTask, Suspended
<1> HIDE DEF c, k
<1>3. IsWeb(v) /\ v.store = w.store /\ v.flow = w.flow /\ v.disc = w.disc /\ v.tasks = w.tasks
  BY DEF Out, Holding, Order, IsWeb
<1> HIDE DEF v
<1>4. \/ Out(n, v, t) /\ k.pc \notin {"sleep"} \cup InFlow
      \/ Holding(n, v, t) /\ Listed(v, t) /\ k.pc \in InFlow
  BY <1>2, <1>3, SameOut
<1> QED
  BY <1>1, <1>2, <1>4, AtOrder

\* A runtime is stopped in a thread.
Stops(w, t, pc, s, r) ==
    At([w EXCEPT !.runtime = NoSession], t, [Suspended(pc, s) EXCEPT !.run = r])

LEMMA StopOrder ==
    ASSUME NEW n, NEW w, NEW t, NEW pc, NEW s, NEW r, pc = "reservedstop" => t = Watch,
           \/ Out(n, w, t) /\ pc \notin {"sleep"} \cup InFlow
           \/ Holding(n, w, t) /\ Listed(w, t) /\ pc \in InFlow
    PROVE  Order(n, Stops(w, t, pc, s, r), NoTask)
<1> DEFINE v == [w EXCEPT !.runtime = NoSession]
           k == [Suspended(pc, s) EXCEPT !.run = r]
<1>1. IsTask(k) /\ k.pc = pc
  BY DEF IsTask, Suspended
<1> HIDE DEF k
<1>2. IsWeb(v) /\ v.store = w.store /\ v.flow = w.flow /\ v.disc = w.disc /\ v.tasks = w.tasks
  BY DEF Out, Holding, Order, IsWeb
<1> HIDE DEF v
<1>3. \/ Out(n, v, t) /\ k.pc \notin {"sleep"} \cup InFlow
      \/ Holding(n, v, t) /\ Listed(v, t) /\ k.pc \in InFlow
  BY <1>1, <1>2, SameOut
<1>4. Order(n, At(v, t, k), NoTask)
  BY <1>1, <1>3, AtOrder
<1> QED
  BY <1>4 DEF v, k, Stops

LEMMA ReturnOrder ==
    ASSUME NEW n, NEW w, NEW t, Out(n, w, t)
    PROVE  Order(n, Return(w, t), NoTask)
<1> DEFINE k == Rest(t)
           v == At(w, t, k)
           e == [v EXCEPT !.expiry = NoTask]
           l == v.disc \ {Subject(t)}
           d == [v EXCEPT !.disc = l]
<1>1. IsTask(k) /\ k.pc \in {"idle", "done"}
  BY DEF Rest, IsTask, Suspended, Done
<1>2. /\ Return(w, t) \in {e, d, v}
      /\ Kind(t) # "disconnect" => Return(w, t) \in {e, v}
      /\ Kind(t) = "disconnect" => Return(w, t) = d
  BY DEF Return
<1> HIDE DEF k
<1>3. Order(n, v, NoTask) /\ IsWeb(v)
  BY <1>1, AtOrder DEF InFlow, Order
<1>4. Pc(v, t) \in {"idle", "done"} /\ t \in Tasks
  <2>1. t \in Tasks /\ IsWeb(w) /\ w.tasks = [x \in Tasks |-> w.tasks[x]]
    BY DEF Out, Order
  <2>2. v.tasks = Put(w.tasks, t, k)
    BY <2>1, AtFields
  <2> QED
    BY <1>1, <2>1, <2>2 DEF Pc, Put
<1> HIDE DEF v, l
<1>5. /\ IsWeb(e) /\ e.store = v.store /\ e.flow = v.flow /\ e.disc = v.disc /\ e.tasks = v.tasks
      /\ IsWeb(d) /\ d.store = v.store /\ d.flow = v.flow /\ d.disc = l /\ d.tasks = v.tasks
  BY <1>3 DEF IsWeb
<1> HIDE DEF e, d
<1>6. Order(n, e, NoTask)
  BY <1>3, <1>5, SameOrder
<1>7. ASSUME Kind(t) = "disconnect" PROVE Order(n, d, NoTask)
  <2>1. t = Disconnector(Subject(t))
    BY <1>4, <1>7, TaskFacts
  <2> QED
    BY <1>3, <1>4, <1>5, <2>1, ListOrder DEF l, InFlow
<1> QED
  BY <1>2, <1>3, <1>6, <1>7

-----------------------------------------------------------------------------
(* Starts *)

LEMMA StartedOrder ==
    ASSUME now \in Nat, NEW w, NEW t, NEW s, Out(now, w, t)
    PROVE  Order(now, Started(w, t, s), NoTask)
<1>1. CASE CanActivate(w.store, s)
  <2> DEFINE m == Activate(w.store, s, now)
             v == [w EXCEPT !.store = m]
             u == ScheduleExpiry(v, t, s)
  <2>1. StoreOK(m) /\ Forward(w.store, m) /\ StatusOf(w.store, s) = "starting"
    BY <1>1, ActivateOK DEF Out, Order, CanActivate
  <2>2. Started(w, t, s) = Return(u, t)
    BY <1>1 DEF Started
  <2> HIDE DEF m
  <2>3. IsWeb(v) /\ v.store = m /\ v.flow = w.flow /\ v.disc = w.disc /\ v.tasks = w.tasks
    BY DEF Out, Order, IsWeb
  <2> HIDE DEF v
  <2>4. Out(now, v, t)
    BY <2>1, <2>3, StoreOut
  <2>5. ~Contains(v.flow, Expirer(s, v.store.ses[s].expires))
    <3> DEFINE x == Expirer(s, v.store.ses[s].expires)
    <3>1. Kind(x) = "expiry" /\ Subject(x) = s
      BY TaskFacts
    <3> HIDE DEF x
    <3>2. ASSUME Contains(w.flow, x) PROVE FALSE
      <4>1. x \in Tasks
        BY <3>2 DEF Contains, Out, Order
      <4> QED
        BY <2>1, <3>1, <3>2, <4>1 DEF Out, Order, Entitled, Begun
    <3> QED
      BY <2>3, <3>2 DEF x
  <2>6. Keeps(now, v, u, t)
    BY <2>4, <2>5, ScheduleExpiryKeeps DEF Out
  <2> HIDE DEF u
  <2>7. Out(now, u, t)
    BY <2>4, <2>6 DEF Out, Keeps, Known
  <2> QED
    BY <2>2, <2>7, ReturnOrder
<1>2. CASE ~CanActivate(w.store, s) /\ w.runtime = NoSession
  BY <1>2, ReturnOrder DEF Started
<1>3. CASE ~CanActivate(w.store, s) /\ w.runtime # NoSession
  BY <1>3, StopOrder DEF Started, InFlow, Stops
<1> QED
  BY <1>1, <1>2, <1>3

LEMMA ProgrammedOrder ==
    ASSUME now \in Nat, NEW w, NEW t, NEW s, Out(now, w, t)
    PROVE  Order(now, Programmed(w, t, s), NoTask)
<1>1. IsTask(Suspended("rt", s)) /\ Suspended("rt", s).pc = "rt"
  BY DEF IsTask, Suspended, InFlow
<1>2. Order(now, At(w, t, Suspended("rt", s)), NoTask)
  BY <1>1, AtOrder DEF InFlow
<1> QED
  BY <1>2, StartedOrder DEF Programmed

LEMMA ProgramPSOrder ==
    ASSUME now \in Nat, NEW w, NEW t, NEW s, Out(now, w, t)
    PROVE  Order(now, ProgramPS(w, t, s), NoTask)
BY ProgrammedOrder, SendOrder DEF ProgramPS, InFlow

LEMMA ProgramPLOrder ==
    ASSUME now \in Nat, NEW w, NEW t, NEW s, Out(now, w, t)
    PROVE  Order(now, ProgramPL(w, t, s), NoTask)
BY ProgramPSOrder, SendOrder DEF ProgramPL, InFlow

LEMMA TryStartNextOrder ==
    ASSUME now \in Nat, NEW w, NEW t, Out(now, w, t)
    PROVE  Order(now, TryStartNext(w, t), NoTask)
<1>1. CASE MayStart(w) /\ CanBegin(w.store)
  <2> DEFINE m == BeginNext(w.store)
             v == [w EXCEPT !.store = m]
             s == Head(w.store.queue)
  <2>1. StoreOK(m) /\ Forward(w.store, m)
    BY <1>1, BeginNextOK DEF Out, Order
  <2>2. TryStartNext(w, t) = ProgramPL(v, t, s)
    BY <1>1 DEF TryStartNext
  <2> HIDE DEF m, s
  <2>3. IsWeb(v) /\ v.store = m /\ v.flow = w.flow /\ v.disc = w.disc /\ v.tasks = w.tasks
    BY DEF Out, Order, IsWeb
  <2> HIDE DEF v
  <2>4. Out(now, v, t)
    BY <2>1, <2>3, StoreOut
  <2> QED
    BY <2>2, <2>4, ProgramPLOrder
<1>2. CASE ~(MayStart(w) /\ CanBegin(w.store))
  BY <1>2, ReturnOrder DEF TryStartNext
<1> QED
  BY <1>1, <1>2

LEMMA StartFailedOrder ==
    ASSUME now \in Nat, NEW w, NEW t, NEW s, Out(now, w, t)
    PROVE  Order(now, StartFailed(w, t, s), NoTask)
<1> DEFINE m == IF CanActivate(w.store, s) THEN FailStart(w.store, s) ELSE w.store
           v == [w EXCEPT !.store = m]
<1>1. StoreOK(m) /\ Forward(w.store, m)
  BY FailStartOK DEF Out, Order, Forward
<1>2. StartFailed(w, t, s) = Send(v, t, "failreset", s)
  BY DEF StartFailed
<1> HIDE DEF m
<1>3. IsWeb(v) /\ v.store = m /\ v.flow = w.flow /\ v.disc = w.disc /\ v.tasks = w.tasks
  BY DEF Out, Order, IsWeb
<1> HIDE DEF v
<1>4. Out(now, v, t)
  BY <1>1, <1>3, StoreOut
<1> QED
  BY <1>2, <1>4, SendOrder DEF InFlow

LEMMA StartErrorOrder ==
    ASSUME now \in Nat, NEW w, NEW t, NEW s, Out(now, w, t)
    PROVE  Order(now, StartError(w, t, s), NoTask)
<1>1. CASE w.runtime = NoSession
  BY <1>1, StartFailedOrder DEF StartError
<1>2. CASE w.runtime # NoSession
  BY <1>2, StopOrder DEF StartError, InFlow, Stops
<1> QED
  BY <1>1, <1>2

-----------------------------------------------------------------------------
(* Ends *)

LEMMA ReleaseOut ==
    ASSUME NEW n, NEW w, NEW t, Holding(n, w, t)
    PROVE  Out(n, Release(w), t)
<1> DEFINE q == Tail(w.flow)
           v == [w EXCEPT !.flow = q]
<1>1. Release(w) = v
  BY DEF Release
<1> HIDE DEF q
<1>2. IsWeb(v) /\ v.store = w.store /\ v.flow = q /\ v.disc = w.disc /\ v.tasks = w.tasks
  BY DEF Holding, Order, IsWeb
<1> HIDE DEF v
<1>3. Out(n, v, t)
  BY <1>2, ReleaseOrder DEF q
<1> QED
  BY <1>1, <1>3

LEMMA EndUnderLockOrder ==
    ASSUME NEW n, NEW w, NEW t, NEW s, Holding(n, w, t), Listed(w, t)
    PROVE  Order(n, EndUnderLock(w, t, s), NoTask)
<1>1. CASE w.runtime = NoSession
  BY <1>1, SendOrder DEF EndUnderLock, InFlow
<1>2. CASE w.runtime # NoSession
  BY <1>2, StopOrder DEF EndUnderLock, InFlow, Stops
<1> QED
  BY <1>1, <1>2

LEMMA LockedOrder ==
    ASSUME NEW n, NEW w, NEW t, Holding(n, w, t), Listed(w, t)
    PROVE  Order(n, Locked(w, t), NoTask)
<1>1. CASE Kind(t) = "end"
  BY <1>1, EndUnderLockOrder DEF Locked
<1>2. CASE Kind(t) # "end" /\ ActiveId(w) = NoSession
  <2>1. Order(n, Return(Release(w), t), NoTask)
    BY ReleaseOut, ReturnOrder
  <2> QED
    BY <1>2, <2>1 DEF Locked
<1>3. CASE Kind(t) # "end" /\ ActiveId(w) # NoSession
  <2> DEFINE m == BeginActiveEnd(w.store, Reason(t))
             v == [w EXCEPT !.store = m]
  <2>1. Kind(t) \in LockKinds
    BY HeadFacts DEF Holding, Order, Entitled
  <2>2. Reason(t) \in SessionEndReason
    BY <1>3, <2>1 DEF Reason, LockKinds, SessionEndReason, TimeLimit
  <2>3. StoreOK(m) /\ Forward(w.store, m)
    BY <2>2, BeginActiveEndOK DEF Holding, Order
  <2>4. Locked(w, t) = EndUnderLock(v, t, ActiveId(w))
    BY <1>3 DEF Locked
  <2> HIDE DEF m
  <2>5. IsWeb(v) /\ v.store = m /\ v.flow = w.flow /\ v.disc = w.disc /\ v.tasks = w.tasks
    BY DEF Holding, Order, IsWeb
  <2> HIDE DEF v
  <2>6. Holding(n, v, t) /\ Listed(v, t)
    BY <2>3, <2>5, StoreOut
  <2> QED
    BY <2>4, <2>6, EndUnderLockOrder
<1> QED
  BY <1>1, <1>2, <1>3

LEMMA AcquireOrder ==
    ASSUME NEW n, NEW w, NEW t, Out(n, w, t), Listed(w, t), Entitled(n, w.store, t)
    PROVE  Order(n, Acquire(w, t), NoTask)
<1> DEFINE q == Append(w.flow, t)
           v == [w EXCEPT !.flow = q]
           k == Suspended("lock", Subject(t))
           u == At(v, t, k)
<1>1. Acquire(w, t) = IF w.flow = << >> THEN Locked(v, t) ELSE u
  BY DEF Acquire
<1> HIDE DEF q, k
<1>2. IsWeb(v) /\ v.store = w.store /\ v.flow = q /\ v.disc = w.disc /\ v.tasks = w.tasks
  BY DEF Out, Order, IsWeb
<1> HIDE DEF v
<1>3. Order(n, v, t) /\ Contains(v.flow, t) /\ (w.flow = << >> => Holding(n, v, t))
  BY <1>2, EnterOrder DEF q
<1>4. Listed(v, t) /\ t \in Tasks
  BY <1>2 DEF Listed, Out
<1>5. w.flow = << >> => Order(n, Locked(v, t), NoTask)
  BY <1>3, <1>4, LockedOrder
<1>6. /\ IsWeb(u) /\ u.tasks = Put(v.tasks, t, k) /\ u.flow = v.flow /\ u.store = v.store
      /\ u.disc = v.disc
  BY <1>2, AtFields
<1> HIDE DEF u
<1>7. Order(n, u, NoTask)
  BY <1>3, <1>4, <1>6, WaitOrder DEF k
<1> QED
  BY <1>1, <1>5, <1>7

LEMMA EndedOrder ==
    ASSUME now \in Nat, NEW w, NEW t, Holding(now, w, t)
    PROVE  Order(now, Ended(w, t), NoTask)
<1> DEFINE a == ActiveId(w)
           m == FinishActive(w.store)
           f == [w EXCEPT !.store = m]
           g == [f EXCEPT !.counts[a] = 0]
           c == [f.counts EXCEPT ![a] = 0]
           h == [f EXCEPT !.counts = c]
           v == IF Kind(t) = "end" \/ a = NoSession THEN f ELSE CancelDisconnect(g, t, a)
<1>1. Ended(w, t) = TryStartNext(Release(v), t)
  BY DEF Ended
<1>2. StoreOK(m) /\ Forward(w.store, m)
  BY FinishOK DEF Holding, Order
<1>3. a = NoSession \/ a \in SessionIds
  BY StoreFacts DEF Holding, Order, StoreOK, ActiveId
<1> HIDE DEF m, a
<1>4. IsWeb(f) /\ f.store = m /\ f.flow = w.flow /\ f.disc = w.disc /\ f.tasks = w.tasks
  BY DEF Holding, Order, IsWeb
<1>5. g = h
  OBVIOUS
<1> HIDE DEF f, c, g
<1>6. Holding(now, f, t)
  BY <1>2, <1>4, StoreOut
<1>7. IsWeb(h) /\ h.store = f.store /\ h.flow = f.flow /\ h.disc = f.disc /\ h.tasks = f.tasks
  BY <1>4 DEF IsWeb
<1> HIDE DEF h
<1>8. Holding(now, g, t)
  BY <1>5, <1>6, <1>7, SameOut
<1>9. Holding(now, v, t)
  <2>1. a \in SessionIds => Holding(now, CancelDisconnect(g, t, a), t)
    BY <1>8, CancelDisconnectKeeps DEF Keeps, Holding
  <2> QED
    BY <1>3, <1>6, <2>1
<1> HIDE DEF v
<1>10. Out(now, Release(v), t)
  BY <1>9, ReleaseOut
<1> QED
  BY <1>1, <1>10, TryStartNextOrder

-----------------------------------------------------------------------------
(* Board problems *)

LEMMA ProblemEndedOrder ==
    ASSUME NEW n, NEW w, Out(n, w, Watch)
    PROVE  Order(n, ProblemEnded(w), NoTask)
<1> DEFINE m == FinishActive(w.store)
           v == [w EXCEPT !.store = m]
<1>1. StoreOK(m) /\ Forward(w.store, m)
  BY FinishOK DEF Out, Order
<1>2. ProblemEnded(w) = Return(v, Watch)
  BY DEF ProblemEnded
<1> HIDE DEF m
<1>3. IsWeb(v) /\ v.store = m /\ v.flow = w.flow /\ v.disc = w.disc /\ v.tasks = w.tasks
  BY DEF Out, Order, IsWeb
<1> HIDE DEF v
<1>4. Out(n, v, Watch)
  BY <1>1, <1>3, StoreOut
<1> QED
  BY <1>2, <1>4, ReturnOrder

LEMMA ProblemStoppedOrder ==
    ASSUME NEW n, NEW w, Out(n, w, Watch), NEW s, NEW reserved
    PROVE  Order(n, ProblemStopped(w, s, reserved), NoTask)
<1>1. Order(n, Send(w, Watch, "reservedreset", s), NoTask)
  BY SendOrder DEF InFlow
<1> QED
  BY <1>1, ProblemEndedOrder DEF ProblemStopped

LEMMA BoardProblemOrder ==
    ASSUME NEW n, NEW w, Out(n, w, Watch), NEW reason \in BoardProblem
    PROVE  Order(n, EndForBoardProblem(w, reason), NoTask)
<1> DEFINE s == ActiveId(w)
           c == CancelExpiry(w, Watch)
           m == BeginActiveEnd(c.store, reason)
           v == [c EXCEPT !.store = m]
           pc == IF reason = "reserved" THEN "reservedstop" ELSE "problemstop"
<1>1. EndForBoardProblem(w, reason) =
        IF s = NoSession THEN Return(c, Watch)
        ELSE IF w.runtime = NoSession THEN ProblemStopped(v, s, reason = "reserved")
        ELSE Stops(v, Watch, pc, s, w.runtime)
  BY DEF EndForBoardProblem, Stops
<1>2. Out(n, c, Watch)
  <2>1. Keeps(n, w, c, Watch)
    BY CancelExpiryKeeps DEF Out
  <2> HIDE DEF c
  <2> QED
    BY <2>1 DEF Out, Keeps, Known
<1>3. Out(n, v, Watch)
  <2> HIDE DEF c
  <2>1. reason \in SessionEndReason
    BY DEF SessionEndReason
  <2>2. StoreOK(m) /\ Forward(c.store, m)
    BY <1>2, <2>1, BeginActiveEndOK DEF Out, Order
  <2> HIDE DEF m
  <2>4. IsWeb(c)
    BY <1>2 DEF Out, Order
  <2>3. IsWeb(v) /\ v.store = m /\ v.flow = c.flow /\ v.disc = c.disc /\ v.tasks = c.tasks
    BY <2>4 DEF IsWeb
  <2> HIDE DEF v
  <2> QED
    BY <1>2, <2>2, <2>3, StoreOut
<1>4. pc \notin {"sleep"} \cup InFlow
  BY DEF InFlow
<1> HIDE DEF c, v, pc
<1>5. Order(n, Return(c, Watch), NoTask)
  BY <1>2, ReturnOrder
<1>6. Order(n, ProblemStopped(v, s, reason = "reserved"), NoTask)
  BY <1>3, ProblemStoppedOrder
<1>7. Order(n, Stops(v, Watch, pc, s, w.runtime), NoTask)
  BY <1>3, <1>4, StopOrder
<1> QED
  BY <1>1, <1>5, <1>6, <1>7

LEMMA HandleBoardStateOrder ==
    ASSUME now \in Nat, NEW w, Order(now, w, NoTask), Pc(w, Watch) = "idle", NEW view
    PROVE  Order(now, HandleBoardState(w, view), NoTask)
<1> DEFINE v == [w EXCEPT !.fpga = view]
<1>1. HandleBoardState(w, view) \in
        {EndForBoardProblem(v, r) : r \in BoardProblem} \cup {TryStartNext(v, Watch), v}
  BY DEF HandleBoardState, BoardProblem
<1>2. IsWeb(v) /\ v.store = w.store /\ v.flow = w.flow /\ v.disc = w.disc /\ v.tasks = w.tasks
  BY DEF Order, IsWeb
<1> HIDE DEF v
<1>3. Order(now, v, NoTask)
  BY <1>2, SameOrder
<1>4. Out(now, v, Watch)
  BY <1>2, <1>3, Resumes, TaskFacts DEF Pc, InFlow
<1>5. Order(now, TryStartNext(v, Watch), NoTask)
  BY <1>4, TryStartNextOrder
<1> QED
  BY <1>1, <1>3, <1>4, <1>5, BoardProblemOrder

-----------------------------------------------------------------------------
(* The invariant *)

LockOrder == now \in Nat /\ Order(now, web, NoTask)

LEMMA RestFacts ==
    \A t : IsTask(Rest(t)) /\ Rest(t).pc \in {"idle", "done"} /\ (t # Watch => Rest(t).pc = "done")
BY DEF Rest, IsTask, Suspended, Done

\* A manager that has just started has nobody in its lock.
LEMMA FreshOrder ==
    ASSUME NEW n, NEW w, IsWeb(w), StoreOK(w.store), w.flow = << >>,
           w.tasks = [t \in Tasks |-> Rest(t)]
    PROVE  Order(n, w, NoTask)
<1>1. \A t \in Tasks : w.tasks[t] = Rest(t)
  OBVIOUS
<1>2. << >> \in Seq(Tasks) /\ Once(<< >>) /\ \A x : ~Contains(<< >>, x)
  BY DEF Once, Contains
<1> QED
  BY <1>1, <1>2, RestFacts, TaskFacts DEF Order, Pc, InFlow, Tame, Known

LEMMA LockInit == Init => LockOrder
<1> SUFFICES ASSUME Init PROVE Order(0, web, NoTask)
  BY DEF Init, LockOrder
<1>1. IsWeb(web) /\ web.store = EmptyStore /\ web.flow = << >> /\ web.tasks = [t \in Tasks |-> Rest(t)]
  BY DEF Init, StartedManager, IsWeb
<1> QED
  BY <1>1, EmptyOK, FreshOrder

LEMMA CreateStep ==
    ASSUME LockOrder, NEW u \in Users, NEW d \in Demos, CreateSession(u, d)
    PROVE  LockOrder'
<1> DEFINE s == web.store.count + 1
           a == ActiveId(web)
           m == Create(web.store, u, d, now)
           v == [web EXCEPT !.store = m]
           limited == a # NoSession /\ v.store.ses[a].expires # web.store.ses[a].expires
           c == ScheduleExpiry(v, Creator(s), a)
           timed == IF limited THEN c ELSE v
<1>1. CanCreate(web.store, u) /\ web' = TryStartNext(timed, Creator(s)) /\ now' = now
  BY DEF CreateSession
<1>2. /\ StoreOK(m) /\ Forward(web.store, m)
      /\ StatusOf(m, s) = "queued"
      /\ a # NoSession => \/ m.ses[a].expires \in {NoTime, web.store.ses[a].expires}
                          \/ m.ses[a].expires > now
  BY <1>1, CreateOK DEF LockOrder, Order, ActiveId
<1>3. s \in SessionIds
  BY <1>1, StoreFacts, BoundAssumption DEF LockOrder, Order, StoreOK, CanCreate, SessionIds
<1> HIDE DEF m, s
<1>4. IsWeb(v) /\ v.store = m /\ v.flow = web.flow /\ v.disc = web.disc /\ v.tasks = web.tasks
  BY DEF LockOrder, Order, IsWeb
<1> HIDE DEF v
<1>5. Order(now, v, NoTask)
  BY <1>2, <1>4, StoreOrder DEF LockOrder
<1>6. ASSUME limited PROVE Order(now, c, NoTask) /\ c.store = m
  <2> DEFINE x == Expirer(a, v.store.ses[a].expires)
  <2>1. v.store.ses[a].expires = NoTime \/ v.store.ses[a].expires > now
    BY <1>2, <1>4, <1>6
  <2>2. Kind(x) = "expiry" /\ Subject(x) = a /\ x[3] = v.store.ses[a].expires
    BY TaskFacts
  <2> HIDE DEF x
  <2>3. ASSUME v.store.ses[a].expires > now, Contains(v.flow, x) PROVE FALSE
    <3>1. x \in Tasks
      BY <2>3, <1>5 DEF Contains, Order
    <3>2. x[3] <= now
      BY <1>5, <2>2, <2>3, <3>1 DEF Order, Entitled
    <3>3. x[3] \in Int
      BY <2>2, <3>1, DeadlinesAreNumbers
    <3> QED
      BY <2>2, <2>3, <3>2, <3>3 DEF LockOrder
  <2>4. Keeps(now, v, c, NoTask) /\ c.store = v.store
    BY <1>5, <2>1, <2>3, ScheduleExpiryKeeps DEF x
  <2> QED
    BY <1>4, <2>4 DEF Keeps
<1>7. Order(now, timed, NoTask) /\ timed.store = m
  BY <1>4, <1>5, <1>6
<1> HIDE DEF timed
<1>8. Creator(s) \in Tasks /\ Kind(Creator(s)) = "create" /\ Subject(Creator(s)) = s
      /\ Creator(s) # NoTask
  BY <1>3, TaskFacts
<1>9. Out(now, timed, Creator(s))
  <2>1. ~Contains(timed.flow, Creator(s))
    BY <1>7, <1>8 DEF Order, Entitled, LockKinds
  <2>2. Pc(timed, Creator(s)) \notin InFlow
    BY <1>7, <1>8, <2>1 DEF Order
  <2>3. Known(timed, Creator(s))
    BY <1>2, <1>7, <1>8 DEF Known
  <2> QED
    BY <1>7, <1>8, <2>2, <2>3, Resumes
<1> QED
  BY <1>1, <1>9, TryStartNextOrder DEF LockOrder

LEMMA CancelStep ==
    ASSUME LockOrder, NEW u \in Users, NEW s \in SessionIds, CancelSession(u, s)
    PROVE  LockOrder'
<1> DEFINE a == ActiveId(web)
           m == Cancel(web.store, s)
           v == [web EXCEPT !.store = m]
           lifted == a # NoSession /\ v.store.ses[a].expires # web.store.ses[a].expires
           c == ScheduleExpiry(v, Ender(s), a)
<1>1. CanCancel(web.store, u, s) /\ web' = (IF lifted THEN c ELSE v) /\ now' = now
  BY DEF CancelSession
<1>2. /\ StoreOK(m) /\ Forward(web.store, m)
      /\ a # NoSession => m.ses[a].expires \in {NoTime, web.store.ses[a].expires}
  BY <1>1, CancelOK DEF LockOrder, Order, ActiveId
<1> HIDE DEF m
<1>3. IsWeb(v) /\ v.store = m /\ v.flow = web.flow /\ v.disc = web.disc /\ v.tasks = web.tasks
  BY DEF LockOrder, Order, IsWeb
<1> HIDE DEF v
<1>4. Order(now, v, NoTask)
  BY <1>2, <1>3, StoreOrder DEF LockOrder
<1>5. ASSUME lifted PROVE Order(now, c, NoTask)
  <2>1. v.store.ses[a].expires = NoTime
    BY <1>2, <1>3, <1>5
  <2> QED
    BY <1>4, <2>1, ScheduleExpiryKeeps DEF Keeps
<1> QED
  BY <1>1, <1>4, <1>5 DEF LockOrder

LEMMA EndStep ==
    ASSUME LockOrder, NEW u \in Users, NEW s \in SessionIds, EndSession(u, s)
    PROVE  LockOrder'
<1> DEFINE t == Ender(s)
           m == BeginEnd(web.store, "user_ended")
           v == [web EXCEPT !.store = m]
           c == CancelExpiry(v, t)
<1>1. CanEndOnBoard(web.store, u, s) /\ web' = Acquire(c, t) /\ now' = now
  BY DEF EndSession
<1>2. web.store.active = s /\ s # NoSession /\ StatusOf(web.store, s) \in {"starting", "active"}
  BY <1>1 DEF CanEndOnBoard, IsActive
<1>3. StoreOK(m) /\ Forward(web.store, m) /\ StatusOf(m, s) = "ending"
  BY <1>2, BeginEndOK DEF LockOrder, Order, SessionEndReason
<1> HIDE DEF m
<1>4. IsWeb(v) /\ v.store = m /\ v.flow = web.flow /\ v.disc = web.disc /\ v.tasks = web.tasks
  BY DEF LockOrder, Order, IsWeb
<1> HIDE DEF v
<1>5. t \in Tasks /\ Kind(t) = "end" /\ Subject(t) = s /\ t # NoTask
  BY TaskFacts
<1> HIDE DEF t
<1>6. ~Contains(web.flow, t)
  BY <1>2, <1>5 DEF LockOrder, Order, Entitled, Ending
<1>7. Order(now, v, NoTask)
  BY <1>3, <1>4, StoreOrder DEF LockOrder
<1>8. Out(now, v, t)
  <2>1. Pc(v, t) \notin InFlow
    BY <1>4, <1>5, <1>6, <1>7 DEF Order
  <2> QED
    BY <1>5, <1>7, <2>1, Resumes DEF Known
<1>9. Keeps(now, v, c, t) /\ c.store = m
  BY <1>4, <1>8, CancelExpiryKeeps DEF Out
<1> HIDE DEF c
<1>10. Out(now, c, t) /\ Listed(c, t) /\ Entitled(now, c.store, t)
  BY <1>3, <1>5, <1>8, <1>9 DEF Out, Keeps, Known, Listed, Entitled, LockKinds, Ending
<1> QED
  BY <1>1, <1>10, AcquireOrder DEF LockOrder

LEMMA OpenStep ==
    ASSUME LockOrder, NEW s \in SessionIds, OpenConnection(s)
    PROVE  LockOrder'
<1> DEFINE c == CancelDisconnect(web, NoTask, s)
           l == [c.counts EXCEPT ![s] = @ + 1]
           v == [c EXCEPT !.counts = l]
<1>1. web' = v /\ now' = now
  BY DEF OpenConnection
<1>2. Order(now, c, NoTask)
  BY CancelDisconnectKeeps DEF LockOrder, Keeps
<1> HIDE DEF c, l
<1>3. IsWeb(v) /\ v.store = c.store /\ v.flow = c.flow /\ v.disc = c.disc /\ v.tasks = c.tasks
  BY <1>2 DEF Order, IsWeb
<1> HIDE DEF v
<1>4. Order(now, v, NoTask)
  BY <1>2, <1>3, SameOrder
<1> QED
  BY <1>1, <1>4 DEF LockOrder

LEMMA CloseStep ==
    ASSUME LockOrder, NEW s \in SessionIds, CloseConnection(s)
    PROVE  LockOrder'
<1> DEFINE left == IF web.counts[s] > 0 THEN web.counts[s] - 1 ELSE 0
           l == [web.counts EXCEPT ![s] = left]
           v == [web EXCEPT !.counts = l]
<1>1. web' \in {ScheduleDisconnect(v, s), v} /\ now' = now
  BY DEF CloseConnection
<1> HIDE DEF l
<1>2. IsWeb(v) /\ v.store = web.store /\ v.flow = web.flow /\ v.disc = web.disc /\ v.tasks = web.tasks
  BY DEF LockOrder, Order, IsWeb
<1> HIDE DEF v
<1>3. Order(now, v, NoTask)
  BY <1>2, SameOrder DEF LockOrder
<1> QED
  BY <1>1, <1>3, ScheduleDisconnectOrder DEF LockOrder

LEMMA TickStep == ASSUME LockOrder, Tick PROVE LockOrder'
<1>1. web' = web /\ now' = now + 1
  BY DEF Tick
<1> QED
  BY <1>1, LaterOrder, DeadlinesAreNumbers DEF LockOrder

LEMMA ExpiryStep ==
    ASSUME LockOrder, NEW s \in SessionIds, NEW due \in Deadlines, ExpiryFires(s, due)
    PROVE  LockOrder'
<1> DEFINE t == Expirer(s, due)
<1>1. /\ Pc(web, t) = "sleep" /\ due <= now /\ now' = now
      /\ web' = IF ActiveId(web) = s /\ ActiveIs(web.store, "active")
                                     /\ ActiveSession(web).expires = due
                THEN Acquire(web, t) ELSE At(web, t, Done)
  BY DEF ExpiryFires
<1>2. t \in Tasks /\ Kind(t) = "expiry" /\ Subject(t) = s /\ t[3] = due
  BY TaskFacts DEF Tasks
<1> HIDE DEF t
<1>3. Out(now, web, t)
  BY <1>1, <1>2, Resumes DEF LockOrder, InFlow
<1>4. CASE ActiveId(web) = s /\ ActiveIs(web.store, "active")
  <2>1. Entitled(now, web.store, t) /\ Listed(web, t)
    BY <1>1, <1>2, <1>4 DEF Entitled, LockKinds, ActiveIs, ActiveId, Begun, Listed
  <2>2. IsTask(Done) /\ Done.pc = "done"
    BY DEF Done, Suspended, IsTask
  <2> QED
    BY <1>1, <1>3, <2>1, <2>2, AcquireOrder, AtOrder DEF LockOrder, InFlow
<1>5. CASE ~(ActiveId(web) = s /\ ActiveIs(web.store, "active"))
  <2>1. IsTask(Done) /\ Done.pc = "done"
    BY DEF Done, Suspended, IsTask
  <2> QED
    BY <1>1, <1>3, <1>5, <2>1, AtOrder DEF LockOrder, InFlow
<1> QED
  BY <1>4, <1>5

LEMMA DisconnectStep ==
    ASSUME LockOrder, NEW s \in SessionIds, DisconnectFires(s)
    PROVE  LockOrder'
<1> DEFINE t == Disconnector(s)
<1>1. Pc(web, t) = "sleep" /\ web' \in {Acquire(web, t), Return(web, t)} /\ now' = now
  BY DEF DisconnectFires
<1>2. t \in Tasks /\ Kind(t) = "disconnect" /\ t # NoTask
  BY TaskFacts
<1> HIDE DEF t
<1>3. Out(now, web, t)
  BY <1>1, <1>2, Resumes DEF LockOrder, InFlow
<1>4. Entitled(now, web.store, t) /\ Listed(web, t)
  BY <1>1, <1>2 DEF Entitled, LockKinds, LockOrder, Order
<1> QED
  BY <1>1, <1>3, <1>4, AcquireOrder, ReturnOrder DEF LockOrder

LEMMA TakeLockStep ==
    ASSUME LockOrder, NEW t \in Tasks, TakeLock(t)
    PROVE  LockOrder'
<1>1. Pc(web, t) = "lock" /\ Head(web.flow) = t /\ web' = Locked(web, t) /\ now' = now
  BY DEF TakeLock
<1>2. Holding(now, web, t) /\ Listed(web, t)
  BY <1>1, Resumes DEF LockOrder, InFlow
<1> QED
  BY <1>1, <1>2, LockedOrder DEF LockOrder

LEMMA WatchStep == ASSUME LockOrder, WatchEvent PROVE LockOrder'
<1>1. Pc(web, Watch) = "idle" /\ web' = HandleBoardState(web, Head(events)) /\ now' = now
  BY DEF WatchEvent
<1> QED
  BY <1>1, HandleBoardStateOrder DEF LockOrder

LEMMA WatchIsOut == ASSUME LockOrder PROVE Out(now, web, Watch)
<1>1. ~Contains(web.flow, Watch)
  BY TaskFacts DEF LockOrder, Order, Entitled, LockKinds
<1>2. Pc(web, Watch) \notin InFlow /\ Known(web, Watch)
  BY <1>1, TaskFacts DEF LockOrder, Order, Known
<1> QED
  BY <1>2, Resumes, TaskFacts DEF LockOrder

LEMMA AnsweredStep ==
    ASSUME LockOrder, NEW t \in Tasks, Answered(t)
    PROVE  LockOrder'
<1> DEFINE s == web.tasks[t].ses
           pc == web.tasks[t].pc
           ok == web.tasks[t].call = "ok"
           seen == [web EXCEPT !.fpga = web.tasks[t].ans]
<1>1. /\ now' = now /\ Pc(web, t) = pc /\ pc \in Calling
      /\ web' = CASE pc = "pl" /\ ok    -> ProgramPS(web, t, s)
                  [] pc = "ps" /\ ok    -> Programmed(web, t, s)
                  [] pc \in {"pl", "ps"} /\ ~ok -> StartError(web, t, s)
                  [] pc = "failreset"   -> TryStartNext(IF ok THEN seen ELSE web, t)
                  [] pc = "reset"       -> Ended(web, t)
                  [] pc = "reservedreset" -> ProblemEnded(web)
  BY DEF Answered, Pc
<1> HIDE DEF s, ok, seen, pc
<1>2. ASSUME pc # "reset" PROVE Out(now, web, t)
  BY <1>1, <1>2, Resumes DEF LockOrder, Calling, InFlow
<1>3. CASE pc = "pl"
  <2>1. web' = IF ok THEN ProgramPS(web, t, s) ELSE StartError(web, t, s)
    BY <1>1, <1>3
  <2> QED
    BY <1>1, <1>2, <1>3, <2>1, ProgramPSOrder, StartErrorOrder DEF LockOrder
<1>4. CASE pc = "ps"
  <2>1. web' = IF ok THEN Programmed(web, t, s) ELSE StartError(web, t, s)
    BY <1>1, <1>4
  <2> QED
    BY <1>1, <1>2, <1>4, <2>1, ProgrammedOrder, StartErrorOrder DEF LockOrder
<1>5. CASE pc = "failreset"
  <2>1. web' = TryStartNext(IF ok THEN seen ELSE web, t)
    BY <1>1, <1>5
  <2>2. /\ IsWeb(seen) /\ seen.store = web.store /\ seen.flow = web.flow
        /\ seen.disc = web.disc /\ seen.tasks = web.tasks
    BY DEF LockOrder, Order, IsWeb, seen
  <2>3. Out(now, seen, t)
    BY <1>2, <1>5, <2>2, SameOut
  <2> QED
    BY <1>1, <1>2, <1>5, <2>1, <2>3, TryStartNextOrder DEF LockOrder
<1>6. CASE pc = "reset"
  <2>1. web' = Ended(web, t)
    BY <1>1, <1>6
  <2>2. Holding(now, web, t)
    BY <1>1, <1>6, Resumes DEF LockOrder, InFlow
  <2> QED
    BY <1>1, <2>1, <2>2, EndedOrder DEF LockOrder
<1>7. CASE pc = "reservedreset"
  <2>1. web' = ProblemEnded(web)
    BY <1>1, <1>7
  <2> QED
    BY <1>1, <2>1, WatchIsOut, ProblemEndedOrder DEF LockOrder
<1> QED
  BY <1>1, <1>3, <1>4, <1>5, <1>6, <1>7 DEF Calling

LEMMA RuntimeUpStep ==
    ASSUME LockOrder, NEW t \in Tasks, RuntimeUp(t)
    PROVE  LockOrder'
<1> DEFINE s == web.tasks[t].ses
           v == [web EXCEPT !.runtime = s]
<1>1. Pc(web, t) = "rt" /\ web' = Started(v, t, s) /\ now' = now
  BY DEF RuntimeUp
<1> HIDE DEF s
<1>2. IsWeb(v) /\ v.store = web.store /\ v.flow = web.flow /\ v.disc = web.disc /\ v.tasks = web.tasks
  BY DEF LockOrder, Order, IsWeb
<1> HIDE DEF v
<1>3. Out(now, web, t)
  BY <1>1, Resumes DEF LockOrder, InFlow
<1>4. Out(now, v, t)
  BY <1>2, <1>3, SameOut
<1> QED
  BY <1>1, <1>4, StartedOrder DEF LockOrder

LEMMA RuntimeFailsStep ==
    ASSUME LockOrder, NEW t \in Tasks, RuntimeFails(t)
    PROVE  LockOrder'
<1>1. Pc(web, t) = "rt" /\ web' = StartError(web, t, web.tasks[t].ses) /\ now' = now
  BY DEF RuntimeFails
<1>2. Out(now, web, t)
  BY <1>1, Resumes DEF LockOrder, InFlow
<1> QED
  BY <1>1, <1>2, StartErrorOrder DEF LockOrder

LEMMA RuntimeDownStep ==
    ASSUME LockOrder, NEW t \in Tasks, RuntimeDown(t)
    PROVE  LockOrder'
<1> DEFINE s == web.tasks[t].ses
           pc == web.tasks[t].pc
<1>1. /\ now' = now /\ Pc(web, t) = pc /\ pc \in Stopping
      /\ web' = CASE pc = "failstop"     -> StartFailed(web, t, s)
                  [] pc = "latestop"     -> Return(web, t)
                  [] pc = "stop"         -> Send(web, t, "reset", s)
                  [] pc = "problemstop"  -> ProblemStopped(web, s, FALSE)
                  [] pc = "reservedstop" -> ProblemStopped(web, s, TRUE)
  BY DEF RuntimeDown, Pc
<1> HIDE DEF s, pc
<1>2. ASSUME pc # "stop" PROVE Out(now, web, t)
  BY <1>1, <1>2, Resumes DEF LockOrder, Stopping, InFlow
<1>3. CASE pc = "failstop"
  BY <1>1, <1>2, <1>3, StartFailedOrder DEF LockOrder
<1>4. CASE pc = "latestop"
  BY <1>1, <1>2, <1>4, ReturnOrder DEF LockOrder
<1>5. CASE pc = "stop"
  <2>1. web' = Send(web, t, "reset", s)
    BY <1>1, <1>5
  <2>2. Holding(now, web, t) /\ Listed(web, t)
    BY <1>1, <1>5, Resumes DEF LockOrder, InFlow
  <2> QED
    BY <1>1, <2>1, <2>2, SendOrder DEF LockOrder, InFlow
<1>6. CASE pc \in {"problemstop", "reservedstop"}
  BY <1>1, <1>6, WatchIsOut, ProblemStoppedOrder DEF LockOrder
<1> QED
  BY <1>1, <1>3, <1>4, <1>5, <1>6 DEF Stopping

-----------------------------------------------------------------------------
(* The environment changes requests, and what tasks are told of them *)

\* Tasks are told something, at the points where they are.
LEMMA ToldOrder ==
    ASSUME NEW n, NEW w, Order(n, w, NoTask), NEW v, IsWeb(v),
           v.store = w.store, v.flow = w.flow, v.disc = w.disc,
           v.tasks = [t \in Tasks |-> v.tasks[t]],
           \A t \in Tasks : IsTask(v.tasks[t]) /\ Pc(v, t) = Pc(w, t)
    PROVE  Order(n, v, NoTask)
<1>1. \A i \in 2..Len(w.flow) : w.flow[i] \in Tasks
  BY DEF Order
<1> QED
  BY <1>1 DEF Order, Listed, Tame, Known

LEMMA AnswerOrder ==
    ASSUME NEW n, NEW w, Order(n, w, NoTask), NEW i, NEW call, NEW ans
    PROVE  Order(n, Answer(w, i, call, ans), NoTask)
<1> DEFINE t == w.calls[i].by
           c == RemoveAt(w.calls, i)
           l == [w EXCEPT !.calls = c]
           d == [l.tasks EXCEPT ![t].call = call]
           u == [l EXCEPT !.tasks = d]
           e == [u.tasks EXCEPT ![t].ans = ans]
           v == [u EXCEPT !.tasks = e]
<1>1. Answer(w, i, call, ans) = IF t = NoTask THEN l
                                ELSE [l EXCEPT !.tasks[t].call = call, !.tasks[t].ans = ans]
  BY DEF Answer
<1> HIDE DEF c, t
<1>2. IsWeb(l) /\ l.store = w.store /\ l.flow = w.flow /\ l.disc = w.disc /\ l.tasks = w.tasks
  BY DEF Order, IsWeb
<1> HIDE DEF l
<1>3. Order(n, l, NoTask)
  BY <1>2, SameOrder
<1>4. Answer(w, i, call, ans) \in {l, v}
  <2>1. [l EXCEPT !.tasks[t].call = call] = u
    OBVIOUS
  <2>2. [u EXCEPT !.tasks[t].ans = ans] = v
    <3> HIDE DEF u
    <3> QED
      OBVIOUS
  <2>3. [l EXCEPT !.tasks[t].call = call, !.tasks[t].ans = ans]
          = [[l EXCEPT !.tasks[t].call = call] EXCEPT !.tasks[t].ans = ans]
    OBVIOUS
  <2> HIDE DEF u, v
  <2> QED
    BY <1>1, <2>1, <2>2, <2>3
<1>5. /\ d = [x \in Tasks |-> d[x]]
      /\ \A x \in Tasks : IsTask(d[x]) /\ d[x].pc = l.tasks[x].pc
  <2>1. \A x \in Tasks : d[x] = IF x = t THEN [l.tasks[x] EXCEPT !.call = call] ELSE l.tasks[x]
    BY <1>3 DEF Order
  <2>2. d = [x \in Tasks |-> d[x]]
    BY <1>3 DEF Order
  <2> HIDE DEF d
  <2>3. \A x \in Tasks : IsTask(l.tasks[x])
    BY <1>3 DEF Order
  <2> QED
    BY <2>1, <2>2, <2>3 DEF IsTask
<1> HIDE DEF d
<1>6. IsWeb(u) /\ u.store = l.store /\ u.flow = l.flow /\ u.disc = l.disc /\ u.tasks = d
  BY <1>2 DEF IsWeb
<1> HIDE DEF u
<1>7. Order(n, u, NoTask)
  BY <1>3, <1>5, <1>6, ToldOrder DEF Pc
<1>8. /\ e = [x \in Tasks |-> e[x]]
      /\ \A x \in Tasks : IsTask(e[x]) /\ e[x].pc = u.tasks[x].pc
  <2>1. \A x \in Tasks : e[x] = IF x = t THEN [u.tasks[x] EXCEPT !.ans = ans] ELSE u.tasks[x]
    BY <1>7 DEF Order
  <2>2. e = [x \in Tasks |-> e[x]]
    BY <1>7 DEF Order
  <2> HIDE DEF e
  <2>3. \A x \in Tasks : IsTask(u.tasks[x])
    BY <1>7 DEF Order
  <2> QED
    BY <2>1, <2>2, <2>3 DEF IsTask
<1> HIDE DEF e
<1>9. IsWeb(v) /\ v.store = u.store /\ v.flow = u.flow /\ v.disc = u.disc /\ v.tasks = e
  BY <1>6 DEF IsWeb
<1> HIDE DEF v
<1>10. Order(n, v, NoTask)
  BY <1>7, <1>8, <1>9, ToldOrder DEF Pc
<1> QED
  BY <1>3, <1>4, <1>10

\* Steps of the agent that leave the web process, or its tasks, as they are.
LEMMA CallsOrder ==
    ASSUME LockOrder, NEW c, web' = [web EXCEPT !.calls = c], now' = now
    PROVE  LockOrder'
<1> DEFINE v == [web EXCEPT !.calls = c]
<1>1. IsWeb(v) /\ v.store = web.store /\ v.flow = web.flow /\ v.disc = web.disc /\ v.tasks = web.tasks
  BY DEF LockOrder, Order, IsWeb
<1> HIDE DEF v
<1>2. Order(now, v, NoTask)
  BY <1>1, SameOrder DEF LockOrder
<1> QED
  BY <1>2 DEF LockOrder, v

LEMMA AgentStep ==
    ASSUME LockOrder,
           \/ \E i \in 1..Len(web.calls) : AgentReceives(i)
           \/ AgentContinues \/ AgentSucceeds \/ AgentFails
    PROVE  LockOrder'
<1>1. ASSUME NEW i, NEW stage, web' = [web EXCEPT !.calls[i].stage = stage], now' = now
      PROVE  LockOrder'
  <2> DEFINE c == [web.calls EXCEPT ![i].stage = stage]
  <2>1. web' = [web EXCEPT !.calls = c]
    BY <1>1
  <2> HIDE DEF c
  <2> QED
    BY <1>1, <2>1, CallsOrder
<1>2. ASSUME NEW i, NEW call, NEW ans, web' = Answer(web, i, call, ans), now' = now
      PROVE  LockOrder'
  BY <1>2, AnswerOrder DEF LockOrder
<1>3. ASSUME NEW i \in 1..Len(web.calls), AgentReceives(i) PROVE LockOrder'
  <2>1. now' = now
    BY <1>3 DEF AgentReceives
  <2>2. CASE web' = Answer(web, i, "error", NoView)
    BY <1>2, <2>1, <2>2
  <2>3. CASE web' = [web EXCEPT !.calls[i].stage = IF i = 1 THEN "running" ELSE "admitted"]
    <3> DEFINE stage == IF i = 1 THEN "running" ELSE "admitted"
    <3>1. web' = [web EXCEPT !.calls[i].stage = stage]
      BY <2>3
    <3> HIDE DEF stage
    <3> QED
      BY <1>1, <2>1, <3>1
  <2> QED
    BY <1>3, <2>2, <2>3 DEF AgentReceives
<1>4. ASSUME AgentContinues PROVE LockOrder'
  <2>1. now' = now
    BY <1>4 DEF AgentContinues
  <2>2. CASE web' = Answer(web, 1, "error", NoView)
    BY <1>2, <2>1, <2>2
  <2>3. CASE web' = [web EXCEPT !.calls[1].stage = "running"]
    BY <1>1, <2>1, <2>3
  <2> QED
    BY <1>4, <2>2, <2>3 DEF AgentContinues
<1>5. ASSUME AgentSucceeds PROVE LockOrder'
  <2>1. now' = now /\ \E ans : web' = Answer(web, 1, "ok", ans)
    BY <1>5 DEF AgentSucceeds
  <2> QED
    BY <1>2, <2>1
<1>6. ASSUME AgentFails PROVE LockOrder'
  BY <1>2, <1>6 DEF AgentFails
<1> QED
  BY <1>3, <1>4, <1>5, <1>6

LEMMA ZombieStep == ASSUME LockOrder, NEW thread, ThreadEnds(thread) PROVE LockOrder'
<1> DEFINE z == web.zombies \ {thread}
           v == [web EXCEPT !.zombies = z]
<1>1. web' = v /\ now' = now
  BY DEF ThreadEnds
<1> HIDE DEF z
<1>2. IsWeb(v) /\ v.store = web.store /\ v.flow = web.flow /\ v.disc = web.disc /\ v.tasks = web.tasks
  BY DEF LockOrder, Order, IsWeb
<1> HIDE DEF v
<1>3. Order(now, v, NoTask)
  BY <1>2, SameOrder DEF LockOrder
<1> QED
  BY <1>1, <1>3 DEF LockOrder

\* Everybody who waits for the agent is told that it is gone.
LEMMA AgentStopsStep == ASSUME LockOrder, AgentStops PROVE LockOrder'
<1> DEFINE d == [t \in Tasks |-> IF web.tasks[t].call = "out" THEN [web.tasks[t] EXCEPT !.call = "error"]
                                 ELSE web.tasks[t]]
           u == [web EXCEPT !.calls = << >>]
           v == [u EXCEPT !.tasks = d]
<1>1. web' = v /\ now' = now
  BY DEF AgentStops
<1>2. \A t \in Tasks : IsTask(d[t]) /\ d[t].pc = web.tasks[t].pc
  <2> SUFFICES ASSUME NEW t \in Tasks PROVE IsTask(d[t]) /\ d[t].pc = web.tasks[t].pc
    OBVIOUS
  <2>1. IsTask(web.tasks[t])
    BY DEF LockOrder, Order
  <2> QED
    BY <2>1 DEF IsTask
<1>3. d = [t \in Tasks |-> d[t]]
  OBVIOUS
<1> HIDE DEF d
<1>4. IsWeb(u) /\ u.store = web.store /\ u.flow = web.flow /\ u.disc = web.disc /\ u.tasks = web.tasks
  BY DEF LockOrder, Order, IsWeb
<1> HIDE DEF u
<1>5. IsWeb(v) /\ v.store = web.store /\ v.flow = web.flow /\ v.disc = web.disc /\ v.tasks = d
  BY <1>4 DEF IsWeb
<1> HIDE DEF v
<1>6. Order(now, v, NoTask)
  BY <1>2, <1>3, <1>5, ToldOrder DEF LockOrder, Pc
<1> QED
  BY <1>1, <1>6 DEF LockOrder

LEMMA RestartStep == ASSUME LockOrder, WebRestarts PROVE LockOrder'
<1> DEFINE m == Forgotten(web.store)
           s == StartedManager(m, ViewOf(agent))
           c == [i \in DOMAIN web.calls |-> [web.calls[i] EXCEPT !.by = NoTask]]
           z == web.zombies \cup UNION {Thread(web.tasks[t]) : t \in Tasks}
           u == [s EXCEPT !.calls = c]
           v == [u EXCEPT !.zombies = z]
<1>1. web' = [s EXCEPT !.calls = c, !.zombies = z] /\ now' = now
  BY DEF WebRestarts
<1>2. StoreOK(m)
  BY ForgottenOK DEF LockOrder, Order
<1> HIDE DEF m, c, z
<1>3. IsWeb(s) /\ s.store = m /\ s.flow = << >> /\ s.tasks = [t \in Tasks |-> Rest(t)]
  BY DEF IsWeb, StartedManager
<1> HIDE DEF s
<1>4. web' = v
  BY <1>1
<1>5. IsWeb(u) /\ u.store = s.store /\ u.flow = s.flow /\ u.tasks = s.tasks
  BY <1>3 DEF IsWeb
<1> HIDE DEF u
<1>6. IsWeb(v) /\ v.store = u.store /\ v.flow = u.flow /\ v.tasks = u.tasks
  BY <1>5 DEF IsWeb
<1> HIDE DEF v
<1>7. Order(now, v, NoTask)
  BY <1>2, <1>3, <1>5, <1>6, FreshOrder
<1> QED
  BY <1>1, <1>4, <1>7 DEF LockOrder

LEMMA LockStep == LockOrder /\ [Next]_vars => LockOrder'
<1> SUFFICES ASSUME LockOrder, [Next]_vars PROVE LockOrder'
  OBVIOUS
<1>1. ASSUME web' = web, now' = now PROVE LockOrder'
  BY <1>1 DEF LockOrder
<1>2. CASE UserActions
  BY <1>2, CreateStep, CancelStep, EndStep, OpenStep, CloseStep DEF UserActions
<1>3. CASE Tick
  BY <1>3, TickStep
<1>4. CASE Timers
  BY <1>4, ExpiryStep, DisconnectStep DEF Timers
<1>5. CASE WatchEvent
  BY <1>5, WatchStep
<1>6. CASE \E t \in Tasks : Replies(t)
  BY <1>6, TakeLockStep, AnsweredStep, RuntimeUpStep, RuntimeDownStep DEF Replies
<1>7. CASE \E t \in Tasks : RuntimeFails(t)
  BY <1>7, RuntimeFailsStep
<1>8. CASE \E s \in SessionIds : ZombieUp(s) \/ ZombieDown(s)
  BY <1>8, ZombieStep DEF ZombieUp, ZombieDown
<1>9. CASE AgentServes \/ AgentFails
  BY <1>9, AgentStep DEF AgentServes
<1>10. CASE AgentReports
  BY <1>1, <1>10 DEF AgentReports
<1>11. CASE Environment
  <2>1. CASE AgentStops
    BY <2>1, AgentStopsStep
  <2>2. CASE WebRestarts
    BY <2>2, RestartStep
  <2>3. CASE AgentBoots \/ CommunicationLost \/ CommunicationBack \/ Overheats \/ CoolsDown
             \/ Reserved \/ Freed
    BY <1>1, <2>3 DEF AgentBoots, CommunicationLost, CommunicationBack, Overheats, CoolsDown,
                      Reserved, Freed
  <2> QED
    BY <1>11, <2>1, <2>2, <2>3 DEF Environment
<1>12. CASE UNCHANGED vars
  BY <1>1, <1>12 DEF vars
<1> QED
  BY <1>2, <1>3, <1>4, <1>5, <1>6, <1>7, <1>8, <1>9, <1>10, <1>11, <1>12 DEF Next

\* The inductive invariant of the lock.
THEOREM LockInvariant == Spec => []LockOrder
BY LockInit, LockStep, PTL DEF Spec

\* The flow lock is held and awaited by tasks that are there to release it
\* (_flow_lock), whatever is cancelled, ended, restarted or goes wrong.
THEOREM LockAlwaysLive == Spec => []LockIsLive
<1>1. LockOrder => LockIsLive
  <2> SUFFICES ASSUME LockOrder PROVE LockIsLive
    OBVIOUS
  <2>1. \A i \in 2..Len(web.flow) : Pc(web, web.flow[i]) = "lock"
    <3> SUFFICES ASSUME NEW i \in 2..Len(web.flow) PROVE Pc(web, web.flow[i]) = "lock"
      OBVIOUS
    <3>1. web.flow[i] \in Tasks
      BY DEF LockOrder, Order
    <3> QED
      BY <3>1, TaskFacts DEF LockOrder, Order
  <2> QED
    BY <2>1, TaskFacts DEF LockOrder, Order, LockIsLive, Once
<1> QED
  BY <1>1, LockInvariant, PTL

\* The store under the board manager keeps the order its methods rely on: the
\* queue holds exactly the waiting sessions, once each, and the session on the
\* board is starting, active or ending.
THEOREM StoreAlwaysOK == Spec => []StoreOK(web.store)
<1>1. LockOrder => StoreOK(web.store)
  BY DEF LockOrder, Order
<1> QED
  BY <1>1, LockInvariant, PTL

-----------------------------------------------------------------------------
(***************************************************************************)
(* The board is never left to a session nobody is responsible for, for any *)
(* number of users and sessions: a session that starts has a task that is  *)
(* still at its start, one that ends has a task that will finish it, and   *)
(* one that is active and has a deadline has a timer for it.               *)
(*                                                                         *)
(* Starts and ends: while a task runs, the others serve the owner          *)
(* (Served), or the task is at the start of the owner itself (AtStart), or *)
(* it is about to end whatever is on the board (AtEnd).  In each of them   *)
(* it may suspend only at a point that serves the owner, or after the      *)
(* owner is gone or active.                                                *)
(*                                                                         *)
(* Timers: a timer is a task named by its deadline, so deadlines have to   *)
(* be bounded.  The clock passes MaxTime only for a timer that sleeps, and *)
(* a deadline is at most one window after the clock; what stops the two    *)
(* from driving each other on is that every deadline is set for the sake   *)
(* of the first in the queue, and a session is first but once (Chances).   *)
(***************************************************************************)

Starters == {"pl", "ps", "rt", "failstop"}
Enders == InFlow \cup {"problemstop", "reservedstop", "reservedreset"}

Starts(w, t) == Pc(w, t) \in Starters /\ w.tasks[t].ses = ActiveId(w)

StartServed(w, me) ==
    ActiveIs(w.store, "starting") => \E t \in Tasks : t # me /\ Starts(w, t)
EndServed(w, me) ==
    ActiveIs(w.store, "ending") => \E t \in Tasks : t # me /\ Pc(w, t) \in Enders

Served(w, me) == StartServed(w, me) /\ EndServed(w, me)
AtStart(w, me, s) == (ActiveId(w) = s \/ StartServed(w, me)) /\ EndServed(w, me)
AtEnd(w, me) == StartServed(w, me)

\* The board is free, or its session is active: nobody owes it anything.
Settled(m) == m.active = NoSession \/ ActiveIs(m, "active")

LEMMA SettledServed ==
    ASSUME NEW w, Settled(w.store)
    PROVE  \A me : Served(w, me) /\ AtEnd(w, me)
BY DEF Settled, ActiveIs, Served, AtEnd, StartServed, EndServed

LEMMA ServedFacts ==
    ASSUME NEW w, NEW me, Served(w, me)
    PROVE  AtEnd(w, me) /\ \A s : AtStart(w, me, s)
BY DEF Served, AtStart, AtEnd

\* Between two steps all tasks count.
LEMMA ResumesServed ==
    ASSUME NEW w, Served(w, NoTask), NEW t \in Tasks
    PROVE  /\ Pc(w, t) \notin Starters \cup Enders => Served(w, t)
           /\ Pc(w, t) \in Starters => AtStart(w, t, w.tasks[t].ses)
           /\ Pc(w, t) \in Enders => AtEnd(w, t)
<1>1. Starters \cap Enders = {}
  BY DEF Starters, Enders, InFlow
<1> QED
  BY <1>1 DEF Served, AtStart, AtEnd, StartServed, EndServed, Starts

\* The owner and the tasks are the same.
LEMMA SameServed ==
    ASSUME NEW w, NEW v, SameOwner(w.store, v.store),
           \A t \in Tasks : Pc(v, t) = Pc(w, t) /\ v.tasks[t].ses = w.tasks[t].ses
    PROVE  \A me : /\ Served(w, me) => Served(v, me)
                   /\ AtEnd(w, me) => AtEnd(v, me)
                   /\ \A s : AtStart(w, me, s) => AtStart(v, me, s)
<1>1. /\ ActiveId(v) = ActiveId(w)
      /\ ActiveIs(v.store, "starting") <=> ActiveIs(w.store, "starting")
      /\ ActiveIs(v.store, "ending") <=> ActiveIs(w.store, "ending")
  BY DEF SameOwner, ActiveIs, ActiveId
<1>2. \A t \in Tasks : Starts(v, t) <=> Starts(w, t)
  BY <1>1 DEF Starts
<1> QED
  BY <1>1, <1>2 DEF Served, AtEnd, AtStart, StartServed, EndServed

\* The running task suspends.
LEMMA SuspendServed ==
    ASSUME NEW w, w.tasks = [t \in Tasks |-> w.tasks[t]], NEW me \in Tasks, NEW k,
           NEW v, v.store = w.store, v.tasks = Put(w.tasks, me, k),
           \/ Served(w, me)
           \/ AtStart(w, me, k.ses) /\ k.pc \in Starters
           \/ AtEnd(w, me) /\ k.pc \in Enders
    PROVE  Served(v, NoTask)
<1>1. \A t \in Tasks : v.tasks[t] = IF t = me THEN k ELSE w.tasks[t]
  BY DEF Put
<1>2. ActiveId(v) = ActiveId(w)
  BY DEF ActiveId
<1>3. \A t \in Tasks : t # me => (Starts(v, t) <=> Starts(w, t)) /\ Pc(v, t) = Pc(w, t)
  BY <1>1, <1>2 DEF Starts, Pc
<1>4. Pc(v, me) = k.pc /\ v.tasks[me].ses = k.ses /\ me # NoTask
  BY <1>1, TaskFacts DEF Pc
<1>5. StartServed(w, me) => StartServed(v, NoTask)
  BY <1>3, TaskFacts DEF StartServed
<1>6. EndServed(w, me) => EndServed(v, NoTask)
  BY <1>3, TaskFacts DEF EndServed
<1>7. k.pc \in Enders => EndServed(v, NoTask)
  BY <1>4 DEF EndServed
<1>8. k.pc \in Starters /\ ActiveId(w) = k.ses => StartServed(v, NoTask)
  BY <1>2, <1>4 DEF StartServed, Starts
<1> QED
  BY <1>5, <1>6, <1>7, <1>8 DEF Served, AtStart, AtEnd

\* What the proofs below need of a running task.
Runs(w, t) ==
    /\ IsWeb(w) /\ t \in Tasks /\ StoreOK(w.store)
    /\ w.tasks = [x \in Tasks |-> w.tasks[x]]

LEMMA OrderRuns ==
    ASSUME NEW n, NEW w, NEW me, Order(n, w, me), NEW t \in Tasks PROVE Runs(w, t)
BY DEF Order, Runs

\* Another store, lock or timer makes no difference to who runs.
LEMMA StillRuns ==
    ASSUME NEW w, NEW t, Runs(w, t), NEW v, IsWeb(v), StoreOK(v.store), v.tasks = w.tasks
    PROVE  Runs(v, t)
BY DEF Runs

LEMMA AtServed ==
    ASSUME NEW w, NEW t, Runs(w, t), NEW k,
           \/ Served(w, t)
           \/ AtStart(w, t, k.ses) /\ k.pc \in Starters
           \/ AtEnd(w, t) /\ k.pc \in Enders
    PROVE  Served(At(w, t, k), NoTask)
<1> DEFINE v == At(w, t, k)
<1>1. v.store = w.store /\ v.tasks = Put(w.tasks, t, k)
  BY AtFields DEF Runs
<1> HIDE DEF v
<1>2. Served(v, NoTask)
  BY <1>1, SuspendServed DEF Runs
<1> QED
  BY <1>2 DEF v

LEMMA SendServed ==
    ASSUME NEW w, NEW t, Runs(w, t), NEW pc, NEW s,
           \/ Served(w, t)
           \/ AtStart(w, t, s) /\ pc \in Starters
           \/ AtEnd(w, t) /\ pc \in Enders
    PROVE  Served(Send(w, t, pc, s), NoTask)
<1> DEFINE c == Append(w.calls, [op |-> Op(pc), ses |-> s, by |-> t, stage |-> "sent"])
           u == [w EXCEPT !.calls = c]
           k == [Suspended(pc, s) EXCEPT !.call = "out"]
           v == At(u, t, k)
<1>1. Send(w, t, pc, s) = v
  BY DEF Send
<1>2. k.pc = pc /\ k.ses = s
  BY DEF Suspended
<1> HIDE DEF c, k
<1>3. IsWeb(u) /\ u.store = w.store /\ u.tasks = w.tasks
  BY DEF Runs, IsWeb
<1> HIDE DEF u
<1>4. v.store = w.store /\ v.tasks = Put(w.tasks, t, k)
  BY <1>3, AtFields
<1> HIDE DEF v
<1>5. Served(v, NoTask)
  BY <1>2, <1>4, SuspendServed DEF Runs
<1> QED
  BY <1>1, <1>5

LEMMA StopServed ==
    ASSUME NEW w, NEW t, Runs(w, t), NEW pc, NEW s, NEW r,
           \/ Served(w, t)
           \/ AtStart(w, t, s) /\ pc \in Starters
           \/ AtEnd(w, t) /\ pc \in Enders
    PROVE  Served(Stops(w, t, pc, s, r), NoTask)
<1> DEFINE u == [w EXCEPT !.runtime = NoSession]
           k == [Suspended(pc, s) EXCEPT !.run = r]
           v == At(u, t, k)
<1>1. Stops(w, t, pc, s, r) = v
  BY DEF Stops
<1>2. k.pc = pc /\ k.ses = s
  BY DEF Suspended
<1> HIDE DEF k
<1>3. IsWeb(u) /\ u.store = w.store /\ u.tasks = w.tasks
  BY DEF Runs, IsWeb
<1> HIDE DEF u
<1>4. v.store = w.store /\ v.tasks = Put(w.tasks, t, k)
  BY <1>3, AtFields
<1> HIDE DEF v
<1>5. Served(v, NoTask)
  BY <1>2, <1>4, SuspendServed DEF Runs
<1> QED
  BY <1>1, <1>5

LEMMA ReturnServed ==
    ASSUME NEW w, NEW t, Runs(w, t), Served(w, t)
    PROVE  Served(Return(w, t), NoTask)
<1> DEFINE k == Rest(t)
           v == At(w, t, k)
           l == v.disc \ {Subject(t)}
           r == Return(w, t)
<1>1. r \in {[v EXCEPT !.expiry = NoTask], [v EXCEPT !.disc = l], v}
  BY DEF Return
<1> HIDE DEF r, k
<1>2. IsWeb(v) /\ v.store = w.store /\ v.tasks = Put(w.tasks, t, k)
  BY AtFields DEF Runs
<1> HIDE DEF v, l
<1>3. r.store = w.store /\ r.tasks = Put(w.tasks, t, k)
  BY <1>1, <1>2 DEF IsWeb
<1>4. Served(r, NoTask)
  BY <1>3, SuspendServed DEF Runs
<1> QED
  BY <1>4 DEF r

LEMMA PutRuns ==
    ASSUME NEW w, NEW t, Runs(w, t), NEW x, NEW k, NEW v, IsWeb(v), v.store = w.store,
           v.tasks = Put(w.tasks, x, k)
    PROVE  Runs(v, t)
BY DEF Runs, Put

LEMMA CancelRuns ==
    ASSUME NEW w, NEW t, Runs(w, t), NEW x
    PROVE  Runs(CancelTask(w, x), t) /\ CancelTask(w, x).store = w.store
BY CancelFields, PutRuns DEF Runs

LEMMA CancelExpiryRuns ==
    ASSUME NEW w, NEW t, Runs(w, t), NEW by
    PROVE  Runs(CancelExpiry(w, by), t) /\ CancelExpiry(w, by).store = w.store
<1> DEFINE v == [w EXCEPT !.expiry = NoTask]
<1>1. CancelExpiry(w, by) = IF w.expiry = NoTask \/ w.expiry = by THEN v ELSE CancelTask(v, w.expiry)
  BY DEF CancelExpiry
<1>2. IsWeb(v) /\ v.store = w.store /\ v.tasks = w.tasks
  BY DEF Runs, IsWeb
<1> HIDE DEF v
<1>3. Runs(v, t)
  BY <1>2 DEF Runs
<1> QED
  BY <1>1, <1>2, <1>3, CancelRuns

LEMMA ScheduleExpiryRuns ==
    ASSUME NEW w, NEW t, Runs(w, t), NEW by, NEW s
    PROVE  Runs(ScheduleExpiry(w, by, s), t) /\ ScheduleExpiry(w, by, s).store = w.store
<1> DEFINE due == w.store.ses[s].expires
           x == Expirer(s, due)
           c == CancelExpiry(w, by)
           k == Suspended("sleep", s)
           d == Put(c.tasks, x, k)
           u == [c EXCEPT !.expiry = x]
           v == [u EXCEPT !.tasks = d]
<1>1. ScheduleExpiry(w, by, s) =
        IF due = NoTime THEN c ELSE [c EXCEPT !.expiry = x, !.tasks[x] = k]
  BY DEF ScheduleExpiry
<1>2. Runs(c, t) /\ c.store = w.store
  BY CancelExpiryRuns
<1> HIDE DEF c, x, k, due
<1>3. [c EXCEPT !.expiry = x, !.tasks[x] = k] = v
  <2>1. [c EXCEPT !.expiry = x, !.tasks[x] = k] = [c EXCEPT !.expiry = x, !.tasks = d]
    BY <1>2 DEF Put, IsWeb, Runs
  <2> QED
    BY <2>1
<1> HIDE DEF d
<1>4. IsWeb(u) /\ u.store = c.store
  BY <1>2 DEF Runs, IsWeb
<1> HIDE DEF u
<1>5. IsWeb(v) /\ v.store = c.store /\ v.tasks = d
  BY <1>4 DEF IsWeb
<1> HIDE DEF v
<1>6. Runs(v, t)
  BY <1>2, <1>5, PutRuns DEF d
<1> QED
  BY <1>1, <1>2, <1>3, <1>5, <1>6

LEMMA CancelDisconnectRuns ==
    ASSUME NEW w, NEW t, Runs(w, t), NEW by, NEW s
    PROVE  Runs(CancelDisconnect(w, by, s), t) /\ CancelDisconnect(w, by, s).store = w.store
<1> DEFINE x == Disconnector(s)
           l == w.disc \ {s}
           v == [w EXCEPT !.disc = l]
<1>1. CancelDisconnect(w, by, s) = IF s \notin w.disc \/ x = by THEN v ELSE CancelTask(v, x)
  BY DEF CancelDisconnect
<1> HIDE DEF l, x
<1>2. IsWeb(v) /\ v.store = w.store /\ v.tasks = w.tasks
  BY DEF Runs, IsWeb
<1> HIDE DEF v
<1>3. Runs(v, t)
  BY <1>2 DEF Runs
<1> QED
  BY <1>1, <1>2, <1>3, CancelRuns

-----------------------------------------------------------------------------
(* Starts *)

LEMMA StoreRuns ==
    ASSUME NEW w, NEW t, Runs(w, t), NEW m, StoreOK(m)
    PROVE  LET v == [w EXCEPT !.store = m]
           IN  Runs(v, t) /\ v.store = m /\ v.tasks = w.tasks
<1> DEFINE v == [w EXCEPT !.store = m]
<1>1. IsWeb(v) /\ v.store = m /\ v.tasks = w.tasks
  BY DEF Runs, IsWeb
<1> HIDE DEF v
<1>2. Runs(v, t) /\ v.store = m /\ v.tasks = w.tasks
  BY <1>1, StillRuns
<1> QED
  BY <1>2 DEF v

LEMMA StartedServed ==
    ASSUME now \in Nat, NEW w, NEW t, NEW s, Runs(w, t), AtStart(w, t, s)
    PROVE  Served(Started(w, t, s), NoTask)
<1>1. CASE CanActivate(w.store, s)
  <2> DEFINE m == Activate(w.store, s, now)
             v == [w EXCEPT !.store = m]
             u == ScheduleExpiry(v, t, s)
  <2>1. StoreOK(m) /\ ActiveIs(m, "active")
    BY <1>1, ActivateOK DEF Runs
  <2>2. Started(w, t, s) = Return(u, t)
    BY <1>1 DEF Started
  <2> HIDE DEF m
  <2>3. Runs(v, t) /\ v.store = m
    BY <2>1, StoreRuns
  <2> HIDE DEF v
  <2>4. Runs(u, t) /\ u.store = m
    BY <2>3, ScheduleExpiryRuns
  <2> HIDE DEF u
  <2>5. Served(u, t)
    BY <2>1, <2>4, SettledServed DEF Settled
  <2> QED
    BY <2>2, <2>4, <2>5, ReturnServed
<1>2. CASE ~CanActivate(w.store, s)
  <2>1. Served(w, t)
    <3>1. ActiveId(w) = s => ~ActiveIs(w.store, "starting")
      BY <1>2 DEF CanActivate, IsActive, ActiveIs, ActiveId
    <3> QED
      BY <3>1 DEF AtStart, Served, StartServed
  <2>2. Started(w, t, s) = IF w.runtime = NoSession THEN Return(w, t)
                           ELSE Stops(w, t, "latestop", s, w.runtime)
    BY <1>2 DEF Started, Stops
  <2> QED
    BY <2>1, <2>2, ReturnServed, StopServed
<1> QED
  BY <1>1, <1>2

LEMMA ProgrammedServed ==
    ASSUME now \in Nat, NEW w, NEW t, NEW s, Runs(w, t), AtStart(w, t, s)
    PROVE  Served(Programmed(w, t, s), NoTask)
<1>1. Suspended("rt", s).pc \in Starters /\ Suspended("rt", s).ses = s
  BY DEF Suspended, Starters
<1>2. Served(At(w, t, Suspended("rt", s)), NoTask)
  BY <1>1, AtServed
<1> QED
  BY <1>2, StartedServed DEF Programmed

LEMMA ProgramPSServed ==
    ASSUME now \in Nat, NEW w, NEW t, NEW s, Runs(w, t), AtStart(w, t, s)
    PROVE  Served(ProgramPS(w, t, s), NoTask)
<1>1. Served(Send(w, t, "ps", s), NoTask)
  BY SendServed DEF Starters
<1> QED
  BY <1>1, ProgrammedServed DEF ProgramPS

LEMMA ProgramPLServed ==
    ASSUME now \in Nat, NEW w, NEW t, NEW s, Runs(w, t), AtStart(w, t, s)
    PROVE  Served(ProgramPL(w, t, s), NoTask)
<1>1. Served(Send(w, t, "pl", s), NoTask)
  BY SendServed DEF Starters
<1> QED
  BY <1>1, ProgramPSServed DEF ProgramPL

LEMMA TryStartNextServed ==
    ASSUME now \in Nat, NEW w, NEW t, Runs(w, t), Served(w, t)
    PROVE  Served(TryStartNext(w, t), NoTask)
<1>1. CASE MayStart(w) /\ CanBegin(w.store)
  <2> DEFINE m == BeginNext(w.store)
             v == [w EXCEPT !.store = m]
             s == Head(w.store.queue)
  <2>1. StoreOK(m) /\ m.active = s /\ ~ActiveIs(m, "ending")
    BY <1>1, BeginNextOK DEF Runs
  <2>2. TryStartNext(w, t) = ProgramPL(v, t, s)
    BY <1>1 DEF TryStartNext
  <2> HIDE DEF m, s
  <2>3. Runs(v, t) /\ v.store = m
    BY <2>1, StoreRuns
  <2> HIDE DEF v
  <2>4. AtStart(v, t, s)
    BY <2>1, <2>3 DEF AtStart, EndServed, ActiveId
  <2> QED
    BY <2>2, <2>3, <2>4, ProgramPLServed
<1>2. CASE ~(MayStart(w) /\ CanBegin(w.store))
  BY <1>2, ReturnServed DEF TryStartNext
<1> QED
  BY <1>1, <1>2

LEMMA StartFailedServed ==
    ASSUME NEW w, NEW t, NEW s, Runs(w, t), AtStart(w, t, s)
    PROVE  Served(StartFailed(w, t, s), NoTask)
<1> DEFINE m == IF CanActivate(w.store, s) THEN FailStart(w.store, s) ELSE w.store
           v == [w EXCEPT !.store = m]
<1>1. StoreOK(m)
  BY FailStartOK DEF Runs
<1>2. StartFailed(w, t, s) = Send(v, t, "failreset", s)
  BY DEF StartFailed
<1>3. Runs(v, t) /\ v.store = m /\ v.tasks = w.tasks
  <2> HIDE DEF m
  <2> QED
    BY <1>1, StoreRuns
<1> HIDE DEF v
<1>4. CASE CanActivate(w.store, s)
  <2>1. m.active = NoSession
    BY <1>4, FailStartOK DEF Runs
  <2> HIDE DEF m
  <2>2. Served(v, t)
    BY <1>3, <2>1, SettledServed DEF Settled
  <2> QED
    BY <1>2, <1>3, <2>2, SendServed
<1>5. CASE ~CanActivate(w.store, s)
  <2>1. m = w.store
    BY <1>5
  <2> HIDE DEF m
  <2>2. ActiveId(w) = s => ~ActiveIs(w.store, "starting")
    BY <1>5 DEF CanActivate, IsActive, ActiveIs, ActiveId
  <2>3. Served(w, t)
    BY <2>2 DEF AtStart, Served, StartServed
  <2>4. Served(v, t)
    BY <1>3, <2>1, <2>3, SameServed DEF SameOwner, Pc
  <2> QED
    BY <1>2, <1>3, <2>4, SendServed
<1> QED
  BY <1>4, <1>5

LEMMA StartErrorServed ==
    ASSUME NEW w, NEW t, NEW s, Runs(w, t), AtStart(w, t, s)
    PROVE  Served(StartError(w, t, s), NoTask)
<1>1. Served(Stops(w, t, "failstop", s, w.runtime), NoTask)
  BY StopServed DEF Starters
<1> QED
  BY <1>1, StartFailedServed DEF StartError, Stops

-----------------------------------------------------------------------------
(* Ends *)

\* An owner that has been told to end is not starting.
LEMMA EndingAtEnd ==
    ASSUME NEW w, NEW me, ActiveIs(w.store, "ending") PROVE AtEnd(w, me)
BY DEF ActiveIs, AtEnd, StartServed

LEMMA ReleaseRuns ==
    ASSUME NEW w, NEW t, Runs(w, t)
    PROVE  /\ Runs(Release(w), t)
           /\ Release(w).store = w.store /\ Release(w).tasks = w.tasks
<1> DEFINE q == Tail(w.flow)
           v == [w EXCEPT !.flow = q]
<1>1. Release(w) = v
  BY DEF Release
<1> HIDE DEF q
<1>2. IsWeb(v) /\ v.store = w.store /\ v.tasks = w.tasks
  BY DEF Runs, IsWeb
<1> HIDE DEF v
<1> QED
  BY <1>1, <1>2 DEF Runs

LEMMA EndUnderLockServed ==
    ASSUME NEW w, NEW t, NEW s, Runs(w, t), AtEnd(w, t)
    PROVE  Served(EndUnderLock(w, t, s), NoTask)
<1>1. Served(Send(w, t, "reset", s), NoTask)
  BY SendServed DEF Enders, InFlow
<1>2. Served(Stops(w, t, "stop", s, w.runtime), NoTask)
  BY StopServed DEF Enders, InFlow
<1> QED
  BY <1>1, <1>2 DEF EndUnderLock, Stops

LEMMA LockedServed ==
    ASSUME NEW w, NEW t, Runs(w, t), AtEnd(w, t), Kind(t) \in LockKinds
    PROVE  Served(Locked(w, t), NoTask)
<1>1. CASE Kind(t) = "end"
  BY <1>1, EndUnderLockServed DEF Locked
<1>2. CASE Kind(t) # "end" /\ ActiveId(w) = NoSession
  <2>1. Runs(Release(w), t) /\ Served(Release(w), t)
    BY <1>2, ReleaseRuns, SettledServed DEF Settled, ActiveId
  <2> QED
    BY <1>2, <2>1, ReturnServed DEF Locked
<1>3. CASE Kind(t) # "end" /\ ActiveId(w) # NoSession
  <2> DEFINE m == BeginActiveEnd(w.store, Reason(t))
             v == [w EXCEPT !.store = m]
  <2>1. Reason(t) \in SessionEndReason
    BY <1>3 DEF Reason, LockKinds, SessionEndReason, TimeLimit
  <2>2. StoreOK(m) /\ ActiveIs(m, "ending")
    BY <1>3, <2>1, BeginActiveEndOK DEF Runs, ActiveId
  <2>3. Locked(w, t) = EndUnderLock(v, t, ActiveId(w))
    BY <1>3 DEF Locked
  <2> HIDE DEF m
  <2>4. Runs(v, t) /\ v.store = m
    BY <2>2, StoreRuns
  <2> HIDE DEF v
  <2> QED
    BY <2>2, <2>3, <2>4, EndingAtEnd, EndUnderLockServed
<1> QED
  BY <1>1, <1>2, <1>3

LEMMA AcquireServed ==
    ASSUME NEW w, NEW t, Runs(w, t), AtEnd(w, t), Kind(t) \in LockKinds
    PROVE  Served(Acquire(w, t), NoTask)
<1> DEFINE q == Append(w.flow, t)
           v == [w EXCEPT !.flow = q]
           k == Suspended("lock", Subject(t))
<1>1. Acquire(w, t) = IF w.flow = << >> THEN Locked(v, t) ELSE At(v, t, k)
  BY DEF Acquire
<1>2. k.pc \in Enders
  BY DEF Suspended, Enders, InFlow
<1> HIDE DEF q, k
<1>3. IsWeb(v) /\ v.store = w.store /\ v.tasks = w.tasks
  BY DEF Runs, IsWeb
<1> HIDE DEF v
<1>4. Runs(v, t) /\ AtEnd(v, t)
  BY <1>3, SameServed DEF SameOwner, Pc, Runs
<1> QED
  BY <1>1, <1>2, <1>4, LockedServed, AtServed

LEMMA FinishRuns ==
    ASSUME NEW w, NEW t, Runs(w, t)
    PROVE  LET v == [w EXCEPT !.store = FinishActive(@)]
           IN  Runs(v, t) /\ v.store.active = NoSession
<1> DEFINE m == FinishActive(w.store)
<1>1. StoreOK(m) /\ m.active = NoSession
  BY FinishOK DEF Runs
<1> DEFINE v == [w EXCEPT !.store = m]
<1>2. [w EXCEPT !.store = FinishActive(@)] = v
  OBVIOUS
<1>3. Runs(v, t) /\ v.store = m
  <2> HIDE DEF m
  <2> QED
    BY <1>1, StoreRuns
<1> HIDE DEF m, v
<1> QED
  BY <1>1, <1>2, <1>3

LEMMA EndedServed ==
    ASSUME now \in Nat, NEW w, NEW t, Runs(w, t)
    PROVE  Served(Ended(w, t), NoTask)
<1> DEFINE a == ActiveId(w)
           f == [w EXCEPT !.store = FinishActive(@)]
           c == [f.counts EXCEPT ![a] = 0]
           h == [f EXCEPT !.counts = c]
           v == IF Kind(t) = "end" \/ a = NoSession THEN f ELSE CancelDisconnect(h, t, a)
<1>1. Ended(w, t) = TryStartNext(Release(v), t)
  BY DEF Ended
<1>2. Runs(f, t) /\ f.store.active = NoSession
  BY FinishRuns
<1> HIDE DEF a, f, c
<1>3. IsWeb(h) /\ h.store = f.store /\ h.tasks = f.tasks
  BY <1>2 DEF Runs, IsWeb
<1> HIDE DEF h
<1>4. Runs(h, t)
  BY <1>2, <1>3 DEF Runs
<1>5. Runs(v, t) /\ v.store.active = NoSession
  BY <1>2, <1>3, <1>4, CancelDisconnectRuns
<1> HIDE DEF v
<1>6. Runs(Release(v), t) /\ Served(Release(v), t)
  BY <1>5, ReleaseRuns, SettledServed DEF Settled
<1> QED
  BY <1>1, <1>6, TryStartNextServed

-----------------------------------------------------------------------------
(* Board problems *)

LEMMA ProblemEndedServed ==
    ASSUME NEW w, Runs(w, Watch) PROVE Served(ProblemEnded(w), NoTask)
<1> DEFINE v == [w EXCEPT !.store = FinishActive(@)]
<1>1. ProblemEnded(w) = Return(v, Watch)
  BY DEF ProblemEnded
<1>2. Runs(v, Watch) /\ v.store.active = NoSession
  BY FinishRuns
<1> HIDE DEF v
<1>3. Served(v, Watch)
  BY <1>2, SettledServed DEF Settled
<1> QED
  BY <1>1, <1>2, <1>3, ReturnServed

LEMMA ProblemStoppedServed ==
    ASSUME NEW w, Runs(w, Watch), AtEnd(w, Watch), NEW s, NEW reserved
    PROVE  Served(ProblemStopped(w, s, reserved), NoTask)
<1>1. Served(Send(w, Watch, "reservedreset", s), NoTask)
  BY SendServed DEF Enders
<1> QED
  BY <1>1, ProblemEndedServed DEF ProblemStopped

LEMMA BoardProblemServed ==
    ASSUME NEW w, Runs(w, Watch), NEW reason \in BoardProblem
    PROVE  Served(EndForBoardProblem(w, reason), NoTask)
<1> DEFINE s == ActiveId(w)
           c == CancelExpiry(w, Watch)
           m == BeginActiveEnd(c.store, reason)
           v == [c EXCEPT !.store = m]
           pc == IF reason = "reserved" THEN "reservedstop" ELSE "problemstop"
<1>1. EndForBoardProblem(w, reason) =
        IF s = NoSession THEN Return(c, Watch)
        ELSE IF w.runtime = NoSession THEN ProblemStopped(v, s, reason = "reserved")
        ELSE Stops(v, Watch, pc, s, w.runtime)
  BY DEF EndForBoardProblem, Stops
<1>2. Runs(c, Watch) /\ c.store = w.store
  BY CancelExpiryRuns
<1>3. pc \in Enders
  BY DEF Enders
<1> HIDE DEF c, pc
<1>4. CASE s = NoSession
  <2>1. Served(c, Watch)
    BY <1>2, <1>4, SettledServed DEF Settled, ActiveId
  <2> QED
    BY <1>1, <1>2, <1>4, <2>1, ReturnServed
<1>5. CASE s # NoSession
  <2>1. StoreOK(m) /\ ActiveIs(m, "ending")
    BY <1>2, <1>5, BeginActiveEndOK DEF Runs, ActiveId, SessionEndReason
  <2> HIDE DEF m
  <2>2. Runs(v, Watch) /\ v.store = m
    BY <1>2, <2>1, StoreRuns
  <2> HIDE DEF v
  <2>3. AtEnd(v, Watch)
    BY <2>1, <2>2, EndingAtEnd
  <2>4. Served(ProblemStopped(v, s, reason = "reserved"), NoTask)
    BY <2>2, <2>3, ProblemStoppedServed
  <2>5. Served(Stops(v, Watch, pc, s, w.runtime), NoTask)
    BY <1>3, <2>2, <2>3, StopServed
  <2> QED
    BY <1>1, <1>5, <2>4, <2>5
<1> QED
  BY <1>4, <1>5

LEMMA HandleBoardStateServed ==
    ASSUME now \in Nat, NEW w, Runs(w, Watch), Served(w, NoTask), Pc(w, Watch) = "idle", NEW view
    PROVE  Served(HandleBoardState(w, view), NoTask)
<1> DEFINE v == [w EXCEPT !.fpga = view]
<1>1. HandleBoardState(w, view) \in
        {EndForBoardProblem(v, r) : r \in BoardProblem} \cup {TryStartNext(v, Watch), v}
  BY DEF HandleBoardState, BoardProblem
<1>2. IsWeb(v) /\ v.store = w.store /\ v.tasks = w.tasks
  BY DEF Runs, IsWeb
<1> HIDE DEF v
<1>3. Runs(v, Watch) /\ Pc(v, Watch) = "idle"
  BY <1>2 DEF Runs, Pc
<1>4. Served(v, NoTask)
  BY <1>2, SameServed DEF SameOwner, Pc
<1>5. Served(v, Watch)
  BY <1>3, <1>4, ResumesServed, TaskFacts DEF Starters, Enders, InFlow
<1> QED
  BY <1>1, <1>3, <1>4, <1>5, BoardProblemServed, TryStartNextServed

-----------------------------------------------------------------------------
(* The steps *)

OwnerServed == LockOrder /\ Served(web, NoTask)

LEMMA RunsNow == ASSUME OwnerServed PROVE \A t \in Tasks : Runs(web, t)
BY OrderRuns DEF OwnerServed, LockOrder

\* An active session is the owner.
LEMMA ActiveSettled ==
    ASSUME NEW m, StoreOK(m), NEW s \in SessionIds, StatusOf(m, s) = "active"
    PROVE  Settled(m)
BY StoreFacts DEF StoreOK, OnBoard, Settled, ActiveIs

LEMMA CreateServed ==
    ASSUME OwnerServed, NEW u \in Users, NEW d \in Demos, CreateSession(u, d)
    PROVE  Served(web, NoTask)'
<1> DEFINE s == web.store.count + 1
           a == ActiveId(web)
           m == Create(web.store, u, d, now)
           v == [web EXCEPT !.store = m]
           limited == a # NoSession /\ v.store.ses[a].expires # web.store.ses[a].expires
           c == ScheduleExpiry(v, Creator(s), a)
           timed == IF limited THEN c ELSE v
<1>1. CanCreate(web.store, u) /\ web' = TryStartNext(timed, Creator(s))
  BY DEF CreateSession
<1>2. StoreOK(web.store) /\ StoreOK(m) /\ SameOwner(web.store, m)
  BY <1>1, CreateOK DEF OwnerServed, LockOrder, Order
<1>3. s \in SessionIds /\ StatusOf(web.store, s) = "unused"
  BY <1>1, <1>2, StoreFacts, BoundAssumption DEF StoreOK, CanCreate, SessionIds
<1> HIDE DEF m, s
<1>4. Creator(s) \in Tasks /\ Kind(Creator(s)) = "create" /\ Subject(Creator(s)) = s
      /\ Creator(s) # NoTask
  BY <1>3, TaskFacts
<1>5. Runs(v, Creator(s)) /\ v.store = m /\ v.tasks = web.tasks
  BY <1>2, <1>4, RunsNow, StoreRuns
<1> HIDE DEF v
<1>6. Served(v, Creator(s))
  <2>1. Pc(web, Creator(s)) = "done"
    BY <1>3, <1>4 DEF OwnerServed, LockOrder, Order, Tame, Known
  <2>2. Served(v, NoTask)
    BY <1>2, <1>5, SameServed DEF OwnerServed, Pc
  <2> QED
    BY <1>4, <1>5, <2>1, <2>2, ResumesServed DEF Pc, Starters, Enders, InFlow
<1>7. ASSUME limited PROVE Runs(c, Creator(s)) /\ Served(c, Creator(s))
  <2>1. Runs(c, Creator(s)) /\ c.store = m
    BY <1>5, ScheduleExpiryRuns
  <2>2. ActiveIs(m, "active")
    BY <1>2, <1>5, <1>7 DEF SameOwner, ActiveIs, ActiveId
  <2> QED
    BY <2>1, <2>2, SettledServed DEF Settled
<1>8. Runs(timed, Creator(s)) /\ Served(timed, Creator(s))
  BY <1>5, <1>6, <1>7
<1> HIDE DEF timed
<1> QED
  BY <1>1, <1>8, TryStartNextServed DEF OwnerServed, LockOrder

LEMMA CancelServed ==
    ASSUME OwnerServed, NEW u \in Users, NEW s \in SessionIds, CancelSession(u, s)
    PROVE  Served(web, NoTask)'
<1> DEFINE a == ActiveId(web)
           m == Cancel(web.store, s)
           v == [web EXCEPT !.store = m]
           lifted == a # NoSession /\ v.store.ses[a].expires # web.store.ses[a].expires
           c == ScheduleExpiry(v, Ender(s), a)
<1>1. CanCancel(web.store, u, s) /\ web' = (IF lifted THEN c ELSE v)
  BY DEF CancelSession
<1>2. StoreOK(m) /\ SameOwner(web.store, m)
  BY <1>1, CancelOK DEF OwnerServed, LockOrder, Order
<1> HIDE DEF m
<1>3. Runs(v, Watch) /\ v.store = m /\ v.tasks = web.tasks
  BY <1>2, TaskFacts, RunsNow, StoreRuns
<1> HIDE DEF v
<1>4. Served(v, NoTask)
  BY <1>2, <1>3, SameServed DEF OwnerServed, Pc
<1>5. ASSUME lifted PROVE Served(c, NoTask)
  <2>1. c.store = m
    BY <1>3, ScheduleExpiryRuns
  <2>2. ActiveIs(m, "active")
    BY <1>2, <1>3, <1>5 DEF SameOwner, ActiveIs, ActiveId
  <2> QED
    BY <2>1, <2>2, SettledServed DEF Settled
<1> QED
  BY <1>1, <1>4, <1>5

LEMMA EndServedStep ==
    ASSUME OwnerServed, NEW u \in Users, NEW s \in SessionIds, EndSession(u, s)
    PROVE  Served(web, NoTask)'
<1> DEFINE t == Ender(s)
           m == BeginEnd(web.store, "user_ended")
           v == [web EXCEPT !.store = m]
           c == CancelExpiry(v, t)
<1>1. CanEndOnBoard(web.store, u, s) /\ web' = Acquire(c, t)
  BY DEF EndSession
<1>2. web.store.active # NoSession
  BY <1>1 DEF CanEndOnBoard, IsActive
<1>3. StoreOK(m) /\ ActiveIs(m, "ending")
  BY <1>2, BeginEndOK DEF OwnerServed, LockOrder, Order, SessionEndReason, ActiveIs
<1> HIDE DEF m
<1>4. t \in Tasks /\ Kind(t) \in LockKinds
  BY TaskFacts DEF LockKinds
<1> HIDE DEF t
<1>5. Runs(v, t) /\ v.store = m
  BY <1>3, <1>4, RunsNow, StoreRuns
<1> HIDE DEF v
<1>6. Runs(c, t) /\ c.store = m
  BY <1>5, CancelExpiryRuns
<1> HIDE DEF c
<1> QED
  BY <1>1, <1>3, <1>4, <1>6, EndingAtEnd, AcquireServed

LEMMA OpenServed ==
    ASSUME OwnerServed, NEW s \in SessionIds, OpenConnection(s)
    PROVE  Served(web, NoTask)'
<1> DEFINE c == CancelDisconnect(web, NoTask, s)
           l == [c.counts EXCEPT ![s] = @ + 1]
           v == [c EXCEPT !.counts = l]
<1>1. web' = v /\ StatusOf(web.store, s) = "active"
  BY DEF OpenConnection
<1>2. Runs(c, Watch) /\ c.store = web.store
  BY TaskFacts, RunsNow, CancelDisconnectRuns
<1> HIDE DEF c, l
<1>3. v.store = web.store
  BY <1>2 DEF Runs, IsWeb
<1> HIDE DEF v
<1>4. Settled(v.store)
  BY <1>1, <1>3, ActiveSettled DEF OwnerServed, LockOrder, Order
<1> QED
  BY <1>1, <1>4, SettledServed

LEMMA CloseServed ==
    ASSUME OwnerServed, NEW s \in SessionIds, CloseConnection(s)
    PROVE  Served(web, NoTask)'
<1> DEFINE left == IF web.counts[s] > 0 THEN web.counts[s] - 1 ELSE 0
           l == [web.counts EXCEPT ![s] = left]
           v == [web EXCEPT !.counts = l]
           x == ScheduleDisconnect(v, s)
<1>1. \/ web' = x /\ StatusOf(web.store, s) = "active"
      \/ web' = v
  BY DEF CloseConnection
<1> HIDE DEF l
<1>2. IsWeb(v) /\ v.store = web.store /\ v.tasks = web.tasks
  <2>1. IsWeb(web)
    BY RunsNow, TaskFacts DEF Runs
  <2> QED
    BY <2>1 DEF IsWeb
<1> HIDE DEF v
<1>3. Served(v, NoTask)
  BY <1>2, SameServed DEF OwnerServed, SameOwner, Pc
<1>4. x.store = web.store
  <2> DEFINE c == CancelDisconnect(v, NoTask, s)
  <2>1. Runs(v, Watch)
    BY <1>2, RunsNow, TaskFacts DEF Runs
  <2>2. Runs(c, Watch) /\ c.store = v.store
    BY <2>1, CancelDisconnectRuns
  <2>3. x = [c EXCEPT !.disc = @ \cup {s}, !.tasks[Disconnector(s)] = Suspended("sleep", s)]
    BY DEF ScheduleDisconnect
  <2> HIDE DEF c, x
  <2>4. x.store = c.store
    BY <2>2, <2>3 DEF Runs, IsWeb
  <2> QED
    BY <1>2, <2>2, <2>4
<1> HIDE DEF x
<1>5. StatusOf(web.store, s) = "active" => Settled(x.store)
  BY <1>4, ActiveSettled DEF OwnerServed, LockOrder, Order
<1> QED
  BY <1>1, <1>3, <1>5, SettledServed

LEMMA ExpiryServed ==
    ASSUME OwnerServed, NEW s \in SessionIds, NEW due \in Deadlines, ExpiryFires(s, due)
    PROVE  Served(web, NoTask)'
<1> DEFINE t == Expirer(s, due)
<1>1. Pc(web, t) = "sleep" /\ web' \in {Acquire(web, t), At(web, t, Done)}
  BY DEF ExpiryFires
<1>2. t \in Tasks /\ Kind(t) \in LockKinds
  BY TaskFacts DEF Tasks, LockKinds
<1> HIDE DEF t
<1>3. Runs(web, t) /\ Served(web, t) /\ AtEnd(web, t)
  BY <1>1, <1>2, RunsNow, ResumesServed, ServedFacts DEF OwnerServed, Starters, Enders, InFlow
<1> QED
  BY <1>1, <1>2, <1>3, AcquireServed, AtServed

LEMMA DisconnectServed ==
    ASSUME OwnerServed, NEW s \in SessionIds, DisconnectFires(s)
    PROVE  Served(web, NoTask)'
<1> DEFINE t == Disconnector(s)
<1>1. Pc(web, t) = "sleep" /\ web' \in {Acquire(web, t), Return(web, t)}
  BY DEF DisconnectFires
<1>2. t \in Tasks /\ Kind(t) \in LockKinds
  BY TaskFacts DEF LockKinds
<1> HIDE DEF t
<1>3. Runs(web, t) /\ Served(web, t) /\ AtEnd(web, t)
  BY <1>1, <1>2, RunsNow, ResumesServed, ServedFacts DEF OwnerServed, Starters, Enders, InFlow
<1> QED
  BY <1>1, <1>2, <1>3, AcquireServed, ReturnServed

LEMMA TakeLockServed ==
    ASSUME OwnerServed, NEW t \in Tasks, TakeLock(t)
    PROVE  Served(web, NoTask)'
<1>1. Pc(web, t) = "lock" /\ web' = Locked(web, t)
  BY DEF TakeLock
<1>2. AtEnd(web, t)
  BY <1>1, ResumesServed DEF OwnerServed, Enders, InFlow
<1>3. Kind(t) \in LockKinds
  BY <1>1, TaskFacts DEF OwnerServed, LockOrder, Order, Entitled, InFlow
<1> QED
  BY <1>1, <1>2, <1>3, RunsNow, LockedServed

LEMMA WatchServed == ASSUME OwnerServed, WatchEvent PROVE Served(web, NoTask)'
<1>1. Pc(web, Watch) = "idle" /\ web' = HandleBoardState(web, Head(events))
  BY DEF WatchEvent
<1> QED
  BY <1>1, RunsNow, TaskFacts, HandleBoardStateServed DEF OwnerServed, LockOrder

LEMMA AnsweredServed ==
    ASSUME OwnerServed, NEW t \in Tasks, Answered(t)
    PROVE  Served(web, NoTask)'
<1> DEFINE s == web.tasks[t].ses
           pc == web.tasks[t].pc
           ok == web.tasks[t].call = "ok"
           f == web.tasks[t].ans
           seen == [web EXCEPT !.fpga = f]
<1>1. /\ Pc(web, t) = pc /\ pc \in Calling
      /\ web' = CASE pc = "pl" /\ ok    -> ProgramPS(web, t, s)
                  [] pc = "ps" /\ ok    -> Programmed(web, t, s)
                  [] pc \in {"pl", "ps"} /\ ~ok -> StartError(web, t, s)
                  [] pc = "failreset"   -> TryStartNext(IF ok THEN seen ELSE web, t)
                  [] pc = "reset"       -> Ended(web, t)
                  [] pc = "reservedreset" -> ProblemEnded(web)
  BY DEF Answered, Pc
<1>2. /\ Pc(web, t) \notin Starters \cup Enders => Served(web, t)
      /\ Pc(web, t) \in Starters => AtStart(web, t, s)
  BY ResumesServed DEF OwnerServed
<1> HIDE DEF s, ok, seen, pc, f
<1>3. Runs(web, t) /\ now \in Nat
  BY RunsNow DEF OwnerServed, LockOrder
<1>4. CASE pc = "pl"
  <2>1. web' = IF ok THEN ProgramPS(web, t, s) ELSE StartError(web, t, s)
    BY <1>1, <1>4
  <2>2. AtStart(web, t, s)
    BY <1>1, <1>2, <1>4 DEF Starters
  <2> QED
    BY <1>3, <2>1, <2>2, ProgramPSServed, StartErrorServed
<1>5. CASE pc = "ps"
  <2>1. web' = IF ok THEN Programmed(web, t, s) ELSE StartError(web, t, s)
    BY <1>1, <1>5
  <2>2. AtStart(web, t, s)
    BY <1>1, <1>2, <1>5 DEF Starters
  <2> QED
    BY <1>3, <2>1, <2>2, ProgrammedServed, StartErrorServed
<1>6. CASE pc = "failreset"
  <2>1. web' = TryStartNext(IF ok THEN seen ELSE web, t)
    BY <1>1, <1>6
  <2>2. Served(web, t)
    BY <1>1, <1>2, <1>6 DEF Starters, Enders, InFlow
  <2>3. IsWeb(seen) /\ seen.store = web.store /\ seen.tasks = web.tasks
    BY <1>3 DEF Runs, IsWeb, seen
  <2>4. Runs(seen, t) /\ Served(seen, t)
    BY <1>3, <2>2, <2>3, SameServed DEF Runs, SameOwner, Pc
  <2> QED
    BY <1>3, <2>1, <2>2, <2>4, TryStartNextServed
<1>7. CASE pc = "reset"
  <2>1. web' = Ended(web, t)
    BY <1>1, <1>7
  <2> QED
    BY <1>3, <2>1, EndedServed
<1>8. CASE pc = "reservedreset"
  <2>1. web' = ProblemEnded(web)
    BY <1>1, <1>8
  <2> QED
    BY <2>1, RunsNow, TaskFacts, ProblemEndedServed
<1> QED
  BY <1>1, <1>4, <1>5, <1>6, <1>7, <1>8 DEF Calling

LEMMA RuntimeUpServed ==
    ASSUME OwnerServed, NEW t \in Tasks, RuntimeUp(t)
    PROVE  Served(web, NoTask)'
<1> DEFINE s == web.tasks[t].ses
           v == [web EXCEPT !.runtime = s]
<1>1. Pc(web, t) = "rt" /\ web' = Started(v, t, s)
  BY DEF RuntimeUp
<1>2. AtStart(web, t, s)
  BY <1>1, ResumesServed DEF OwnerServed, Starters
<1> HIDE DEF s
<1>3. Runs(web, t) /\ now \in Nat
  BY RunsNow DEF OwnerServed, LockOrder
<1>4. IsWeb(v) /\ v.store = web.store /\ v.tasks = web.tasks
  BY <1>3 DEF Runs, IsWeb
<1> HIDE DEF v
<1>5. Runs(v, t) /\ AtStart(v, t, s)
  BY <1>2, <1>3, <1>4, SameServed DEF Runs, SameOwner, Pc
<1> QED
  BY <1>1, <1>3, <1>5, StartedServed

LEMMA RuntimeFailsServed ==
    ASSUME OwnerServed, NEW t \in Tasks, RuntimeFails(t)
    PROVE  Served(web, NoTask)'
<1>1. Pc(web, t) = "rt" /\ web' = StartError(web, t, web.tasks[t].ses)
  BY DEF RuntimeFails
<1>2. AtStart(web, t, web.tasks[t].ses)
  BY <1>1, ResumesServed DEF OwnerServed, Starters
<1> QED
  BY <1>1, <1>2, RunsNow, StartErrorServed

LEMMA RuntimeDownServed ==
    ASSUME OwnerServed, NEW t \in Tasks, RuntimeDown(t)
    PROVE  Served(web, NoTask)'
<1> DEFINE s == web.tasks[t].ses
           pc == web.tasks[t].pc
<1>1. /\ Pc(web, t) = pc /\ pc \in Stopping
      /\ web' = CASE pc = "failstop"     -> StartFailed(web, t, s)
                  [] pc = "latestop"     -> Return(web, t)
                  [] pc = "stop"         -> Send(web, t, "reset", s)
                  [] pc = "problemstop"  -> ProblemStopped(web, s, FALSE)
                  [] pc = "reservedstop" -> ProblemStopped(web, s, TRUE)
  BY DEF RuntimeDown, Pc
<1>2. /\ Pc(web, t) \notin Starters \cup Enders => Served(web, t)
      /\ Pc(web, t) \in Starters => AtStart(web, t, s)
      /\ Pc(web, t) \in Enders => AtEnd(web, t)
  BY ResumesServed DEF OwnerServed
<1> HIDE DEF s, pc
<1>3. Runs(web, t) /\ Runs(web, Watch)
  BY RunsNow, TaskFacts
<1>4. CASE pc = "failstop"
  BY <1>1, <1>2, <1>3, <1>4, StartFailedServed DEF Starters
<1>5. CASE pc = "latestop"
  BY <1>1, <1>2, <1>3, <1>5, ReturnServed DEF Starters, Enders, InFlow
<1>6. CASE pc = "stop"
  BY <1>1, <1>2, <1>3, <1>6, SendServed DEF Enders, InFlow
<1>7. CASE pc = "problemstop"
  <2>1. web' = ProblemEnded(web)
    BY <1>1, <1>7 DEF ProblemStopped
  <2> QED
    BY <1>3, <2>1, ProblemEndedServed
<1>8. CASE pc = "reservedstop"
  <2>1. t = Watch
    BY <1>1, <1>8, TaskFacts DEF OwnerServed, LockOrder, Order, Tame
  <2>2. AtEnd(web, Watch)
    BY <1>1, <1>2, <1>8, <2>1 DEF Enders
  <2> QED
    BY <1>1, <1>3, <1>8, <2>2, ProblemStoppedServed
<1> QED
  BY <1>1, <1>4, <1>5, <1>6, <1>7, <1>8 DEF Stopping

-----------------------------------------------------------------------------
(* The environment *)

\* Tasks stay where they are and with the session they are there for.
SamePlaces(w, v) ==
    /\ v.store = w.store
    /\ \A t \in Tasks : Pc(v, t) = Pc(w, t) /\ v.tasks[t].ses = w.tasks[t].ses

LEMMA PlacesServed ==
    ASSUME NEW w, NEW v, SamePlaces(w, v), Served(w, NoTask) PROVE Served(v, NoTask)
BY SameServed DEF SamePlaces, SameOwner

LEMMA AnswerPlaces ==
    ASSUME NEW w, Runs(w, Watch), \A t \in Tasks : IsTask(w.tasks[t]), NEW i, NEW call, NEW ans
    PROVE  SamePlaces(w, Answer(w, i, call, ans))
<1> DEFINE t == w.calls[i].by
           c == RemoveAt(w.calls, i)
           l == [w EXCEPT !.calls = c]
           d == [l.tasks EXCEPT ![t].call = call]
           u == [l EXCEPT !.tasks = d]
           e == [u.tasks EXCEPT ![t].ans = ans]
           v == [u EXCEPT !.tasks = e]
<1>1. Answer(w, i, call, ans) = IF t = NoTask THEN l
                                ELSE [l EXCEPT !.tasks[t].call = call, !.tasks[t].ans = ans]
  BY DEF Answer
<1> HIDE DEF c, t
<1>2. IsWeb(l) /\ l.store = w.store /\ l.tasks = w.tasks
  BY DEF Runs, IsWeb
<1> HIDE DEF l
<1>3. Answer(w, i, call, ans) \in {l, v}
  <2>1. [l EXCEPT !.tasks[t].call = call] = u
    OBVIOUS
  <2>2. [u EXCEPT !.tasks[t].ans = ans] = v
    <3> HIDE DEF u
    <3> QED
      OBVIOUS
  <2>3. [l EXCEPT !.tasks[t].call = call, !.tasks[t].ans = ans]
          = [[l EXCEPT !.tasks[t].call = call] EXCEPT !.tasks[t].ans = ans]
    OBVIOUS
  <2> HIDE DEF u, v
  <2> QED
    BY <1>1, <2>1, <2>2, <2>3
<1>4. /\ d = [x \in Tasks |-> d[x]]
      /\ \A x \in Tasks : IsTask(d[x]) /\ d[x].pc = w.tasks[x].pc /\ d[x].ses = w.tasks[x].ses
  <2>1. \A x \in Tasks : d[x] = IF x = t THEN [w.tasks[x] EXCEPT !.call = call] ELSE w.tasks[x]
    BY <1>2 DEF Runs
  <2>2. d = [x \in Tasks |-> d[x]]
    BY <1>2 DEF Runs
  <2> HIDE DEF d
  <2> QED
    BY <2>1, <2>2 DEF IsTask
<1> HIDE DEF d
<1>5. IsWeb(u) /\ u.store = w.store /\ u.tasks = d
  BY <1>2 DEF IsWeb
<1> HIDE DEF u
<1>6. \A x \in Tasks : e[x].pc = w.tasks[x].pc /\ e[x].ses = w.tasks[x].ses
  <2>1. \A x \in Tasks : e[x] = IF x = t THEN [d[x] EXCEPT !.ans = ans] ELSE d[x]
    BY <1>4, <1>5
  <2> HIDE DEF e
  <2> QED
    BY <1>4, <2>1 DEF IsTask
<1> HIDE DEF e
<1>7. v.store = w.store /\ v.tasks = e
  BY <1>5 DEF IsWeb
<1> HIDE DEF v
<1> QED
  BY <1>2, <1>3, <1>6, <1>7 DEF SamePlaces, Pc

\* The agent is given to, works on, and answers what it was asked.
LEMMA AgentPlaces ==
    ASSUME LockOrder,
           \/ \E i \in 1..Len(web.calls) : AgentReceives(i)
           \/ AgentContinues \/ AgentSucceeds \/ AgentFails
    PROVE  SamePlaces(web, web') /\ now' = now
<1>1. Runs(web, Watch) /\ \A t \in Tasks : IsTask(web.tasks[t])
  BY OrderRuns, TaskFacts DEF LockOrder, Order
<1>2. ASSUME NEW i, NEW stage, web' = [web EXCEPT !.calls[i].stage = stage]
      PROVE  SamePlaces(web, web')
  <2> DEFINE c == [web.calls EXCEPT ![i].stage = stage]
             v == [web EXCEPT !.calls = c]
  <2>1. web' = v
    BY <1>2
  <2> HIDE DEF c
  <2>2. v.store = web.store /\ v.tasks = web.tasks
    BY <1>1 DEF Runs, IsWeb
  <2> HIDE DEF v
  <2> QED
    BY <2>1, <2>2 DEF SamePlaces, Pc
<1>3. \A i, call, ans : SamePlaces(web, Answer(web, i, call, ans))
  BY <1>1, AnswerPlaces
<1>4. ASSUME NEW i \in 1..Len(web.calls), AgentReceives(i) PROVE SamePlaces(web, web') /\ now' = now
  <2> DEFINE stage == IF i = 1 THEN "running" ELSE "admitted"
  <2>1. web' = Answer(web, i, "error", NoView) \/ web' = [web EXCEPT !.calls[i].stage = stage]
    BY <1>4 DEF AgentReceives
  <2>2. now' = now
    BY <1>4 DEF AgentReceives
  <2> HIDE DEF stage
  <2> QED
    BY <1>2, <1>3, <2>1, <2>2
<1>5. ASSUME AgentContinues PROVE SamePlaces(web, web') /\ now' = now
  BY <1>2, <1>3, <1>5 DEF AgentContinues
<1>6. ASSUME AgentSucceeds PROVE SamePlaces(web, web') /\ now' = now
  BY <1>3, <1>6 DEF AgentSucceeds
<1>7. ASSUME AgentFails PROVE SamePlaces(web, web') /\ now' = now
  BY <1>3, <1>7 DEF AgentFails
<1> QED
  BY <1>4, <1>5, <1>6, <1>7

LEMMA ZombiePlaces ==
    ASSUME LockOrder, NEW thread, ThreadEnds(thread)
    PROVE  SamePlaces(web, web') /\ now' = now
<1> DEFINE z == web.zombies \ {thread}
           v == [web EXCEPT !.zombies = z]
<1>1. web' = v /\ now' = now
  BY DEF ThreadEnds
<1> HIDE DEF z
<1>2. v.store = web.store /\ v.tasks = web.tasks
  BY DEF LockOrder, Order, IsWeb
<1> HIDE DEF v
<1> QED
  BY <1>1, <1>2 DEF SamePlaces, Pc

LEMMA AgentStopsPlaces ==
    ASSUME LockOrder, AgentStops PROVE SamePlaces(web, web') /\ now' = now
<1> DEFINE d == [t \in Tasks |-> IF web.tasks[t].call = "out" THEN [web.tasks[t] EXCEPT !.call = "error"]
                                 ELSE web.tasks[t]]
           u == [web EXCEPT !.calls = << >>]
           v == [u EXCEPT !.tasks = d]
<1>1. web' = v /\ now' = now
  BY DEF AgentStops
<1>2. \A t \in Tasks : d[t].pc = web.tasks[t].pc /\ d[t].ses = web.tasks[t].ses
  <2> SUFFICES ASSUME NEW t \in Tasks PROVE d[t].pc = web.tasks[t].pc /\ d[t].ses = web.tasks[t].ses
    OBVIOUS
  <2>1. IsTask(web.tasks[t])
    BY DEF LockOrder, Order
  <2> QED
    BY <2>1 DEF IsTask
<1> HIDE DEF d
<1>3. IsWeb(u) /\ u.store = web.store
  BY DEF LockOrder, Order, IsWeb
<1> HIDE DEF u
<1>4. v.store = web.store /\ v.tasks = d
  BY <1>3 DEF IsWeb
<1> HIDE DEF v
<1> QED
  BY <1>1, <1>2, <1>4 DEF SamePlaces, Pc

\* Nobody who waits or works is affected.
LEMMA SamePlacesNow ==
    ASSUME LockOrder,
           \/ AgentServes \/ AgentFails \/ AgentReports
           \/ \E s \in SessionIds : ZombieUp(s) \/ ZombieDown(s)
           \/ Environment /\ ~WebRestarts
           \/ UNCHANGED vars
    PROVE  SamePlaces(web, web') /\ now' = now
<1>1. CASE AgentServes \/ AgentFails
  BY <1>1, AgentPlaces DEF AgentServes
<1>2. CASE \E s \in SessionIds : ZombieUp(s) \/ ZombieDown(s)
  BY <1>2, ZombiePlaces DEF ZombieUp, ZombieDown
<1>3. CASE AgentReports
  BY <1>3 DEF AgentReports, SamePlaces
<1>4. CASE Environment /\ ~WebRestarts
  <2>1. CASE AgentStops
    BY <2>1, AgentStopsPlaces
  <2>2. CASE AgentBoots \/ CommunicationLost \/ CommunicationBack \/ Overheats \/ CoolsDown
             \/ Reserved \/ Freed
    BY <2>2 DEF AgentBoots, CommunicationLost, CommunicationBack, Overheats, CoolsDown, Reserved,
                Freed, SamePlaces
  <2> QED
    BY <1>4, <2>1, <2>2 DEF Environment
<1>5. CASE UNCHANGED vars
  BY <1>5 DEF vars, SamePlaces
<1> QED
  BY <1>1, <1>2, <1>3, <1>4, <1>5

\* Nobody owns the board of a new process.
LEMMA RestartServed == ASSUME OwnerServed, WebRestarts PROVE Served(web, NoTask)'
<1> DEFINE m == Forgotten(web.store)
           s == StartedManager(m, ViewOf(agent))
           c == [i \in DOMAIN web.calls |-> [web.calls[i] EXCEPT !.by = NoTask]]
           z == web.zombies \cup UNION {Thread(web.tasks[t]) : t \in Tasks}
           v == [s EXCEPT !.calls = c, !.zombies = z]
<1>1. web' = v
  BY DEF WebRestarts
<1>2. m.active = NoSession
  <2> DEFINE e == [i \in SessionIds |->
                      IF i <= web.store.count THEN [Blank EXCEPT !.status = "ended"] ELSE Blank]
  <2>1. m = [web.store EXCEPT !.ses = e, !.queue = << >>, !.active = NoSession]
    BY DEF Forgotten
  <2> HIDE DEF e
  <2>2. web.store \in Store
    BY DEF OwnerServed, LockOrder, Order, StoreOK
  <2> QED
    BY <2>1, <2>2 DEF Store
<1> HIDE DEF m, c, z
<1>3. IsWeb(s) /\ s.store = m
  BY DEF StartedManager, IsWeb
<1> HIDE DEF s
<1>4. v.store = m
  BY <1>3 DEF IsWeb
<1> HIDE DEF v
<1>5. Served(v, NoTask)
  BY <1>2, <1>4, SettledServed DEF Settled
<1> QED
  BY <1>1, <1>5

LEMMA OwnerStep == OwnerServed /\ [Next]_vars => OwnerServed'
<1> SUFFICES ASSUME OwnerServed, [Next]_vars PROVE Served(web, NoTask)'
  BY LockStep DEF OwnerServed
<1>1. ASSUME web' = web PROVE Served(web, NoTask)'
  BY <1>1 DEF OwnerServed
<1>2. CASE UserActions
  BY <1>2, CreateServed, CancelServed, EndServedStep, OpenServed, CloseServed DEF UserActions
<1>3. CASE Tick
  BY <1>1, <1>3 DEF Tick
<1>4. CASE Timers
  BY <1>4, ExpiryServed, DisconnectServed DEF Timers
<1>5. CASE WatchEvent
  BY <1>5, WatchServed
<1>6. CASE \E t \in Tasks : Replies(t)
  BY <1>6, TakeLockServed, AnsweredServed, RuntimeUpServed, RuntimeDownServed DEF Replies
<1>7. CASE \E t \in Tasks : RuntimeFails(t)
  BY <1>7, RuntimeFailsServed
<1>8. CASE WebRestarts
  BY <1>8, RestartServed
<1>9. CASE \/ AgentServes \/ AgentFails \/ AgentReports
           \/ \E s \in SessionIds : ZombieUp(s) \/ ZombieDown(s)
           \/ Environment /\ ~WebRestarts
           \/ UNCHANGED vars
  <2>1. SamePlaces(web, web')
    BY <1>9, SamePlacesNow DEF OwnerServed
  <2> QED
    BY <2>1, PlacesServed DEF OwnerServed
<1> QED
  BY <1>2, <1>3, <1>4, <1>5, <1>6, <1>7, <1>8, <1>9 DEF Next, Environment

LEMMA OwnerInit == Init => OwnerServed
<1> SUFFICES ASSUME Init PROVE Served(web, NoTask)
  BY LockInit DEF OwnerServed
<1>1. web.store.active = NoSession
  BY DEF Init, StartedManager, EmptyStore
<1> QED
  BY <1>1, SettledServed DEF Settled

\* A starting session has a task that is still working on its start and an
\* ending one a task that will finish it (_try_start_next, _end_active_session,
\* _end_for_board_problem), whichever tasks are cancelled and whatever fails.
THEOREM OwnerAlwaysServed == Spec => []OwnerIsServed
<1>1. OwnerServed => OwnerIsServed
  BY DEF OwnerServed, Served, StartServed, EndServed, Starts, Starters, Enders, InFlow, OwnerIsServed
<1>2. Spec => []OwnerServed
  BY OwnerInit, OwnerStep, PTL DEF Spec
<1> QED
  BY <1>1, <1>2, PTL

-----------------------------------------------------------------------------
(* How far deadlines reach *)

\* The owner has no deadline and may still get one.
Unlimited(m) ==
    \/ ActiveIs(m, "starting")
    \/ ActiveIs(m, "active") /\ m.ses[m.active].expires = NoTime

\* How many deadlines can still be set: each is set for the sake of the first
\* in the queue, and that session makes way for the next before another is.
Chances(m) ==
    (MaxSessions - m.count)
        + (IF Unlimited(m) \/ m.queue = << >> THEN Len(m.queue) ELSE Len(m.queue) - 1)

Horizon(m) == MaxTime + (MaxSessions - Chances(m)) * Contended

LEMMA ChancesFacts ==
    ASSUME NEW m, StoreOK(m)
    PROVE  /\ Chances(m) \in Nat /\ m.count \in Nat /\ Len(m.queue) \in Nat
           /\ m.queue = << >> <=> Len(m.queue) = 0
<1>1. m.count \in 0..MaxSessions /\ m.queue \in Seq(SessionIds)
  BY StoreFacts DEF StoreOK
<1>2. Len(m.queue) \in Nat /\ (m.queue = << >> <=> Len(m.queue) = 0)
  BY <1>1
<1> QED
  BY <1>1, <1>2, BoundAssumption DEF Chances

LEMMA HorizonFacts ==
    ASSUME NEW m, StoreOK(m)
    PROVE  Horizon(m) \in Int /\ Horizon(m) <= MaxTime + MaxSessions * Contended
<1>1. Chances(m) \in Nat /\ MaxSessions \in Nat /\ MaxTime \in Nat /\ Contended \in Nat
  BY ChancesFacts, BoundAssumption, BoundsAssumption, ContendedAssumption
<1> DEFINE c == Chances(m)
<1> HIDE DEF c
<1>2. c \in Nat /\ Horizon(m) = MaxTime + (MaxSessions - c) * Contended
  BY <1>1 DEF Horizon, c
<1>3. (MaxSessions - c) * Contended = MaxSessions * Contended - c * Contended
  BY <1>1, <1>2
<1>4. c * Contended \in Nat /\ MaxSessions * Contended \in Nat
  BY <1>1, <1>2
<1> QED
  BY <1>1, <1>2, <1>3, <1>4

\* A chance that is taken moves the horizon by one window.
LEMMA HorizonGrows ==
    ASSUME NEW m, StoreOK(m), NEW n, StoreOK(n)
    PROVE  /\ Chances(n) <= Chances(m) => Horizon(m) <= Horizon(n)
           /\ Chances(n) < Chances(m) => Horizon(m) + Contended <= Horizon(n)
<1> DEFINE c == Chances(m)
           d == Chances(n)
<1>1. c \in Nat /\ d \in Nat /\ MaxSessions \in Nat /\ MaxTime \in Nat /\ Contended \in Nat
  BY ChancesFacts, BoundAssumption, BoundsAssumption, ContendedAssumption
<1>2. Horizon(m) = MaxTime + (MaxSessions - c) * Contended
      /\ Horizon(n) = MaxTime + (MaxSessions - d) * Contended
  BY DEF Horizon
<1> HIDE DEF c, d
<1>3. (MaxSessions - d) * Contended = (MaxSessions - c) * Contended + (c - d) * Contended
  BY <1>1
<1>4. /\ c - d >= 0 => (c - d) * Contended >= 0
      /\ c - d >= 1 => (c - d) * Contended >= Contended
  BY <1>1
<1> QED
  BY <1>1, <1>2, <1>3, <1>4 DEF c, d

\* The owner's deadline.
Due(m) == IF ActiveIs(m, "active") THEN m.ses[m.active].expires ELSE NoTime

\* The owner has not been active since later than now.
Clocked(n, m) == ActiveIs(m, "active") => m.ses[m.active].started <= n

\* What the store does at the instant n to deadlines.
Timely(n, m, o) ==
    /\ StoreOK(o) /\ Forward(m, o)
    /\ Horizon(m) <= Horizon(o)
    /\ Clocked(n, o)
    /\ Due(o) \in {NoTime, Due(m)} \/ Due(o) <= Horizon(o)

\* Nobody is active any more.
LEMMA NobodyTimely ==
    ASSUME NEW n, NEW m, StoreOK(m), NEW o, StoreOK(o), Forward(m, o),
           o.count = m.count, Len(o.queue) <= Len(m.queue), ~ActiveIs(o, "active"),
           ActiveIs(o, "starting") => ActiveIs(m, "starting") \/ Len(o.queue) < Len(m.queue)
    PROVE  Timely(n, m, o) /\ Due(o) = NoTime
<1> DEFINE i == Len(m.queue)
           j == Len(o.queue)
           u == MaxSessions - m.count
<1>2. /\ i \in Nat /\ j \in Nat /\ u \in Int /\ j <= i
      /\ m.queue = << >> <=> i = 0
      /\ o.queue = << >> <=> j = 0
  BY ChancesFacts, BoundAssumption
<1>3. /\ Chances(m) = u + (IF Unlimited(m) \/ i = 0 THEN i ELSE i - 1)
      /\ Chances(o) = u + (IF Unlimited(o) \/ j = 0 THEN j ELSE j - 1)
  BY <1>2 DEF Chances
<1>4. Unlimited(o) => Unlimited(m) \/ j < i
  BY DEF Unlimited
<1> HIDE DEF i, j, u
<1>1. Chances(o) <= Chances(m)
  BY <1>2, <1>3, <1>4
<1> QED
  BY <1>1, HorizonGrows DEF Timely, Due, Clocked

LEMMA LeaveTimely ==
    ASSUME NEW n, NEW m, StoreOK(m), m.active # NoSession, NEW r \in SessionEndReason \cup {"none"}
    PROVE  Timely(n, m, LeaveBoard(m, r)) /\ Due(LeaveBoard(m, r)) = NoTime
<1> DEFINE f == Update(m, m.active, [m.ses[m.active] EXCEPT !.status = "ended", !.reason = r])
           o == LeaveBoard(m, r)
<1>1. o = [m EXCEPT !.active = NoSession, !.ses = f]
  BY DEF LeaveBoard
<1>2. StoreOK(o) /\ Forward(m, o) /\ o.active = NoSession
  BY LeaveBoardOK
<1> HIDE DEF f, o
<1>3. o.count = m.count /\ o.queue = m.queue
  BY <1>1 DEF StoreOK, Store
<1>4. Timely(n, m, o) /\ Due(o) = NoTime
  BY <1>2, <1>3, NobodyTimely, ChancesFacts DEF ActiveIs
<1> QED
  BY <1>4 DEF o

\* A store that does not change.
LEMMA SameTimely ==
    ASSUME NEW n, NEW m, StoreOK(m), ~ActiveIs(m, "active")
    PROVE  Timely(n, m, m) /\ Due(m) = NoTime
BY NobodyTimely, ChancesFacts DEF Forward

LEMMA FinishTimely ==
    ASSUME NEW n, NEW m, StoreOK(m)
    PROVE  Timely(n, m, FinishActive(m)) /\ Due(FinishActive(m)) = NoTime
<1>1. CASE m.active = NoSession
  BY <1>1, SameTimely DEF FinishActive, ActiveIs
<1>2. CASE m.active # NoSession
  <2>1. m.ses[m.active].reason \in SessionEndReason \cup {"none"}
    BY <1>2, StoreFacts DEF StoreOK, DemoSession
  <2> QED
    BY <1>2, <2>1, LeaveTimely DEF FinishActive
<1> QED
  BY <1>1, <1>2

LEMMA FailStartTimely ==
    ASSUME NEW n, NEW m, StoreOK(m), NEW s, CanActivate(m, s)
    PROVE  Timely(n, m, FailStart(m, s)) /\ Due(FailStart(m, s)) = NoTime
BY LeaveTimely DEF FailStart, CanActivate, IsActive, SessionEndReason

LEMMA BeginEndTimely ==
    ASSUME NEW n, NEW m, StoreOK(m), m.active # NoSession, NEW r \in SessionEndReason
    PROVE  Timely(n, m, BeginEnd(m, r)) /\ Due(BeginEnd(m, r)) = NoTime
<1> DEFINE f == Update(m, m.active, [m.ses[m.active] EXCEPT !.status = "ending", !.reason = r])
           o == BeginEnd(m, r)
<1>1. o = [m EXCEPT !.ses = f]
  BY DEF BeginEnd
<1>2. StoreOK(o) /\ Forward(m, o) /\ StatusOf(o, o.active) = "ending"
  BY BeginEndOK
<1> HIDE DEF f, o
<1>3. o.count = m.count /\ o.queue = m.queue
  BY <1>1 DEF StoreOK, Store
<1>4. Timely(n, m, o) /\ Due(o) = NoTime
  BY <1>2, <1>3, NobodyTimely, ChancesFacts DEF ActiveIs
<1> QED
  BY <1>4 DEF o

LEMMA BeginActiveEndTimely ==
    ASSUME NEW n, NEW m, StoreOK(m), NEW r \in SessionEndReason
    PROVE  Timely(n, m, BeginActiveEnd(m, r)) /\ Due(BeginActiveEnd(m, r)) = NoTime
<1>1. CASE m.active = NoSession \/ ActiveIs(m, "ending")
  BY <1>1, SameTimely DEF BeginActiveEnd, ActiveIs
<1>2. CASE ~(m.active = NoSession \/ ActiveIs(m, "ending"))
  BY <1>2, BeginEndTimely DEF BeginActiveEnd
<1> QED
  BY <1>1, <1>2

LEMMA BeginNextTimely ==
    ASSUME NEW n, NEW m, StoreOK(m), CanBegin(m)
    PROVE  /\ Timely(n, m, BeginNext(m)) /\ Due(BeginNext(m)) = NoTime
           /\ BeginNext(m).active = Head(m.queue)
<1> DEFINE f == Update(m, Head(m.queue), [m.ses[Head(m.queue)] EXCEPT !.status = "starting"])
           o == BeginNext(m)
<1>1. o = [m EXCEPT !.queue = Tail(m.queue), !.active = Head(m.queue), !.ses = f]
  BY DEF BeginNext
<1>2. StoreOK(o) /\ Forward(m, o) /\ o.active = Head(m.queue)
  BY BeginNextOK
<1>5. Head(m.queue) \in SessionIds /\ m.ses[Head(m.queue)] \in DemoSession
  BY PopOnce, StoreFacts DEF StoreOK, CanBegin
<1>6. f[Head(m.queue)].status = "starting"
  BY <1>5, StoreFacts DEF Update, StoreOK, DemoSession
<1> HIDE DEF f, o
<1>3. o.count = m.count /\ o.queue = Tail(m.queue) /\ o.ses = f
  BY <1>1 DEF StoreOK, Store
<1>7. ~ActiveIs(o, "active")
  BY <1>2, <1>3, <1>6 DEF ActiveIs, StatusOf
<1>8. m.queue \in Seq(SessionIds) /\ m.queue # << >>
  BY StoreFacts DEF StoreOK, CanBegin
<1>9. Len(o.queue) < Len(m.queue) /\ Len(o.queue) <= Len(m.queue)
  BY <1>3, <1>8
<1>4. Timely(n, m, o) /\ Due(o) = NoTime
  BY <1>2, <1>3, <1>7, <1>9, NobodyTimely, ChancesFacts
<1> QED
  BY <1>2, <1>4 DEF o

\* One window from now on lies within the new horizon when a chance is taken.
LEMMA LimitTimely ==
    ASSUME NEW n \in Nat, NEW m, StoreOK(m), n <= Horizon(m), NEW o, StoreOK(o), Forward(m, o),
           Chances(o) < Chances(m), Clocked(n, o),
           Due(o) \in Int, Due(o) <= n + Contended
    PROVE  Timely(n, m, o)
<1>1. Horizon(m) \in Int /\ Horizon(o) \in Int /\ Contended \in Nat
  BY HorizonFacts, ContendedAssumption
<1>2. Horizon(m) + Contended <= Horizon(o)
  BY HorizonGrows
<1> QED
  BY <1>1, <1>2 DEF Timely

LEMMA ActivateTimely ==
    ASSUME NEW n \in Nat, NEW m, StoreOK(m), n <= Horizon(m), NEW i, CanActivate(m, i)
    PROVE  LET o == Activate(m, i, n)
           IN  /\ Timely(n, m, o)
               /\ o.active = i /\ ActiveIs(o, "active")
               /\ Due(o) = o.ses[i].expires
<1> DEFINE e == IF m.queue # << >> THEN n + Contended ELSE NoTime
           s == [m.ses[i] EXCEPT !.status = "active", !.started = n, !.expires = e]
           f == [m.ses EXCEPT ![i] = s]
           o == Activate(m, i, n)
<1>1. i = m.active /\ i \in SessionIds /\ m.ses[i] \in DemoSession /\ StatusOf(m, i) = "starting"
      /\ i # NoSession
  BY StoreFacts DEF StoreOK, CanActivate, IsActive
<1>2. StoreOK(o) /\ Forward(m, o) /\ ActiveIs(o, "active")
  BY ActivateOK
<1>3. o = [m EXCEPT !.ses = f]
  BY DEF Activate, Update
<1>4. s.started = n /\ s.expires = e
  <2> HIDE DEF e
  <2> QED
    BY <1>1 DEF DemoSession
<1> HIDE DEF s, e
<1>5. f[i] = s
  BY <1>1, StoreFacts DEF StoreOK
<1> HIDE DEF f, o
<1>6. o.count = m.count /\ o.queue = m.queue /\ o.active = m.active /\ o.ses[i] = s
  BY <1>3, <1>5 DEF StoreOK, Store
<1>7. Clocked(n, o) /\ Due(o) = e /\ o.ses[i].expires = e
  BY <1>1, <1>2, <1>4, <1>6 DEF Clocked, Due
<1>8. ActiveIs(m, "starting") /\ ~ActiveIs(o, "starting")
  BY <1>1, <1>2 DEF ActiveIs
<1>9. CASE m.queue = << >>
  <2>1. Chances(o) <= Chances(m)
    BY <1>6, <1>8, <1>9, ChancesFacts, BoundAssumption DEF Chances, Unlimited
  <2>2. Timely(n, m, o)
    BY <1>2, <1>7, <1>9, <2>1, HorizonGrows DEF Timely, e
  <2> QED
    BY <1>1, <1>2, <1>6, <1>7, <2>2 DEF o
<1>10. CASE m.queue # << >>
  <2>1. e = n + Contended /\ e # NoTime /\ e \in Int
    BY <1>10, ContendedAssumption DEF e, NoTime
  <2>2. ~Unlimited(o) /\ Unlimited(m)
    BY <1>1, <1>6, <1>7, <1>8, <2>1 DEF Unlimited
  <2>3. Chances(o) < Chances(m)
    BY <1>6, <1>10, <2>2, ChancesFacts, BoundAssumption DEF Chances
  <2>4. Timely(n, m, o)
    BY <1>2, <1>7, <2>1, <2>3, LimitTimely
  <2> QED
    BY <1>1, <1>2, <1>6, <1>7, <2>4 DEF o
<1> QED
  BY <1>9, <1>10

\* The owner stays as it is, but for a deadline that may be lifted.
LEMMA KeptTimely ==
    ASSUME NEW n \in Nat, NEW m, StoreOK(m), Clocked(n, m), NEW o, StoreOK(o), Forward(m, o),
           SameOwner(m, o), Chances(o) <= Chances(m),
           m.active # NoSession => o.ses[m.active].expires \in {NoTime, m.ses[m.active].expires}
    PROVE  Timely(n, m, o)
<1>1. Clocked(n, o) /\ Due(o) \in {NoTime, Due(m)}
  BY DEF SameOwner, Clocked, Due, ActiveIs
<1> QED
  BY <1>1, HorizonGrows DEF Timely

LEMMA CancelTimely ==
    ASSUME NEW n \in Nat, NEW m, StoreOK(m), Clocked(n, m), NEW u, NEW i \in SessionIds,
           CanCancel(m, u, i)
    PROVE  Timely(n, m, Cancel(m, i))
<1> DEFINE q == RemoveFromQueue(m.queue, i)
           f == [m.ses EXCEPT ![i] = [m.ses[i] EXCEPT !.status = "ended", !.reason = "cancelled"]]
           p == [m EXCEPT !.queue = q, !.ses = f]
           g == ClearExpiryIfQueueEmpty(p)
           o == Cancel(m, i)
<1>1. o = [p EXCEPT !.ses = g]
  BY DEF Cancel, Update
<1>2. /\ StoreOK(o) /\ Forward(m, o) /\ SameOwner(m, o)
      /\ m.active # NoSession => o.ses[m.active].expires \in {NoTime, m.ses[m.active].expires}
  BY CancelOK
<1>3. Len(q) = Len(m.queue) - 1
  <2>1. Contains(m.queue, i) /\ m.queue \in Seq(SessionIds) /\ Once(m.queue)
    BY StoreFacts DEF StoreOK, CanCancel
  <2> QED
    BY <2>1, RemoveShape
<1>8. p = [m EXCEPT !.queue = q, !.ses = f]
  OBVIOUS
<1> HIDE DEF q, f, g, o, p
<1>4. p.queue = q /\ p.count = m.count /\ p = [ses |-> p.ses, count |-> p.count, queue |-> p.queue,
                                               active |-> p.active]
  BY <1>8 DEF StoreOK, Store
<1>5. o.queue = q /\ o.count = m.count
  BY <1>1, <1>4
<1>6. Chances(o) <= Chances(m)
  <2> DEFINE k == Len(m.queue)
             l == Len(o.queue)
             c == MaxSessions - m.count
  <2>1. k \in Nat /\ l \in Nat /\ c \in Int /\ l = k - 1
    BY <1>2, <1>3, <1>5, ChancesFacts, BoundAssumption
  <2>2. Chances(m) \in {c + k, c + (k - 1)} /\ Chances(o) \in {c + l, c + (l - 1)}
    BY <1>5 DEF Chances
  <2> HIDE DEF k, l, c
  <2> QED
    BY <2>1, <2>2
<1>7. Timely(n, m, o)
  BY <1>2, <1>6, KeptTimely
<1> QED
  BY <1>7 DEF o

LEMMA CreateTimely ==
    ASSUME NEW n \in Nat, NEW m, StoreOK(m), n <= Horizon(m), Clocked(n, m),
           NEW u \in Users, NEW d \in Demos, CanCreate(m, u)
    PROVE  Timely(n, m, Create(m, u, d, n))
<1> DEFINE a == m.active
           i == m.count + 1
           q == Append(m.queue, i)
           f == [m.ses EXCEPT ![i] = NewSession(u, d)]
           p == CreateWithoutDeadline(m, u, d, n)
           limits == ActiveIs(m, "active") /\ m.ses[a].expires = NoTime
           e == ContendedExpiry(m.ses[a], n)
           t == [m.ses[a] EXCEPT !.expires = e]
           g == [p.ses EXCEPT ![a] = t]
           o == Create(m, u, d, n)
<1>1. StoreOK(o) /\ Forward(m, o) /\ SameOwner(m, o)
  BY CreateOK
<1>2. p = [m EXCEPT !.count = i, !.queue = q, !.ses = f]
  BY DEF CreateWithoutDeadline, Update
<1>3. o = IF limits THEN [p EXCEPT !.ses = g] ELSE p
  BY DEF Create, Update
<1>4. a # NoSession => a \in SessionIds /\ a # i /\ m.ses[a] \in DemoSession
  <2>1. a # NoSession => a \in SessionIds /\ StatusOf(m, a) # "unused" /\ m.ses[a] \in DemoSession
    BY StoreFacts DEF StoreOK, OnBoard
  <2>2. i \in SessionIds => StatusOf(m, i) = "unused"
    BY StoreFacts DEF StoreOK, SessionIds
  <2> QED
    BY <2>1, <2>2
<1> HIDE DEF e, p, o
<1>5. m.ses \in [SessionIds -> DemoSession] /\ m.queue \in Seq(SessionIds) /\ m.count \in 0..MaxSessions
  BY StoreFacts DEF StoreOK
<1>6. (a # NoSession => f[a] = m.ses[a]) /\ DOMAIN f = SessionIds
  BY <1>4, <1>5
<1> HIDE DEF f
<1>7. /\ p.count = i /\ p.queue = q /\ p.ses = f /\ p.active = a
      /\ p = [ses |-> p.ses, count |-> p.count, queue |-> p.queue, active |-> p.active]
  BY <1>2 DEF StoreOK, Store
<1>8. Len(q) = Len(m.queue) + 1 /\ q # << >>
  BY <1>5
<1> HIDE DEF q
<1>9. o.count = m.count + 1 /\ o.queue = q
  <2> HIDE DEF g
  <2> QED
    BY <1>3, <1>7
<1> DEFINE k == Len(m.queue)
           c == MaxSessions - m.count
<1>10. /\ k \in Nat /\ c \in Int /\ (m.queue = << >> <=> k = 0)
       /\ Chances(m) = c + (IF Unlimited(m) \/ k = 0 THEN k ELSE k - 1)
       /\ Chances(o) = (c - 1) + (IF Unlimited(o) THEN k + 1 ELSE k)
  <2>1. k \in Nat /\ c \in Int /\ (m.queue = << >> <=> k = 0)
    BY ChancesFacts, BoundAssumption
  <2>2. MaxSessions - o.count = c - 1
    BY <1>5, <1>9, BoundAssumption
  <2>3. Chances(m) = c + (IF Unlimited(m) \/ k = 0 THEN k ELSE k - 1)
    BY <2>1 DEF Chances
  <2>4. Len(o.queue) = k + 1 /\ o.queue # << >>
    BY <1>8, <1>9
  <2>5. Chances(o) = (c - 1) + (IF Unlimited(o) THEN k + 1 ELSE k)
    <3> HIDE DEF k, c
    <3> QED
      BY <2>1, <2>2, <2>4 DEF Chances
  <2> QED
    BY <2>1, <2>3, <2>5
<1> HIDE DEF k, c
<1>11. CASE limits
  <2>1. a \in SessionIds /\ a # NoSession /\ StatusOf(m, a) = "active" /\ m.ses[a].started \in Time
        /\ m.ses[a].started <= n
    BY <1>4, <1>11 DEF ActiveIs, Clocked, DemoSession
  <2>2. e \in Nat /\ e <= n + Contended
    BY <2>1, ContendedAssumption DEF ContendedExpiry, Time, NoTime, e
  <2>3. t.expires = e
    BY <1>4, <2>1 DEF DemoSession
  <2>4. p.ses[a] = m.ses[a] /\ o.ses = g
    <3>1. p.ses[a] = m.ses[a]
      BY <1>6, <1>7, <2>1
    <3> HIDE DEF g
    <3> QED
      BY <1>3, <1>7, <1>11, <3>1
  <2>5. g[a] = t
    <3> HIDE DEF t
    <3> QED
      BY <1>6, <1>7, <2>1
  <2>6. o.active = a /\ StatusOf(o, a) = "active" /\ o.ses[a].started = m.ses[a].started
    BY <1>1, <2>1 DEF SameOwner
  <2> HIDE DEF g, t
  <2>11. e # NoTime
    BY <2>2 DEF NoTime
  <2>7. o.ses[a].expires = e /\ e # NoTime
    BY <2>3, <2>4, <2>5, <2>11
  <2>8. Due(o) = e /\ Clocked(n, o) /\ ~Unlimited(o) /\ Unlimited(m)
    BY <1>11, <2>1, <2>6, <2>7 DEF Due, Clocked, Unlimited, ActiveIs
  <2>9. Chances(o) < Chances(m)
    BY <1>10, <2>8
  <2>10. Timely(n, m, o)
    BY <1>1, <2>2, <2>8, <2>9, LimitTimely
  <2> QED
    BY <2>10 DEF o
<1>12. CASE ~limits
  <2>1. o = p
    BY <1>3, <1>12
  <2>2. a # NoSession => o.ses[a] = m.ses[a]
    BY <1>6, <1>7, <2>1
  <2>3. o.active = a
    BY <1>1 DEF SameOwner
  <2>4. Unlimited(o) <=> Unlimited(m)
    BY <2>2, <2>3 DEF Unlimited, ActiveIs, StatusOf
  <2>5. ~Unlimited(m) \/ ActiveIs(m, "starting")
    BY <1>12 DEF Unlimited
  <2>6. Chances(o) <= Chances(m)
    BY <1>10, <2>4
  <2>7. Timely(n, m, o)
    BY <1>1, <2>2, <2>6, KeptTimely
  <2> QED
    BY <2>7 DEF o
<1> QED
  BY <1>11, <1>12

LEMMA ForgottenTimely ==
    ASSUME NEW m, StoreOK(m)
    PROVE  LET o == Forgotten(m)
           IN  StoreOK(o) /\ Horizon(m) <= Horizon(o) /\ o.active = NoSession
<1> DEFINE f == [i \in SessionIds |-> IF i <= m.count THEN [Blank EXCEPT !.status = "ended"] ELSE Blank]
           o == Forgotten(m)
<1>1. o = [m EXCEPT !.ses = f, !.queue = << >>, !.active = NoSession]
  BY DEF Forgotten
<1>2. StoreOK(o)
  BY ForgottenOK
<1> HIDE DEF f, o
<1>3. o.count = m.count /\ o.queue = << >> /\ o.active = NoSession
  BY <1>1 DEF StoreOK, Store
<1>4. Chances(o) <= Chances(m)
  <2> DEFINE k == Len(m.queue)
             c == MaxSessions - m.count
  <2>1. k \in Nat /\ c \in Int /\ (m.queue = << >> <=> k = 0)
    BY ChancesFacts, BoundAssumption
  <2>2. Chances(m) = c + (IF Unlimited(m) \/ k = 0 THEN k ELSE k - 1) /\ Chances(o) = c
    BY <1>3, <2>1 DEF Chances
  <2> HIDE DEF k, c
  <2> QED
    BY <2>1, <2>2
<1> QED
  BY <1>2, <1>3, <1>4, HorizonGrows DEF o

-----------------------------------------------------------------------------
(* Timers *)

\* The owner's timer.
Alarm(m) == Expirer(m.active, Due(m))

Timed(w, me) ==
    Due(w.store) # NoTime =>
        /\ Alarm(w.store) \in Tasks /\ Alarm(w.store) # me
        /\ Pc(w, Alarm(w.store)) \in {"sleep", "lock"}

\* A timer is there for a session that has been active.
Old(w, t) == Kind(t) = "expiry" => StatusOf(w.store, Subject(t)) \in Begun

\* Timers wait for nothing beyond the horizon, so the clock does not pass it.
Punctual(n, w) ==
    /\ n \in Nat /\ n <= Horizon(w.store) /\ MaxTime <= Horizon(w.store)
    /\ Clocked(n, w.store)
    /\ \A t \in Tasks : Pc(w, t) # "done" => Old(w, t)
    /\ \A t \in Tasks : Kind(t) = "expiry" /\ Pc(w, t) = "sleep" => t[3] <= Horizon(w.store)

\* The state at the instant n, while t runs, and between two steps.
Ready(n, w, t) == Runs(w, t) /\ Punctual(n, w) /\ Old(w, t)
Good(n, w, t) == Ready(n, w, t) /\ Timed(w, t)
Fine(n, w) == Punctual(n, w) /\ Timed(w, NoTask)

LEMMA TimedFacts ==
    ASSUME NEW w, NEW t, Timed(w, t) PROVE Timed(w, NoTask)
BY TaskFacts DEF Timed

\* The timers and the store are the same.
LEMMA SameAlarms ==
    ASSUME NEW n, NEW w, NEW v, v.store = w.store,
           \A t \in Tasks : Kind(t) = "expiry" => Pc(v, t) = Pc(w, t)
    PROVE  /\ Punctual(n, w) => Punctual(n, v)
           /\ \A me : Timed(w, me) => Timed(v, me)
<1>1. ASSUME Alarm(w.store) \in Tasks PROVE Pc(v, Alarm(w.store)) = Pc(w, Alarm(w.store))
  BY <1>1, TaskFacts DEF Alarm
<1> QED
  BY <1>1 DEF Punctual, Timed, Old

LEMMA ResumesGood ==
    ASSUME NEW n, NEW w, Fine(n, w), NEW t \in Tasks, Runs(w, t), Pc(w, t) # "done" \/ Kind(t) # "expiry"
    PROVE  /\ Ready(n, w, t)
           /\ Pc(w, t) \notin {"sleep", "lock"} \/ Kind(t) # "expiry" => Good(n, w, t)
<1>1. Ready(n, w, t)
  BY DEF Fine, Ready, Punctual, Old
<1>2. Kind(Alarm(w.store)) = "expiry"
  BY TaskFacts DEF Alarm
<1> QED
  BY <1>1, <1>2 DEF Good, Timed, Fine

\* The running task suspends, but not to sleep.
LEMMA SuspendFine ==
    ASSUME NEW n, NEW w, NEW me, Ready(n, w, me), NEW k, k.pc # "sleep",
           NEW v, v.store = w.store, v.tasks = Put(w.tasks, me, k)
    PROVE  /\ Punctual(n, v)
           /\ Timed(w, me) => Timed(v, NoTask)
<1>1. \A t \in Tasks : v.tasks[t] = IF t = me THEN k ELSE w.tasks[t]
  BY DEF Put, Ready, Runs
<1>2. \A t \in Tasks : t # me => Pc(v, t) = Pc(w, t)
  BY <1>1 DEF Pc
<1>3. Pc(v, me) = k.pc
  BY <1>1 DEF Pc, Ready, Runs
<1>4. Punctual(n, v)
  BY <1>2, <1>3 DEF Ready, Punctual, Old
<1>5. Timed(w, me) => Timed(v, NoTask)
  BY <1>2, TaskFacts DEF Timed
<1> QED
  BY <1>4, <1>5

LEMMA AtFine ==
    ASSUME NEW n, NEW w, NEW t, Good(n, w, t), NEW k, k.pc # "sleep"
    PROVE  Fine(n, At(w, t, k))
<1> DEFINE v == At(w, t, k)
<1>1. v.store = w.store /\ v.tasks = Put(w.tasks, t, k)
  BY AtFields DEF Good, Ready, Runs
<1> HIDE DEF v
<1>2. Fine(n, v)
  BY <1>1, SuspendFine DEF Good, Fine
<1> QED
  BY <1>2 DEF v

LEMMA SendFine ==
    ASSUME NEW n, NEW w, NEW t, Good(n, w, t), NEW pc, NEW s, pc # "sleep"
    PROVE  Fine(n, Send(w, t, pc, s))
<1> DEFINE c == Append(w.calls, [op |-> Op(pc), ses |-> s, by |-> t, stage |-> "sent"])
           u == [w EXCEPT !.calls = c]
           k == [Suspended(pc, s) EXCEPT !.call = "out"]
           v == At(u, t, k)
<1>1. Send(w, t, pc, s) = v
  BY DEF Send
<1>2. k.pc = pc
  BY DEF Suspended
<1> HIDE DEF c, k
<1>3. IsWeb(u) /\ u.store = w.store /\ u.tasks = w.tasks
  BY DEF Good, Ready, Runs, IsWeb
<1> HIDE DEF u
<1>4. v.store = w.store /\ v.tasks = Put(w.tasks, t, k)
  BY <1>3, AtFields
<1> HIDE DEF v
<1> QED
  BY <1>1, <1>2, <1>4, SuspendFine DEF Good, Fine

LEMMA StopFine ==
    ASSUME NEW n, NEW w, NEW t, Good(n, w, t), NEW pc, NEW s, NEW r, pc # "sleep"
    PROVE  Fine(n, Stops(w, t, pc, s, r))
<1> DEFINE u == [w EXCEPT !.runtime = NoSession]
           k == [Suspended(pc, s) EXCEPT !.run = r]
           v == At(u, t, k)
<1>1. Stops(w, t, pc, s, r) = v
  BY DEF Stops
<1>2. k.pc = pc
  BY DEF Suspended
<1> HIDE DEF k
<1>3. IsWeb(u) /\ u.store = w.store /\ u.tasks = w.tasks
  BY DEF Good, Ready, Runs, IsWeb
<1> HIDE DEF u
<1>4. v.store = w.store /\ v.tasks = Put(w.tasks, t, k)
  BY <1>3, AtFields
<1> HIDE DEF v
<1> QED
  BY <1>1, <1>2, <1>4, SuspendFine DEF Good, Fine

LEMMA ReturnFine ==
    ASSUME NEW n, NEW w, NEW t, Good(n, w, t)
    PROVE  Fine(n, Return(w, t))
<1> DEFINE k == Rest(t)
           v == At(w, t, k)
           l == v.disc \ {Subject(t)}
           r == Return(w, t)
<1>1. r \in {[v EXCEPT !.expiry = NoTask], [v EXCEPT !.disc = l], v}
  BY DEF Return
<1>5. k.pc # "sleep"
  BY RestFacts
<1> HIDE DEF r, k
<1>2. IsWeb(v) /\ v.store = w.store /\ v.tasks = Put(w.tasks, t, k)
  BY AtFields DEF Good, Ready, Runs
<1> HIDE DEF v, l
<1>3. r.store = w.store /\ r.tasks = Put(w.tasks, t, k)
  BY <1>1, <1>2 DEF IsWeb
<1>4. Fine(n, r)
  BY <1>3, <1>5, SuspendFine DEF Good, Fine
<1> QED
  BY <1>4 DEF r

\* The store takes a timely step.
LEMMA StoreReady ==
    ASSUME NEW n, NEW w, NEW t, Ready(n, w, t), NEW m, Timely(n, w.store, m)
    PROVE  LET v == [w EXCEPT !.store = m]
           IN  /\ Ready(n, v, t) /\ v.store = m /\ v.tasks = w.tasks
               /\ Due(m) = NoTime => Good(n, v, t)
<1> DEFINE v == [w EXCEPT !.store = m]
<1>1. Runs(v, t) /\ v.store = m /\ v.tasks = w.tasks
  BY StoreRuns DEF Ready, Timely
<1> HIDE DEF v
<1>2. \A x \in Tasks : Old(w, x) => Old(v, x)
  BY <1>1, TaskFacts DEF Timely, Forward, Old
<1>3. n \in Nat /\ n <= Horizon(m) /\ MaxTime <= Horizon(m) /\ Clocked(n, m)
  BY HorizonFacts, BoundsAssumption DEF Ready, Punctual, Timely, Runs
<1>4. \A x \in Tasks : Kind(x) = "expiry" /\ Pc(w, x) = "sleep" => x[3] <= Horizon(m)
  <2> SUFFICES ASSUME NEW x \in Tasks, Kind(x) = "expiry", Pc(w, x) = "sleep" PROVE x[3] <= Horizon(m)
    OBVIOUS
  <2>1. x[3] <= Horizon(w.store) /\ x[3] \in Int
    BY DeadlinesAreNumbers DEF Ready, Punctual
  <2> QED
    BY <2>1, HorizonFacts DEF Timely, Ready, Runs
<1>5. Ready(n, v, t)
  BY <1>1, <1>2, <1>3, <1>4 DEF Ready, Punctual, Pc, Runs
<1>6. Due(m) = NoTime => Good(n, v, t)
  BY <1>1, <1>5 DEF Good, Timed
<1> QED
  BY <1>1, <1>5, <1>6 DEF v

\* All tasks are at rest and nobody owns the board.
LEMMA RestFine ==
    ASSUME NEW n \in Nat, NEW w, w.store.active = NoSession, w.tasks = [t \in Tasks |-> Rest(t)],
           n <= Horizon(w.store), MaxTime <= Horizon(w.store)
    PROVE  Fine(n, w)
<1>1. \A t \in Tasks : Pc(w, t) \in {"idle", "done"} /\ (Kind(t) = "expiry" => Pc(w, t) = "done")
  BY RestFacts, TaskFacts DEF Pc
<1>2. Due(w.store) = NoTime /\ Clocked(n, w.store)
  BY DEF Due, Clocked, ActiveIs
<1> QED
  BY <1>1, <1>2 DEF Fine, Punctual, Timed, Old

\* A task is cancelled.
LEMMA CancelReady ==
    ASSUME NEW n, NEW w, NEW t, Ready(n, w, t), NEW x
    PROVE  /\ Ready(n, CancelTask(w, x), t) /\ CancelTask(w, x).store = w.store
           /\ \A me : Timed(w, me) /\ Kind(x) # "expiry" => Timed(CancelTask(w, x), me)
<1> DEFINE v == CancelTask(w, x)
<1>1. Runs(v, t) /\ v.store = w.store /\ v.tasks = Put(w.tasks, x, Done)
  BY CancelRuns, CancelFields DEF Ready, Runs
<1> HIDE DEF v
<1>2. \A y \in Tasks : v.tasks[y] = IF y = x THEN Done ELSE w.tasks[y]
  BY <1>1 DEF Put, Ready, Runs
<1>3. \A y \in Tasks : Pc(v, y) = Pc(w, y) \/ (y = x /\ Pc(v, y) = "done")
  BY <1>2 DEF Pc, Done, Suspended
<1>4. Ready(n, v, t)
  BY <1>1, <1>3 DEF Ready, Punctual, Old
<1>5. Kind(Alarm(w.store)) = "expiry"
  BY TaskFacts DEF Alarm
<1>6. \A me : Timed(w, me) /\ Kind(x) # "expiry" => Timed(v, me)
  BY <1>1, <1>3, <1>5 DEF Timed
<1> QED
  BY <1>1, <1>4, <1>6 DEF v

\* A field that is no part of the timers changes.
LEMMA SameReady ==
    ASSUME NEW n, NEW w, NEW t, Ready(n, w, t), NEW v, IsWeb(v), v.store = w.store, v.tasks = w.tasks
    PROVE  /\ Ready(n, v, t)
           /\ \A me : Timed(w, me) => Timed(v, me)
BY DEF Ready, Punctual, Timed, Old, Pc, Runs

LEMMA CancelExpiryReady ==
    ASSUME NEW n, NEW w, NEW t, Ready(n, w, t), NEW by
    PROVE  Ready(n, CancelExpiry(w, by), t) /\ CancelExpiry(w, by).store = w.store
<1> DEFINE v == [w EXCEPT !.expiry = NoTask]
<1>1. CancelExpiry(w, by) = IF w.expiry = NoTask \/ w.expiry = by THEN v ELSE CancelTask(v, w.expiry)
  BY DEF CancelExpiry
<1>2. IsWeb(v) /\ v.store = w.store /\ v.tasks = w.tasks
  BY DEF Ready, Runs, IsWeb
<1> HIDE DEF v
<1>3. Ready(n, v, t)
  BY <1>2, SameReady
<1> QED
  BY <1>1, <1>2, <1>3, CancelReady

\* The timer is there once it has been scheduled for the owner.
LEMMA ScheduleExpiryGood ==
    ASSUME NEW n, NEW w, NEW t, Ready(n, w, t), ActiveIs(w.store, "active"),
           Due(w.store) # NoTime => Due(w.store) <= Horizon(w.store) /\ Alarm(w.store) # t, NEW by
    PROVE  LET v == ScheduleExpiry(w, by, w.store.active)
           IN  Good(n, v, t) /\ v.store = w.store
<1> DEFINE s == w.store.active
           due == w.store.ses[s].expires
           x == Expirer(s, due)
           c == CancelExpiry(w, by)
           k == Suspended("sleep", s)
           d == Put(c.tasks, x, k)
           u == [c EXCEPT !.expiry = x]
           v == [u EXCEPT !.tasks = d]
<1>1. ScheduleExpiry(w, by, s) =
        IF due = NoTime THEN c ELSE [c EXCEPT !.expiry = x, !.tasks[x] = k]
  BY DEF ScheduleExpiry
<1>2. Ready(n, c, t) /\ c.store = w.store
  BY CancelExpiryReady
<1>3. Due(w.store) = due /\ Alarm(w.store) = x
  BY DEF Due, Alarm
<1>4. s \in SessionIds /\ StatusOf(w.store, s) \in Begun /\ due \in Time
  <2>1. StoreOK(w.store) /\ s # NoSession
    BY DEF Ready, Runs, ActiveIs
  <2>2. s \in SessionIds /\ w.store.ses[s] \in DemoSession
    BY <2>1, StoreFacts DEF StoreOK
  <2> QED
    BY <2>2 DEF DemoSession, ActiveIs, StatusOf, Begun
<1>5. ASSUME due # NoTime PROVE due <= Horizon(w.store) /\ x \in Tasks /\ x # t
  <2>1. due <= Horizon(w.store) /\ x # t
    BY <1>3, <1>5
  <2>2. Horizon(w.store) \in Int /\ Horizon(w.store) <= MaxTime + MaxSessions * Contended
    BY HorizonFacts DEF Ready, Runs
  <2>3. due \in Nat
    BY <1>4, <1>5 DEF Time
  <2>4. MaxTime + MaxSessions * Contended \in Int
    BY BoundAssumption, BoundsAssumption, ContendedAssumption
  <2>5. due \in Deadlines
    BY <2>1, <2>2, <2>3, <2>4 DEF Deadlines
  <2> QED
    BY <1>4, <2>1, <2>5 DEF Tasks
<1>6. Kind(x) = "expiry" /\ Subject(x) = s /\ x[3] = due
  BY TaskFacts
<1>7. k.pc = "sleep"
  BY DEF Suspended
<1> HIDE DEF c, x, k, due, s
<1>8. [c EXCEPT !.expiry = x, !.tasks[x] = k] = v
  <2>1. [c EXCEPT !.expiry = x, !.tasks[x] = k] = [c EXCEPT !.expiry = x, !.tasks = d]
    BY <1>2 DEF Put, IsWeb, Ready, Runs
  <2> QED
    BY <2>1
<1> HIDE DEF d
<1>9. IsWeb(u) /\ u.store = c.store
  BY <1>2 DEF Ready, Runs, IsWeb
<1> HIDE DEF u
<1>10. IsWeb(v) /\ v.store = c.store /\ v.tasks = d
  BY <1>9 DEF IsWeb
<1> HIDE DEF v
<1>11. CASE due = NoTime
  <2>1. Good(n, c, t)
    BY <1>2, <1>3, <1>11 DEF Good, Timed
  <2> QED
    BY <1>1, <1>2, <1>11, <2>1 DEF s
<1>12. CASE due # NoTime
  <2>1. Runs(v, t)
    BY <1>2, <1>10, PutRuns DEF d, Ready
  <2>2. \A y \in Tasks : Pc(v, y) = IF y = x THEN "sleep" ELSE Pc(c, y)
    BY <1>2, <1>7, <1>10 DEF d, Put, Pc, Ready, Runs
  <2>3. Ready(n, v, t)
    BY <1>2, <1>4, <1>5, <1>6, <1>10, <1>12, <2>1, <2>2 DEF Ready, Punctual, Old
  <2>4. Timed(v, t)
    BY <1>2, <1>3, <1>5, <1>10, <1>12, <2>2 DEF Timed
  <2> QED
    BY <1>1, <1>2, <1>8, <1>10, <1>12, <2>3, <2>4 DEF Good, s
<1> QED
  BY <1>11, <1>12

LEMMA CancelDisconnectReady ==
    ASSUME NEW n, NEW w, NEW t, Ready(n, w, t), NEW by, NEW s \in SessionIds
    PROVE  LET v == CancelDisconnect(w, by, s)
           IN  /\ Ready(n, v, t) /\ v.store = w.store
               /\ \A me : Timed(w, me) => Timed(v, me)
<1> DEFINE x == Disconnector(s)
           l == w.disc \ {s}
           v == [w EXCEPT !.disc = l]
<1>1. CancelDisconnect(w, by, s) = IF s \notin w.disc \/ x = by THEN v ELSE CancelTask(v, x)
  BY DEF CancelDisconnect
<1>2. Kind(x) # "expiry"
  BY TaskFacts
<1> HIDE DEF l, x
<1>3. IsWeb(v) /\ v.store = w.store /\ v.tasks = w.tasks
  BY DEF Ready, Runs, IsWeb
<1> HIDE DEF v
<1>4. Ready(n, v, t) /\ \A me : Timed(w, me) => Timed(v, me)
  BY <1>3, SameReady
<1> QED
  BY <1>1, <1>2, <1>3, <1>4, CancelReady

-----------------------------------------------------------------------------
(* Timers of starts and ends *)

LEMMA GoodFacts ==
    ASSUME NEW n, NEW w, NEW t, Good(n, w, t)
    PROVE  Ready(n, w, t) /\ Runs(w, t) /\ n \in Nat /\ n <= Horizon(w.store) /\ StoreOK(w.store)
           /\ Clocked(n, w.store)
BY DEF Good, Ready, Punctual, Runs

\* The session that becomes active has its timer.
LEMMA ActivateGood ==
    ASSUME NEW w, NEW t, NEW s, Good(now, w, t), CanActivate(w.store, s)
    PROVE  LET v == [w EXCEPT !.store = Activate(@, s, now)]
           IN  Good(now, ScheduleExpiry(v, t, s), t)
<1> DEFINE m == Activate(w.store, s, now)
           v == [w EXCEPT !.store = m]
<1>1. Timely(now, w.store, m) /\ m.active = s /\ ActiveIs(m, "active")
  BY GoodFacts, ActivateTimely
<1>2. w.store.active = s /\ StatusOf(w.store, s) = "starting" /\ Due(w.store) = NoTime
  BY DEF CanActivate, IsActive, ActiveIs, Due
<1> HIDE DEF m
<1>3. Ready(now, v, t) /\ v.store = m
  BY <1>1, GoodFacts, StoreReady
<1> HIDE DEF v
<1>4. Due(m) # NoTime => Due(m) <= Horizon(m)
  BY <1>1, <1>2 DEF Timely
<1>5. Alarm(m) # t
  BY <1>1, <1>2, GoodFacts, TaskFacts DEF Alarm, Ready, Old, Begun
<1>6. Good(now, ScheduleExpiry(v, t, s), t)
  BY <1>1, <1>3, <1>4, <1>5, ScheduleExpiryGood
<1> QED
  BY <1>6 DEF v, m

LEMMA StartedFine ==
    ASSUME NEW w, NEW t, NEW s, Good(now, w, t) PROVE Fine(now, Started(w, t, s))
<1>1. CASE CanActivate(w.store, s)
  <2> DEFINE v == [w EXCEPT !.store = Activate(@, s, now)]
             u == ScheduleExpiry(v, t, s)
  <2>1. Started(w, t, s) = Return(u, t)
    BY <1>1 DEF Started
  <2>2. Good(now, u, t)
    BY <1>1, ActivateGood
  <2> HIDE DEF u
  <2> QED
    BY <2>1, <2>2, ReturnFine
<1>2. CASE ~CanActivate(w.store, s)
  <2>1. Started(w, t, s) = IF w.runtime = NoSession THEN Return(w, t)
                           ELSE Stops(w, t, "latestop", s, w.runtime)
    BY <1>2 DEF Started, Stops
  <2> QED
    BY <2>1, ReturnFine, StopFine
<1> QED
  BY <1>1, <1>2

LEMMA ProgrammedFine ==
    ASSUME NEW w, NEW t, NEW s, Good(now, w, t) PROVE Fine(now, Programmed(w, t, s))
<1>1. Suspended("rt", s).pc # "sleep"
  BY DEF Suspended
<1>2. Fine(now, At(w, t, Suspended("rt", s)))
  BY <1>1, AtFine
<1> QED
  BY <1>2, StartedFine DEF Programmed

LEMMA ProgramPSFine ==
    ASSUME NEW w, NEW t, NEW s, Good(now, w, t) PROVE Fine(now, ProgramPS(w, t, s))
BY SendFine, ProgrammedFine DEF ProgramPS

LEMMA ProgramPLFine ==
    ASSUME NEW w, NEW t, NEW s, Good(now, w, t) PROVE Fine(now, ProgramPL(w, t, s))
BY SendFine, ProgramPSFine DEF ProgramPL

LEMMA TryStartNextFine ==
    ASSUME NEW w, NEW t, Good(now, w, t) PROVE Fine(now, TryStartNext(w, t))
<1>1. CASE MayStart(w) /\ CanBegin(w.store)
  <2> DEFINE m == BeginNext(w.store)
             v == [w EXCEPT !.store = m]
             s == Head(w.store.queue)
  <2>1. Timely(now, w.store, m) /\ Due(m) = NoTime
    BY <1>1, GoodFacts, BeginNextTimely
  <2>2. TryStartNext(w, t) = ProgramPL(v, t, s)
    BY <1>1 DEF TryStartNext
  <2> HIDE DEF m, s
  <2>3. Good(now, v, t)
    BY <2>1, GoodFacts, StoreReady
  <2> HIDE DEF v
  <2> QED
    BY <2>2, <2>3, ProgramPLFine
<1>2. CASE ~(MayStart(w) /\ CanBegin(w.store))
  BY <1>2, ReturnFine DEF TryStartNext
<1> QED
  BY <1>1, <1>2

LEMMA StartFailedFine ==
    ASSUME NEW n, NEW w, NEW t, NEW s, Good(n, w, t) PROVE Fine(n, StartFailed(w, t, s))
<1> DEFINE m == FailStart(w.store, s)
           v == [w EXCEPT !.store = m]
<1>1. CASE CanActivate(w.store, s)
  <2>1. Timely(n, w.store, m) /\ Due(m) = NoTime
    BY <1>1, GoodFacts, FailStartTimely
  <2>2. StartFailed(w, t, s) = Send(v, t, "failreset", s)
    BY <1>1 DEF StartFailed
  <2> HIDE DEF m
  <2>3. Good(n, v, t)
    BY <2>1, GoodFacts, StoreReady
  <2> HIDE DEF v
  <2> QED
    BY <2>2, <2>3, SendFine
<1>2. CASE ~CanActivate(w.store, s)
  <2> DEFINE u == [w EXCEPT !.store = w.store]
  <2>1. StartFailed(w, t, s) = Send(u, t, "failreset", s)
    BY <1>2 DEF StartFailed
  <2>2. IsWeb(u) /\ u.store = w.store /\ u.tasks = w.tasks
    BY DEF Good, Ready, Runs, IsWeb
  <2> HIDE DEF u
  <2>3. Good(n, u, t)
    BY <2>2, SameReady DEF Good
  <2> QED
    BY <2>1, <2>3, SendFine
<1> QED
  BY <1>1, <1>2

LEMMA StartErrorFine ==
    ASSUME NEW n, NEW w, NEW t, NEW s, Good(n, w, t) PROVE Fine(n, StartError(w, t, s))
<1>1. Fine(n, Stops(w, t, "failstop", s, w.runtime))
  BY StopFine
<1> QED
  BY <1>1, StartFailedFine DEF StartError, Stops

LEMMA ReleaseReady ==
    ASSUME NEW n, NEW w, NEW t, Ready(n, w, t)
    PROVE  /\ Ready(n, Release(w), t) /\ Release(w).store = w.store
           /\ \A me : Timed(w, me) => Timed(Release(w), me)
<1> DEFINE q == Tail(w.flow)
           v == [w EXCEPT !.flow = q]
<1>1. Release(w) = v
  BY DEF Release
<1> HIDE DEF q
<1>2. IsWeb(v) /\ v.store = w.store /\ v.tasks = w.tasks
  BY DEF Ready, Runs, IsWeb
<1> HIDE DEF v
<1> QED
  BY <1>1, <1>2, SameReady

LEMMA EndUnderLockFine ==
    ASSUME NEW n, NEW w, NEW t, NEW s, Good(n, w, t) PROVE Fine(n, EndUnderLock(w, t, s))
<1>1. Fine(n, Send(w, t, "reset", s)) /\ Fine(n, Stops(w, t, "stop", s, w.runtime))
  BY SendFine, StopFine
<1> QED
  BY <1>1 DEF EndUnderLock, Stops

\* An ender ends a session that is ending already; a timer tells it to end now.
LEMMA LockedFine ==
    ASSUME NEW n, NEW w, NEW t, Ready(n, w, t), Kind(t) \in LockKinds,
           Kind(t) = "end" => Timed(w, t)
    PROVE  Fine(n, Locked(w, t))
<1>1. CASE Kind(t) = "end"
  BY <1>1, EndUnderLockFine DEF Locked, Good
<1>2. CASE Kind(t) # "end" /\ ActiveId(w) = NoSession
  <2>1. Due(w.store) = NoTime
    BY <1>2 DEF Due, ActiveIs, ActiveId
  <2>2. Good(n, Release(w), t)
    BY <2>1, ReleaseReady DEF Good, Timed
  <2> QED
    BY <1>2, <2>2, ReturnFine DEF Locked
<1>3. CASE Kind(t) # "end" /\ ActiveId(w) # NoSession
  <2> DEFINE m == BeginActiveEnd(w.store, Reason(t))
             v == [w EXCEPT !.store = m]
  <2>1. Reason(t) \in SessionEndReason
    BY <1>3 DEF Reason, LockKinds, SessionEndReason, TimeLimit
  <2>2. Timely(n, w.store, m) /\ Due(m) = NoTime
    BY <2>1, BeginActiveEndTimely DEF Ready, Runs
  <2>3. Locked(w, t) = EndUnderLock(v, t, ActiveId(w))
    BY <1>3 DEF Locked
  <2> HIDE DEF m
  <2>4. Good(n, v, t)
    BY <2>2, StoreReady
  <2> HIDE DEF v
  <2> QED
    BY <2>3, <2>4, EndUnderLockFine
<1> QED
  BY <1>1, <1>2, <1>3

\* A task that finds the lock taken waits there: as the timer of the owner it
\* is still there for it.
LEMMA WaitFine ==
    ASSUME NEW n, NEW w, NEW t, Ready(n, w, t), Alarm(w.store) # t => Timed(w, t), NEW k, k.pc = "lock"
    PROVE  Fine(n, At(w, t, k))
<1> DEFINE v == At(w, t, k)
<1>1. v.store = w.store /\ v.tasks = Put(w.tasks, t, k)
  BY AtFields DEF Ready, Runs
<1> HIDE DEF v
<1>2. \A x \in Tasks : v.tasks[x] = IF x = t THEN k ELSE w.tasks[x]
  BY <1>1 DEF Put, Ready, Runs
<1>3. Pc(v, t) = "lock" /\ t \in Tasks
  BY <1>2 DEF Pc, Ready, Runs
<1>4. Punctual(n, v) /\ (Timed(w, t) => Timed(v, NoTask))
  BY <1>1, SuspendFine
<1>5. Alarm(w.store) = t => Timed(v, NoTask)
  BY <1>1, <1>3, TaskFacts DEF Timed
<1> QED
  BY <1>4, <1>5 DEF Fine, v

LEMMA AcquireFine ==
    ASSUME NEW n, NEW w, NEW t, Ready(n, w, t), Alarm(w.store) # t => Timed(w, t),
           Kind(t) \in LockKinds
    PROVE  Fine(n, Acquire(w, t))
<1> DEFINE q == Append(w.flow, t)
           v == [w EXCEPT !.flow = q]
           k == Suspended("lock", Subject(t))
<1>1. Acquire(w, t) = IF w.flow = << >> THEN Locked(v, t) ELSE At(v, t, k)
  BY DEF Acquire
<1>2. k.pc = "lock"
  BY DEF Suspended
<1> HIDE DEF q, k
<1>3. IsWeb(v) /\ v.store = w.store /\ v.tasks = w.tasks
  BY DEF Ready, Runs, IsWeb
<1> HIDE DEF v
<1>4. Ready(n, v, t) /\ (Alarm(v.store) # t => Timed(v, t))
  BY <1>3, SameReady
<1>5. Kind(t) = "end" => Timed(v, t)
  BY <1>4, TaskFacts DEF Alarm
<1> QED
  BY <1>1, <1>2, <1>4, <1>5, LockedFine, WaitFine

LEMMA FinishGood ==
    ASSUME NEW n, NEW w, NEW t, Ready(n, w, t)
    PROVE  LET v == [w EXCEPT !.store = FinishActive(@)]
           IN  Good(n, v, t) /\ Due(v.store) = NoTime
<1> DEFINE m == FinishActive(w.store)
<1>1. Timely(n, w.store, m) /\ Due(m) = NoTime
  BY FinishTimely DEF Ready, Runs
<1>2. [w EXCEPT !.store = FinishActive(@)] = [w EXCEPT !.store = m]
  OBVIOUS
<1> HIDE DEF m
<1>3. Good(n, [w EXCEPT !.store = m], t) /\ [w EXCEPT !.store = m].store = m
  BY <1>1, StoreReady
<1> QED
  BY <1>1, <1>2, <1>3

LEMMA EndedFine ==
    ASSUME NEW w, NEW t, Ready(now, w, t) PROVE Fine(now, Ended(w, t))
<1> DEFINE a == ActiveId(w)
           f == [w EXCEPT !.store = FinishActive(@)]
           c == [f.counts EXCEPT ![a] = 0]
           h == [f EXCEPT !.counts = c]
           v == IF Kind(t) = "end" \/ a = NoSession THEN f ELSE CancelDisconnect(h, t, a)
<1>1. Ended(w, t) = TryStartNext(Release(v), t)
  BY DEF Ended
<1>2. Good(now, f, t)
  BY FinishGood
<1>3. a # NoSession => a \in SessionIds
  BY StoreFacts DEF ActiveId, Ready, Runs, StoreOK
<1> HIDE DEF a, f, c
<1>4. IsWeb(h) /\ h.store = f.store /\ h.tasks = f.tasks
  BY <1>2 DEF Good, Ready, Runs, IsWeb
<1> HIDE DEF h
<1>5. Ready(now, h, t) /\ Timed(h, t)
  BY <1>2, <1>4, SameReady DEF Good
<1>6. Good(now, v, t)
  BY <1>2, <1>3, <1>5, CancelDisconnectReady DEF Good
<1> HIDE DEF v
<1>7. Good(now, Release(v), t)
  BY <1>6, ReleaseReady DEF Good
<1> QED
  BY <1>1, <1>7, TryStartNextFine

LEMMA ProblemEndedFine ==
    ASSUME NEW n, NEW w, Ready(n, w, Watch) PROVE Fine(n, ProblemEnded(w))
<1> DEFINE v == [w EXCEPT !.store = FinishActive(@)]
<1>1. ProblemEnded(w) = Return(v, Watch)
  BY DEF ProblemEnded
<1>2. Good(n, v, Watch)
  BY FinishGood
<1> HIDE DEF v
<1> QED
  BY <1>1, <1>2, ReturnFine

LEMMA ProblemStoppedFine ==
    ASSUME NEW n, NEW w, Good(n, w, Watch), NEW s, NEW reserved
    PROVE  Fine(n, ProblemStopped(w, s, reserved))
BY SendFine, ProblemEndedFine DEF ProblemStopped, Good

LEMMA BoardProblemFine ==
    ASSUME NEW n, NEW w, Ready(n, w, Watch), NEW reason \in BoardProblem
    PROVE  Fine(n, EndForBoardProblem(w, reason))
<1> DEFINE s == ActiveId(w)
           c == CancelExpiry(w, Watch)
           m == BeginActiveEnd(c.store, reason)
           v == [c EXCEPT !.store = m]
           pc == IF reason = "reserved" THEN "reservedstop" ELSE "problemstop"
<1>1. EndForBoardProblem(w, reason) =
        IF s = NoSession THEN Return(c, Watch)
        ELSE IF w.runtime = NoSession THEN ProblemStopped(v, s, reason = "reserved")
        ELSE Stops(v, Watch, pc, s, w.runtime)
  BY DEF EndForBoardProblem, Stops
<1>2. Ready(n, c, Watch) /\ c.store = w.store
  BY CancelExpiryReady
<1>3. pc # "sleep"
  OBVIOUS
<1> HIDE DEF c, pc
<1>4. CASE s = NoSession
  <2>1. Good(n, c, Watch)
    BY <1>2, <1>4 DEF Good, Timed, Due, ActiveIs, ActiveId
  <2> QED
    BY <1>1, <1>4, <2>1, ReturnFine
<1>5. CASE s # NoSession
  <2>1. Timely(n, c.store, m) /\ Due(m) = NoTime
    BY <1>2, BeginActiveEndTimely DEF Ready, Runs, SessionEndReason
  <2> HIDE DEF m
  <2>2. Good(n, v, Watch)
    BY <1>2, <2>1, StoreReady
  <2> HIDE DEF v
  <2>3. Fine(n, ProblemStopped(v, s, reason = "reserved")) /\ Fine(n, Stops(v, Watch, pc, s, w.runtime))
    BY <1>3, <2>2, ProblemStoppedFine, StopFine
  <2> QED
    BY <1>1, <1>5, <2>3
<1> QED
  BY <1>4, <1>5

LEMMA HandleBoardStateFine ==
    ASSUME NEW w, Good(now, w, Watch), NEW view
    PROVE  Fine(now, HandleBoardState(w, view))
<1> DEFINE v == [w EXCEPT !.fpga = view]
<1>1. HandleBoardState(w, view) \in
        {EndForBoardProblem(v, r) : r \in BoardProblem} \cup {TryStartNext(v, Watch), v}
  BY DEF HandleBoardState, BoardProblem
<1>2. IsWeb(v) /\ v.store = w.store /\ v.tasks = w.tasks
  BY DEF Good, Ready, Runs, IsWeb
<1> HIDE DEF v
<1>3. Good(now, v, Watch)
  BY <1>2, SameReady DEF Good
<1>4. Fine(now, v)
  BY <1>3, TimedFacts DEF Good, Ready, Fine
<1> QED
  BY <1>1, <1>3, <1>4, BoardProblemFine, TryStartNextFine DEF Good

-----------------------------------------------------------------------------
(* Timers at each step *)

TimersSet == LockOrder /\ Fine(now, web)

LEMMA Resuming ==
    ASSUME TimersSet, NEW t \in Tasks
    PROVE  /\ Runs(web, t)
           /\ Pc(web, t) # "done" \/ Kind(t) # "expiry" => Ready(now, web, t)
           /\ Pc(web, t) \notin {"done", "sleep", "lock"} \/ Kind(t) # "expiry" => Good(now, web, t)
<1>1. Runs(web, t)
  BY OrderRuns DEF TimersSet, LockOrder
<1> QED
  BY <1>1, ResumesGood DEF TimersSet

\* The newcomer's task has the owner's timer in place when it tries to start.
LEMMA CreateGood ==
    ASSUME TimersSet, NEW u \in Users, NEW d \in Demos, CreateSession(u, d)
    PROVE  LET t == Creator(web.store.count + 1)
               a == ActiveId(web)
               v == [web EXCEPT !.store = Create(@, u, d, now)]
               limited == a # NoSession /\ v.store.ses[a].expires # web.store.ses[a].expires
               timed == IF limited THEN ScheduleExpiry(v, t, a) ELSE v
           IN  /\ web' = TryStartNext(timed, t) /\ now' = now
               /\ web.store.count + 1 \in SessionIds
               /\ Good(now, timed, t)
<1> DEFINE s == web.store.count + 1
           t == Creator(s)
           a == ActiveId(web)
           m == Create(web.store, u, d, now)
           v == [web EXCEPT !.store = m]
           limited == a # NoSession /\ v.store.ses[a].expires # web.store.ses[a].expires
           c == ScheduleExpiry(v, t, a)
           timed == IF limited THEN c ELSE v
<1>1. CanCreate(web.store, u) /\ web' = TryStartNext(timed, t) /\ now' = now
  BY DEF CreateSession
<1>2. StoreOK(web.store) /\ SameOwner(web.store, m)
  BY <1>1, CreateOK DEF TimersSet, LockOrder, Order
<1>3. s \in SessionIds
  BY <1>1, <1>2, StoreFacts, BoundAssumption DEF StoreOK, CanCreate, SessionIds
<1>4. t \in Tasks /\ Kind(t) = "create"
  BY <1>3, TaskFacts
<1>5. Timely(now, web.store, m)
  BY <1>1, <1>2, CreateTimely DEF TimersSet, Fine, Punctual
<1>6. Good(now, web, t)
  BY <1>4, Resuming
<1> HIDE DEF m, t
<1>7. Ready(now, v, t) /\ v.store = m /\ v.tasks = web.tasks
  BY <1>5, <1>6, StoreReady DEF Good
<1> HIDE DEF v
<1>8. Alarm(m) # t
  BY <1>4, TaskFacts DEF Alarm
<1>9. ASSUME limited PROVE Good(now, c, t)
  <2>1. ActiveIs(m, "active") /\ m.active = a /\ Due(m) # Due(web.store)
    BY <1>2, <1>7, <1>9 DEF SameOwner, ActiveIs, ActiveId, Due
  <2>2. Due(m) # NoTime => Due(m) <= Horizon(m)
    BY <1>5, <2>1 DEF Timely
  <2> QED
    BY <1>7, <1>8, <2>1, <2>2, ScheduleExpiryGood
<1>10. ASSUME ~limited PROVE Good(now, v, t)
  <2>1. m.active = web.store.active /\ Due(m) = Due(web.store)
    BY <1>2, <1>7, <1>10 DEF SameOwner, ActiveIs, ActiveId, Due
  <2> QED
    BY <1>6, <1>7, <2>1 DEF Good, Timed, Alarm, Pc
<1>11. Good(now, timed, t)
  BY <1>9, <1>10
<1> QED
  BY <1>1, <1>3, <1>11 DEF v, m, t

LEMMA CreateFine ==
    ASSUME TimersSet, NEW u \in Users, NEW d \in Demos, CreateSession(u, d)
    PROVE  Fine(now, web)'
BY CreateGood, TryStartNextFine

LEMMA CancelGood ==
    ASSUME TimersSet, NEW u \in Users, NEW s \in SessionIds, CancelSession(u, s)
    PROVE  Good(now, web', Ender(s)) /\ now' = now
<1> DEFINE t == Ender(s)
           a == ActiveId(web)
           m == Cancel(web.store, s)
           v == [web EXCEPT !.store = m]
           lifted == a # NoSession /\ v.store.ses[a].expires # web.store.ses[a].expires
           c == ScheduleExpiry(v, t, a)
<1>1. CanCancel(web.store, u, s) /\ web' = (IF lifted THEN c ELSE v) /\ now' = now
  BY DEF CancelSession
<1>2. StoreOK(web.store) /\ SameOwner(web.store, m)
  BY <1>1, CancelOK DEF TimersSet, LockOrder, Order
<1>4. t \in Tasks /\ Kind(t) = "end"
  BY TaskFacts
<1>5. Timely(now, web.store, m)
  BY <1>1, <1>2, CancelTimely DEF TimersSet, Fine, Punctual
<1>6. Good(now, web, t)
  BY <1>4, Resuming
<1> HIDE DEF m, t
<1>7. Ready(now, v, t) /\ v.store = m /\ v.tasks = web.tasks
  BY <1>5, <1>6, StoreReady DEF Good
<1> HIDE DEF v
<1>8. Alarm(m) # t
  BY <1>4, TaskFacts DEF Alarm
<1>9. ASSUME lifted PROVE Good(now, c, t)
  <2>1. ActiveIs(m, "active") /\ m.active = a /\ Due(m) # Due(web.store)
    BY <1>2, <1>7, <1>9 DEF SameOwner, ActiveIs, ActiveId, Due
  <2>2. Due(m) # NoTime => Due(m) <= Horizon(m)
    BY <1>5, <2>1 DEF Timely
  <2> QED
    BY <1>7, <1>8, <2>1, <2>2, ScheduleExpiryGood
<1>10. ASSUME ~lifted PROVE Good(now, v, t)
  <2>1. m.active = web.store.active /\ Due(m) = Due(web.store)
    BY <1>2, <1>7, <1>10 DEF SameOwner, ActiveIs, ActiveId, Due
  <2> QED
    BY <1>6, <1>7, <2>1 DEF Good, Timed, Alarm, Pc
<1>11. Good(now, web', t)
  BY <1>1, <1>9, <1>10
<1> QED
  BY <1>1, <1>11 DEF t

LEMMA CancelFine ==
    ASSUME TimersSet, NEW u \in Users, NEW s \in SessionIds, CancelSession(u, s)
    PROVE  Fine(now, web)'
BY CancelGood, TimedFacts DEF Good, Ready, Fine

LEMMA EndFine ==
    ASSUME TimersSet, NEW u \in Users, NEW s \in SessionIds, EndSession(u, s)
    PROVE  Fine(now, web)'
<1> DEFINE t == Ender(s)
           m == BeginEnd(web.store, "user_ended")
           v == [web EXCEPT !.store = m]
           c == CancelExpiry(v, t)
<1>1. CanEndOnBoard(web.store, u, s) /\ web' = Acquire(c, t) /\ now' = now
  BY DEF EndSession
<1>2. web.store.active # NoSession /\ StoreOK(web.store)
  BY <1>1 DEF CanEndOnBoard, IsActive, TimersSet, LockOrder, Order
<1>3. Timely(now, web.store, m) /\ Due(m) = NoTime
  BY <1>2, BeginEndTimely DEF SessionEndReason
<1> HIDE DEF m
<1>4. t \in Tasks /\ Kind(t) = "end"
  BY TaskFacts
<1> HIDE DEF t
<1>5. Ready(now, v, t) /\ v.store = m
  BY <1>3, <1>4, Resuming, StoreReady
<1> HIDE DEF v
<1>6. Ready(now, c, t) /\ c.store = m
  BY <1>5, CancelExpiryReady
<1> HIDE DEF c
<1>7. Timed(c, t)
  BY <1>3, <1>6 DEF Timed
<1> QED
  BY <1>1, <1>4, <1>6, <1>7, AcquireFine DEF LockKinds

LEMMA OpenFine ==
    ASSUME TimersSet, NEW s \in SessionIds, OpenConnection(s)
    PROVE  Fine(now, web)'
<1> DEFINE c == CancelDisconnect(web, NoTask, s)
           l == [c.counts EXCEPT ![s] = @ + 1]
           v == [c EXCEPT !.counts = l]
<1>1. web' = v /\ now' = now
  BY DEF OpenConnection
<1>2. Good(now, web, Watch)
  BY TaskFacts, Resuming
<1>3. Ready(now, c, Watch) /\ Timed(c, Watch)
  BY <1>2, CancelDisconnectReady DEF Good
<1> HIDE DEF c, l
<1>4. IsWeb(v) /\ v.store = c.store /\ v.tasks = c.tasks
  BY <1>3 DEF Ready, Runs, IsWeb
<1> HIDE DEF v
<1>5. Ready(now, v, Watch) /\ Timed(v, Watch)
  BY <1>3, <1>4, SameReady
<1> QED
  BY <1>1, <1>5, TimedFacts DEF Ready, Fine

LEMMA CloseFine ==
    ASSUME TimersSet, NEW s \in SessionIds, CloseConnection(s)
    PROVE  Fine(now, web)'
<1> DEFINE left == IF web.counts[s] > 0 THEN web.counts[s] - 1 ELSE 0
           l == [web.counts EXCEPT ![s] = left]
           v == [web EXCEPT !.counts = l]
           c == CancelDisconnect(v, NoTask, s)
           k == Suspended("sleep", s)
           b == c.disc \cup {s}
           x == ScheduleDisconnect(v, s)
           d == Put(c.tasks, Disconnector(s), k)
           y == [c EXCEPT !.disc = b]
           z == [y EXCEPT !.tasks = d]
<1>1. web' \in {v, x} /\ now' = now
  BY DEF CloseConnection
<1>2. Good(now, web, Watch)
  BY TaskFacts, Resuming
<1> HIDE DEF l
<1>3. IsWeb(v) /\ v.store = web.store /\ v.tasks = web.tasks
  BY <1>2 DEF Good, Ready, Runs, IsWeb
<1> HIDE DEF v
<1>4. Good(now, v, Watch)
  BY <1>2, <1>3, SameReady DEF Good
<1>5. Good(now, c, Watch)
  BY <1>4, CancelDisconnectReady DEF Good
<1>6. x = [c EXCEPT !.disc = b, !.tasks[Disconnector(s)] = k]
  BY DEF ScheduleDisconnect
<1> HIDE DEF c, x, k, b
<1>7. x = z
  <2>1. [c EXCEPT !.disc = b, !.tasks[Disconnector(s)] = k] = [c EXCEPT !.disc = b, !.tasks = d]
    BY <1>5 DEF Put, IsWeb, Good, Ready, Runs
  <2> QED
    BY <1>6, <2>1
<1> HIDE DEF d
<1>8. IsWeb(y) /\ y.store = c.store
  BY <1>5 DEF Good, Ready, Runs, IsWeb
<1> HIDE DEF y
<1>9. z.store = c.store /\ z.tasks = d
  BY <1>8 DEF IsWeb
<1> HIDE DEF z
<1>10. \A t \in Tasks : Kind(t) = "expiry" => Pc(z, t) = Pc(c, t)
  BY <1>5, <1>9, TaskFacts DEF d, Put, Pc, Good, Ready, Runs
<1>11. Punctual(now, z) /\ Timed(z, Watch)
  BY <1>5, <1>9, <1>10, SameAlarms DEF Good, Ready
<1>12. Fine(now, z) /\ Fine(now, v)
  BY <1>4, <1>11, TimedFacts DEF Good, Ready, Fine
<1> QED
  BY <1>1, <1>7, <1>12

\* The clock stays within the horizon.
LEMMA TickFine == ASSUME TimersSet, Tick PROVE Fine(now, web)'
<1> DEFINE h == Horizon(web.store)
<1>1. web' = web /\ now' = now + 1 /\ now \in Nat
  BY DEF Tick, TimersSet, LockOrder
<1>2. h \in Int /\ MaxTime <= h /\ MaxTime \in Nat
  BY HorizonFacts, BoundsAssumption DEF TimersSet, LockOrder, Order, Fine, Punctual
<1>3. now + 1 <= h
  <2>1. CASE now < MaxTime
    BY <1>1, <1>2, <2>1
  <2>2. ASSUME NEW s \in SessionIds, NEW due \in Deadlines,
               due > now, Pc(web, Expirer(s, due)) = "sleep"
        PROVE  now + 1 <= h
    <3>1. Expirer(s, due) \in Tasks /\ Kind(Expirer(s, due)) = "expiry" /\ Expirer(s, due)[3] = due
      BY TaskFacts DEF Tasks
    <3>2. due <= h
      BY <2>2, <3>1 DEF TimersSet, Fine, Punctual
    <3>3. due \in Int
      BY DEF Deadlines
    <3> QED
      BY <1>1, <1>2, <2>2, <3>2, <3>3
  <2> QED
    BY <2>1, <2>2 DEF Tick
<1> HIDE DEF h
<1>4. Clocked(now + 1, web.store)
  <2> DEFINE m == web.store
  <2>1. m.active # NoSession => m.ses[m.active].started \in Int
    <3>1. m.active # NoSession => m.ses[m.active] \in DemoSession
      BY StoreFacts DEF TimersSet, LockOrder, Order, StoreOK
    <3> QED
      BY <3>1 DEF DemoSession, Time, NoTime
  <2>2. Clocked(now, m)
    BY DEF TimersSet, Fine, Punctual
  <2> HIDE DEF m
  <2>3. Clocked(now + 1, m)
    BY <1>1, <2>1, <2>2 DEF Clocked, ActiveIs
  <2> QED
    BY <2>3 DEF m
<1>5. Fine(now + 1, web)
  BY <1>1, <1>3, <1>4 DEF TimersSet, Fine, Punctual, h
<1> QED
  BY <1>1, <1>5

\* A timer that fires is that of the owner, or the owner has another one.
LEMMA ExpiryFine ==
    ASSUME TimersSet, NEW s \in SessionIds, NEW due \in Deadlines, ExpiryFires(s, due)
    PROVE  Fine(now, web)'
<1> DEFINE t == Expirer(s, due)
           match == ActiveId(web) = s /\ ActiveIs(web.store, "active") /\ ActiveSession(web).expires = due
<1>1. Pc(web, t) = "sleep" /\ web' = (IF match THEN Acquire(web, t) ELSE At(web, t, Done)) /\ now' = now
  BY DEF ExpiryFires
<1>2. t \in Tasks /\ Kind(t) \in LockKinds /\ Subject(t) = s /\ t[3] = due
  BY TaskFacts DEF Tasks, LockKinds
<1>3. Ready(now, web, t)
  BY <1>1, <1>2, Resuming
<1>4. CASE match
  <2>1. Alarm(web.store) = t
    BY <1>4 DEF Alarm, Due, ActiveId, ActiveSession
  <2> QED
    BY <1>1, <1>2, <1>3, <1>4, <2>1, AcquireFine
<1>5. CASE ~match
  <2>1. due # NoTime
    BY DEF Deadlines, NoTime
  <2>2. ASSUME Alarm(web.store) = t PROVE FALSE
    <3>1. web.store.active = s /\ Due(web.store) = due
      BY <1>2, <2>2, TaskFacts DEF Alarm
    <3> QED
      BY <1>5, <2>1, <3>1 DEF Due, ActiveId, ActiveSession
  <2>3. Good(now, web, t)
    BY <1>3, <2>2 DEF Good, Timed, TimersSet, Fine
  <2>4. Done.pc # "sleep"
    BY DEF Done, Suspended
  <2> QED
    BY <1>1, <1>5, <2>3, <2>4, AtFine
<1> QED
  BY <1>4, <1>5

LEMMA DisconnectFine ==
    ASSUME TimersSet, NEW s \in SessionIds, DisconnectFires(s)
    PROVE  Fine(now, web)'
<1> DEFINE t == Disconnector(s)
<1>1. web' \in {Acquire(web, t), Return(web, t)} /\ now' = now
  BY DEF DisconnectFires
<1>2. t \in Tasks /\ Kind(t) = "disconnect"
  BY TaskFacts
<1> HIDE DEF t
<1>3. Good(now, web, t)
  BY <1>2, Resuming
<1> QED
  BY <1>1, <1>2, <1>3, AcquireFine, ReturnFine DEF Good, LockKinds

LEMMA TakeLockFine ==
    ASSUME TimersSet, NEW t \in Tasks, TakeLock(t)
    PROVE  Fine(now, web)'
<1>1. Pc(web, t) = "lock" /\ web' = Locked(web, t) /\ now' = now
  BY DEF TakeLock
<1>2. Kind(t) \in LockKinds
  BY <1>1, TaskFacts DEF TimersSet, LockOrder, Order, Entitled, InFlow
<1>3. Ready(now, web, t) /\ (Kind(t) = "end" => Timed(web, t))
  BY <1>1, Resuming DEF Good
<1> QED
  BY <1>1, <1>2, <1>3, LockedFine

LEMMA WatchFine == ASSUME TimersSet, WatchEvent PROVE Fine(now, web)'
<1>1. web' = HandleBoardState(web, Head(events)) /\ now' = now
  BY DEF WatchEvent
<1> QED
  BY <1>1, Resuming, TaskFacts, HandleBoardStateFine

LEMMA AnsweredFine ==
    ASSUME TimersSet, NEW t \in Tasks, Answered(t)
    PROVE  Fine(now, web)'
<1> DEFINE s == web.tasks[t].ses
           pc == web.tasks[t].pc
           ok == web.tasks[t].call = "ok"
           f == web.tasks[t].ans
           seen == [web EXCEPT !.fpga = f]
<1>1. /\ Pc(web, t) = pc /\ pc \in Calling /\ now' = now
      /\ web' = CASE pc = "pl" /\ ok    -> ProgramPS(web, t, s)
                  [] pc = "ps" /\ ok    -> Programmed(web, t, s)
                  [] pc \in {"pl", "ps"} /\ ~ok -> StartError(web, t, s)
                  [] pc = "failreset"   -> TryStartNext(IF ok THEN seen ELSE web, t)
                  [] pc = "reset"       -> Ended(web, t)
                  [] pc = "reservedreset" -> ProblemEnded(web)
  BY DEF Answered, Pc
<1> HIDE DEF s, ok, seen, pc, f
<1>2. Good(now, web, t)
  BY <1>1, Resuming DEF Calling
<1>3. Good(now, seen, t)
  <2>1. IsWeb(seen) /\ seen.store = web.store /\ seen.tasks = web.tasks
    BY <1>2 DEF Good, Ready, Runs, IsWeb, seen
  <2> QED
    BY <1>2, <2>1, SameReady DEF Good
<1>4. CASE pc = "pl"
  <2>1. web' = IF ok THEN ProgramPS(web, t, s) ELSE StartError(web, t, s)
    BY <1>1, <1>4
  <2> QED
    BY <1>1, <1>2, <2>1, ProgramPSFine, StartErrorFine
<1>5. CASE pc = "ps"
  <2>1. web' = IF ok THEN Programmed(web, t, s) ELSE StartError(web, t, s)
    BY <1>1, <1>5
  <2> QED
    BY <1>1, <1>2, <2>1, ProgrammedFine, StartErrorFine
<1>6. CASE pc = "failreset"
  <2>1. web' = TryStartNext(IF ok THEN seen ELSE web, t)
    BY <1>1, <1>6
  <2> QED
    BY <1>1, <1>2, <1>3, <2>1, TryStartNextFine
<1>7. CASE pc = "reset"
  <2>1. web' = Ended(web, t)
    BY <1>1, <1>7
  <2> QED
    BY <1>1, <1>2, <2>1, EndedFine DEF Good
<1>8. CASE pc = "reservedreset"
  <2>1. web' = ProblemEnded(web)
    BY <1>1, <1>8
  <2>2. Ready(now, web, Watch)
    BY Resuming, TaskFacts
  <2> QED
    BY <1>1, <2>1, <2>2, ProblemEndedFine
<1> QED
  BY <1>1, <1>4, <1>5, <1>6, <1>7, <1>8 DEF Calling

LEMMA RuntimeUpFine ==
    ASSUME TimersSet, NEW t \in Tasks, RuntimeUp(t)
    PROVE  Fine(now, web)'
<1> DEFINE s == web.tasks[t].ses
           v == [web EXCEPT !.runtime = s]
<1>1. Pc(web, t) = "rt" /\ web' = Started(v, t, s) /\ now' = now
  BY DEF RuntimeUp
<1> HIDE DEF s
<1>2. Good(now, web, t)
  BY <1>1, Resuming
<1>3. IsWeb(v) /\ v.store = web.store /\ v.tasks = web.tasks
  BY <1>2 DEF Good, Ready, Runs, IsWeb
<1> HIDE DEF v
<1>4. Good(now, v, t)
  BY <1>2, <1>3, SameReady DEF Good
<1> QED
  BY <1>1, <1>4, StartedFine

LEMMA RuntimeFailsFine ==
    ASSUME TimersSet, NEW t \in Tasks, RuntimeFails(t)
    PROVE  Fine(now, web)'
<1>1. Pc(web, t) = "rt" /\ web' = StartError(web, t, web.tasks[t].ses) /\ now' = now
  BY DEF RuntimeFails
<1>2. Good(now, web, t)
  BY <1>1, Resuming
<1> QED
  BY <1>1, <1>2, StartErrorFine

LEMMA RuntimeDownFine ==
    ASSUME TimersSet, NEW t \in Tasks, RuntimeDown(t)
    PROVE  Fine(now, web)'
<1> DEFINE s == web.tasks[t].ses
           pc == web.tasks[t].pc
<1>1. /\ Pc(web, t) = pc /\ pc \in Stopping /\ now' = now
      /\ web' = CASE pc = "failstop"     -> StartFailed(web, t, s)
                  [] pc = "latestop"     -> Return(web, t)
                  [] pc = "stop"         -> Send(web, t, "reset", s)
                  [] pc = "problemstop"  -> ProblemStopped(web, s, FALSE)
                  [] pc = "reservedstop" -> ProblemStopped(web, s, TRUE)
  BY DEF RuntimeDown, Pc
<1> HIDE DEF s, pc
<1>2. Good(now, web, t) /\ Good(now, web, Watch)
  BY <1>1, Resuming, TaskFacts DEF Stopping
<1>3. Fine(now, StartFailed(web, t, s)) /\ Fine(now, Return(web, t)) /\ Fine(now, Send(web, t, "reset", s))
  BY <1>2, StartFailedFine, ReturnFine, SendFine
<1>4. Fine(now, ProblemStopped(web, s, FALSE)) /\ Fine(now, ProblemStopped(web, s, TRUE))
  BY <1>2, ProblemStoppedFine
<1> QED
  BY <1>1, <1>3, <1>4 DEF Stopping

LEMMA PlacesFine ==
    ASSUME NEW n, NEW w, NEW v, SamePlaces(w, v), Fine(n, w) PROVE Fine(n, v)
BY SameAlarms DEF SamePlaces, Fine

\* A new process has no owner to time, and the clock does not go back.
LEMMA RestartFine == ASSUME TimersSet, WebRestarts PROVE Fine(now, web)'
<1> DEFINE m == Forgotten(web.store)
           s == StartedManager(m, ViewOf(agent))
           c == [i \in DOMAIN web.calls |-> [web.calls[i] EXCEPT !.by = NoTask]]
           z == web.zombies \cup UNION {Thread(web.tasks[t]) : t \in Tasks}
           u == [s EXCEPT !.calls = c]
           v == [u EXCEPT !.zombies = z]
<1>1. web' = v /\ now' = now
  BY DEF WebRestarts
<1>2. StoreOK(m) /\ Horizon(web.store) <= Horizon(m) /\ m.active = NoSession
  BY ForgottenTimely DEF TimersSet, LockOrder, Order
<1> HIDE DEF m, c, z
<1>3. IsWeb(s) /\ s.store = m /\ s.tasks = [t \in Tasks |-> Rest(t)]
  BY DEF StartedManager, IsWeb
<1> HIDE DEF s
<1>4. IsWeb(u) /\ u.store = m /\ u.tasks = [t \in Tasks |-> Rest(t)]
  BY <1>3 DEF IsWeb
<1> HIDE DEF u
<1>5. v.store = m /\ v.tasks = [t \in Tasks |-> Rest(t)]
  BY <1>4 DEF IsWeb
<1> HIDE DEF v
<1>6. now <= Horizon(m) /\ MaxTime <= Horizon(m) /\ now \in Nat
  BY <1>2, HorizonFacts, BoundsAssumption DEF TimersSet, Fine, Punctual, LockOrder, Order
<1>7. Fine(now, v)
  BY <1>2, <1>5, <1>6, RestFine
<1> QED
  BY <1>1, <1>7

LEMMA TimerStep == TimersSet /\ [Next]_vars => TimersSet'
<1> SUFFICES ASSUME TimersSet, [Next]_vars PROVE Fine(now, web)'
  BY LockStep DEF TimersSet
<1>1. CASE UserActions
  BY <1>1, CreateFine, CancelFine, EndFine, OpenFine, CloseFine DEF UserActions
<1>2. CASE Tick
  BY <1>2, TickFine
<1>3. CASE Timers
  BY <1>3, ExpiryFine, DisconnectFine DEF Timers
<1>4. CASE WatchEvent
  BY <1>4, WatchFine
<1>5. CASE \E t \in Tasks : Replies(t)
  BY <1>5, TakeLockFine, AnsweredFine, RuntimeUpFine, RuntimeDownFine DEF Replies
<1>6. CASE \E t \in Tasks : RuntimeFails(t)
  BY <1>6, RuntimeFailsFine
<1>7. CASE WebRestarts
  BY <1>7, RestartFine
<1>8. CASE \/ AgentServes \/ AgentFails \/ AgentReports
           \/ \E s \in SessionIds : ZombieUp(s) \/ ZombieDown(s)
           \/ Environment /\ ~WebRestarts
           \/ UNCHANGED vars
  <2>1. SamePlaces(web, web') /\ now' = now
    BY <1>8, SamePlacesNow DEF TimersSet
  <2>2. Fine(now, web')
    BY <2>1, SameAlarms DEF TimersSet, Fine, SamePlaces
  <2> QED
    BY <2>1, <2>2
<1> QED
  BY <1>1, <1>2, <1>3, <1>4, <1>5, <1>6, <1>7, <1>8 DEF Next, Environment

LEMMA TimerInit == Init => TimersSet
<1> SUFFICES ASSUME Init PROVE Fine(now, web)
  BY LockInit DEF TimersSet
<1>1. web.store = EmptyStore /\ web.tasks = [t \in Tasks |-> Rest(t)] /\ now = 0
  BY DEF Init, StartedManager
<1>2. Horizon(EmptyStore) = MaxTime
  <2> DEFINE m == EmptyStore
  <2>1. m.count = 0 /\ m.queue = << >>
    BY DEF EmptyStore
  <2> HIDE DEF m
  <2>2. Chances(m) = MaxSessions
    BY <2>1, BoundAssumption DEF Chances
  <2>3. MaxSessions - MaxSessions = 0 /\ 0 * Contended = 0 /\ MaxTime + 0 = MaxTime
    BY BoundAssumption, BoundsAssumption, ContendedAssumption
  <2>4. Horizon(m) = MaxTime
    BY <2>2, <2>3 DEF Horizon
  <2> QED
    BY <2>4 DEF m
<1>3. EmptyStore.active = NoSession
  BY DEF EmptyStore
<1>4. 0 <= MaxTime /\ MaxTime <= Horizon(EmptyStore)
  BY <1>2, BoundsAssumption
<1> QED
  BY <1>1, <1>2, <1>3, <1>4, RestFine

\* An active session with a deadline has a task that ends it for exactly that
\* deadline, asleep or waiting for the flow lock, although _expiry_task is
\* overwritten, cancelled and set to None from four coroutines.
THEOREM DeadlineAlwaysHasTimer == Spec => []DeadlineHasTimer
<1>1. TimersSet => DeadlineHasTimer
  <2> SUFFICES ASSUME TimersSet, ActiveIs(web.store, "active"), ActiveSession(web).expires # NoTime
               PROVE  Pc(web, Expirer(ActiveId(web), ActiveSession(web).expires)) \in {"sleep", "lock"}
    BY DEF DeadlineHasTimer
  <2>1. Due(web.store) = ActiveSession(web).expires /\ web.store.active = ActiveId(web)
    BY DEF Due, ActiveSession, ActiveId
  <2> QED
    BY <2>1 DEF TimersSet, Fine, Timed, Alarm
<1>2. Spec => []TimersSet
  BY TimerInit, TimerStep, PTL DEF Spec
<1> QED
  BY <1>1, <1>2, PTL

\* The clock stays among the deadlines timers are named by: the bounds of Tick
\* and of Deadlines cut no timer off.
THEOREM ClockStaysBounded == Spec => [](now \in Deadlines)
<1>1. TimersSet => now \in Deadlines
  <2> SUFFICES ASSUME TimersSet PROVE now \in Deadlines
    OBVIOUS
  <2>1. now \in Nat /\ now <= Horizon(web.store)
    BY DEF TimersSet, Fine, Punctual
  <2>2. Horizon(web.store) \in Int /\ Horizon(web.store) <= MaxTime + MaxSessions * Contended
    BY HorizonFacts DEF TimersSet, LockOrder, Order
  <2>3. MaxTime + MaxSessions * Contended \in Int
    BY BoundAssumption, BoundsAssumption, ContendedAssumption
  <2> QED
    BY <2>1, <2>2, <2>3 DEF Deadlines
<1>2. Spec => []TimersSet
  BY TimerInit, TimerStep, PTL DEF Spec
<1> QED
  BY <1>1, <1>2, PTL
=============================================================================
