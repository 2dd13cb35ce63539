--------------------------- MODULE SessionsProofs ---------------------------
(***************************************************************************)
(* Proofs about SessionManager for every set of users, every bound and     *)
(* every contended window.                                                 *)
(***************************************************************************)
EXTENDS Sessions, SequenceTheorems, TLAPS

-----------------------------------------------------------------------------
(* The queue as a sequence of ids. *)

\* create appends an id above all that wait: the order is kept.
LEMMA AppendToQueue ==
    ASSUME NEW q \in Seq(SessionIds), Increasing(q),
           NEW i \in SessionIds, \A k \in 1..Len(q) : q[k] < i
    PROVE  /\ Append(q, i) \in Seq(SessionIds)
           /\ Append(q, i) # << >>
           /\ Increasing(Append(q, i))
           /\ \A j \in SessionIds : Contains(Append(q, i), j) <=> Contains(q, j) \/ j = i
<1>. DEFINE r == Append(q, i)
<1>1. /\ r \in Seq(SessionIds)
      /\ Len(r) = Len(q) + 1
      /\ r[Len(q) + 1] = i
      /\ \A k \in 1..Len(q) : r[k] = q[k]
  OBVIOUS
<1>. HIDE DEF r
<1>2. Len(q) \in Nat /\ \A k \in 1..Len(q) : q[k] \in SessionIds
  OBVIOUS
<1>3. Increasing(r)
  BY <1>1, <1>2 DEF Increasing, SessionIds
<1>4. r # << >>
  BY <1>1, <1>2
<1>5. \A j \in SessionIds : Contains(r, j) <=> Contains(q, j) \/ j = i
  BY <1>1, <1>2 DEF Contains
<1>. QED  BY <1>1, <1>3, <1>4, <1>5 DEF r

\* begin_next pops the head: what remains is in order and is what waited,
\* less the head.
LEMMA PopFromQueue ==
    ASSUME NEW q \in Seq(SessionIds), Increasing(q), q # << >>
    PROVE  /\ Head(q) \in SessionIds
           /\ Contains(q, Head(q))
           /\ Tail(q) \in Seq(SessionIds)
           /\ Increasing(Tail(q))
           /\ \A j \in SessionIds : Contains(Tail(q), j) <=> Contains(q, j) /\ j # Head(q)
<1>1. /\ Head(q) \in SessionIds
      /\ Head(q) = q[1]
      /\ Len(q) \in Nat \ {0}
      /\ \A k \in 1..Len(q) : q[k] \in SessionIds
  OBVIOUS
<1>2. /\ Tail(q) \in Seq(SessionIds)
      /\ Len(Tail(q)) = Len(q) - 1
      /\ \A k \in 1..Len(Tail(q)) : Tail(q)[k] = q[k + 1]
  BY HeadTailProperties
<1>3. Increasing(Tail(q))
  BY <1>1, <1>2 DEF Increasing
<1>4. Contains(q, Head(q))
  BY <1>1 DEF Contains
<1>5. ASSUME NEW j \in SessionIds
      PROVE  Contains(Tail(q), j) <=> Contains(q, j) /\ j # Head(q)
  <2>1. ASSUME Contains(Tail(q), j) PROVE Contains(q, j) /\ j # Head(q)
    <3>1. PICK k \in 1..Len(Tail(q)) : Tail(q)[k] = j
      BY <2>1 DEF Contains
    <3>2. k + 1 \in 1..Len(q) /\ q[k + 1] = j /\ q[1] < q[k + 1]
      BY <1>1, <1>2, <3>1 DEF Increasing
    <3>. QED  BY <3>2, <1>1 DEF Contains, SessionIds
  <2>2. ASSUME Contains(q, j), j # Head(q) PROVE Contains(Tail(q), j)
    <3>1. PICK k \in 1..Len(q) : q[k] = j
      BY <2>2 DEF Contains
    <3>2. k - 1 \in 1..Len(Tail(q)) /\ Tail(q)[k - 1] = j
      BY <1>1, <1>2, <2>2, <3>1
    <3>. QED  BY <3>2 DEF Contains
  <2>. QED  BY <2>1, <2>2
<1>. QED  BY <1>1, <1>2, <1>3, <1>4, <1>5

\* deque.remove takes exactly the one element out and moves those behind it
\* up by one.
LEMMA RemoveShape ==
    ASSUME NEW q \in Seq(SessionIds), Increasing(q),
           NEW i \in SessionIds, Contains(q, i)
    PROVE  \E k \in 1..Len(q) :
              /\ q[k] = i
              /\ RemoveFromQueue(q, i) = [j \in 1..(Len(q) - 1) |->
                                            IF j < k THEN q[j] ELSE q[j + 1]]
<1>. DEFINE k == Position(q, i)
            r == [j \in 1..(Len(q) - 1) |-> IF j < k THEN q[j] ELSE q[j + 1]]
<1>0. Len(q) \in Nat /\ \A j \in 1..Len(q) : q[j] \in SessionIds
  OBVIOUS
<1>1. k \in 1..Len(q) /\ q[k] = i
  <2>1. PICK p \in 1..Len(q) : q[p] = i
    BY DEF Contains
  <2>2. \A j \in 1..(p - 1) : q[j] # i
    BY <2>1 DEF Increasing, SessionIds
  <2>3. \E m \in 1..Len(q) : q[m] = i /\ \A j \in 1..(m - 1) : q[j] # i
    BY <2>1, <2>2
  <2>. QED  BY <2>3 DEF Position
<1>2. RemoveFromQueue(q, i) = SubSeq(q, 1, k - 1) \o SubSeq(q, k + 1, Len(q))
  BY DEF RemoveFromQueue, RemoveAt
<1>. HIDE DEF k
<1>3. SubSeq(q, 1, k - 1) \o SubSeq(q, k + 1, Len(q)) = r
  <2>. DEFINE a == SubSeq(q, 1, k - 1)
              b == SubSeq(q, k + 1, Len(q))
  <2>1. /\ a \in Seq(SessionIds)
        /\ Len(a) = k - 1
        /\ \A j \in 1..(k - 1) : a[j] = q[j]
    BY <1>0, <1>1, SubSeqProperties
  <2>2. /\ b \in Seq(SessionIds)
        /\ Len(b) = Len(q) - k
        /\ \A j \in 1..(Len(q) - k) : b[j] = q[k + j]
    BY <1>0, <1>1, SubSeqProperties
  <2>. HIDE DEF a, b
  <2>3. /\ a \o b \in Seq(SessionIds)
        /\ Len(a \o b) = Len(q) - 1
        /\ \A j \in 1..(Len(q) - 1) : (a \o b)[j] = IF j < k THEN q[j] ELSE q[j + 1]
    <3>1. /\ a \o b \in Seq(SessionIds)
          /\ Len(a \o b) = Len(a) + Len(b)
          /\ \A j \in 1..(Len(a) + Len(b)) :
                (a \o b)[j] = IF j <= Len(a) THEN a[j] ELSE b[j - Len(a)]
      <4>. HIDE DEF r
      <4>. QED  BY <2>1, <2>2, ConcatProperties
    <3>2. Len(a \o b) = Len(q) - 1
      BY <1>0, <1>1, <2>1, <2>2, <3>1
    <3>3. ASSUME NEW j \in 1..(Len(q) - 1)
          PROVE  (a \o b)[j] = IF j < k THEN q[j] ELSE q[j + 1]
      <4>1. CASE j < k
        BY <1>0, <1>1, <2>1, <2>2, <3>1, <4>1
      <4>2. CASE ~(j < k)
        <5>1. (a \o b)[j] = b[j - (k - 1)]
          BY <1>0, <1>1, <2>1, <2>2, <3>1, <4>2
        <5>2. j - (k - 1) \in 1..(Len(q) - k) /\ k + (j - (k - 1)) = j + 1
          BY <1>0, <1>1, <4>2
        <5>3. b[j - (k - 1)] = q[j + 1]
          BY <2>2, <5>2
        <5>. QED  BY <4>2, <5>1, <5>3
      <4>. QED  BY <4>1, <4>2
    <3>. QED  BY <3>1, <3>2, <3>3
  <2>. DEFINE c == a \o b
  <2>4. /\ c \in Seq(SessionIds)
        /\ DOMAIN c = 1..(Len(q) - 1)
        /\ \A j \in 1..(Len(q) - 1) : c[j] = r[j]
    BY <2>3, LenProperties
  <2>. HIDE DEF c
  <2>5. c = [j \in 1..(Len(q) - 1) |-> c[j]]
    BY <2>4, LenProperties
  <2>6. c = r
    BY <2>4, <2>5
  <2>. QED  BY <2>6 DEF a, b, c
<1>. QED  BY <1>1, <1>2, <1>3

\* Cancelling a waiting session keeps the order of the others and loses none.
LEMMA RemoveFromMiddle ==
    ASSUME NEW q \in Seq(SessionIds), Increasing(q),
           NEW i \in SessionIds, Contains(q, i)
    PROVE  /\ RemoveFromQueue(q, i) \in Seq(SessionIds)
           /\ Increasing(RemoveFromQueue(q, i))
           /\ \A j \in SessionIds :
                 Contains(RemoveFromQueue(q, i), j) <=> Contains(q, j) /\ j # i
<1>. DEFINE r == RemoveFromQueue(q, i)
<1>0. Len(q) \in Nat /\ \A j \in 1..Len(q) : q[j] \in SessionIds
  OBVIOUS
<1>1. PICK k \in 1..Len(q) :
         q[k] = i /\ r = [j \in 1..(Len(q) - 1) |-> IF j < k THEN q[j] ELSE q[j + 1]]
  BY RemoveShape
<1>. HIDE DEF r
<1>2. r \in Seq(SessionIds) /\ Len(r) = Len(q) - 1
  BY <1>0, <1>1
<1>3. \A j \in 1..(Len(q) - 1) : r[j] = IF j < k THEN q[j] ELSE q[j + 1]
  BY <1>1
<1>4. Increasing(r)
  <2>1. ASSUME NEW m \in 1..Len(r), NEW n \in 1..Len(r), m < n
        PROVE  r[m] < r[n]
    <3>1. PICK mq \in 1..Len(q) : r[m] = q[mq] /\ mq = IF m < k THEN m ELSE m + 1
      BY <1>0, <1>2, <1>3
    <3>2. PICK nq \in 1..Len(q) : r[n] = q[nq] /\ nq = IF n < k THEN n ELSE n + 1
      BY <1>0, <1>2, <1>3
    <3>3. mq < nq
      BY <2>1, <3>1, <3>2, <1>0, <1>1
    <3>. QED  BY <3>1, <3>2, <3>3 DEF Increasing
  <2>. QED  BY <2>1 DEF Increasing
<1>5. ASSUME NEW j \in SessionIds
      PROVE  Contains(r, j) <=> Contains(q, j) /\ j # i
  <2>1. ASSUME Contains(r, j) PROVE Contains(q, j) /\ j # i
    <3>1. PICK n \in 1..(Len(q) - 1) : r[n] = j
      BY <1>2, <2>1 DEF Contains
    <3>2. PICK m \in 1..Len(q) : q[m] = j /\ m # k
      BY <1>0, <1>3, <3>1
    <3>3. q[m] # q[k]
      BY <1>0, <1>1, <3>2 DEF Increasing, SessionIds
    <3>. QED  BY <1>1, <3>2, <3>3 DEF Contains
  <2>2. ASSUME Contains(q, j), j # i PROVE Contains(r, j)
    <3>1. PICK m \in 1..Len(q) : q[m] = j
      BY <2>2 DEF Contains
    <3>2. CASE m < k
      <4>1. m \in 1..Len(r) /\ r[m] = j
        BY <1>0, <1>2, <1>3, <3>1, <3>2
      <4>. QED  BY <4>1 DEF Contains
    <3>3. CASE m > k
      <4>1. m - 1 \in 1..Len(r) /\ r[m - 1] = j
        BY <1>0, <1>2, <1>3, <3>1, <3>3
      <4>. QED  BY <4>1 DEF Contains
    <3>. QED  BY <1>0, <1>1, <2>2, <3>1, <3>2, <3>3
  <2>. QED  BY <2>1, <2>2
<1>. QED  BY <1>2, <1>4, <1>5 DEF r

-----------------------------------------------------------------------------
(* The invariants of the sessions. *)

\* What the invariants say of one session, for use in the steps below.
LEMMA InvFacts ==
    ASSUME SessionsInv
    PROVE  /\ store \in Store
           /\ store.ses \in [SessionIds -> DemoSession]
           /\ store.count \in 0..MaxSessions
           /\ store.queue \in Seq(SessionIds)
           /\ store.active \in SessionIds \cup {NoSession}
           /\ now \in 0..MaxTime
           /\ now \in Nat
<1>. QED  BY TimeAssumption DEF SessionsInv, TypeOK, Store

\* An empty store has the invariants.
LEMMA InitInv == Init => SessionsInv
<1>. SUFFICES ASSUME Init PROVE SessionsInv
  OBVIOUS
<1>1. /\ store.ses = [i \in SessionIds |-> Blank]
      /\ store.count = 0 /\ store.queue = << >> /\ store.active = NoSession /\ now = 0
      /\ \A i \in SessionIds : store.ses[i] = Blank
  BY DEF Init, EmptyStore
<1>2. Blank \in DemoSession
  BY DEF Blank, DemoSession, SessionStatus, Time, NoTime
<1>3. TypeOK
  BY <1>1, <1>2, BoundAssumption, TimeAssumption DEF TypeOK, Store, Init, EmptyStore, SessionIds
<1>4. Allocated
  BY <1>1 DEF Allocated, SessionIds
<1>5. QueueInOrder /\ QueueHoldsTheWaiting
  BY <1>1 DEF QueueInOrder, Increasing, QueueHoldsTheWaiting, Contains, Blank
<1>6. SingleOwner
  BY <1>1 DEF SingleOwner, OnBoard, Blank, NoSession, SessionIds
<1>7. OneLiveSessionPerUser /\ ClockStartsWhenActive /\ ReasonOnlyAtEnd
  BY <1>1 DEF OneLiveSessionPerUser, ClockStartsWhenActive, ReasonOnlyAtEnd, Blank
<1>8. LimitedIffContended /\ MinimumWindow
  BY <1>1 DEF LimitedIffContended, MinimumWindow, ActiveIs, Blank
<1>. QED  BY <1>3, <1>4, <1>5, <1>6, <1>7, <1>8 DEF SessionsInv

\* create adds one session at the end of the line, and may give the active
\* one its deadline: the only call that makes the board contended.
LEMMA CreateInv ==
    ASSUME SessionsInv, NEW u \in Users, NEW d \in Demos, DoCreate(u, d)
    PROVE  SessionsInv'
<1>. DEFINE n == store.count + 1
            a == store.active
            late == ActiveIs(store, "active") /\ store.ses[a].expires = NoTime
            deadline == ContendedExpiry(store.ses[a], now)
<1>1. /\ store.ses \in [SessionIds -> DemoSession]
      /\ store.count \in Nat /\ n \in SessionIds /\ n <= MaxSessions
      /\ store.queue \in Seq(SessionIds)
      /\ a \in SessionIds \cup {NoSession}
      /\ now \in Nat /\ now' = now
  BY InvFacts, BoundAssumption DEF DoCreate, CanCreate, SessionIds
<1>2. store.ses[n] = Blank /\ n # a /\ StatusOf(store, n) = "unused"
  BY <1>1 DEF SessionsInv, Allocated, SingleOwner, OnBoard, Blank, StatusOf
<1>3. NewSession(u, d) \in DemoSession
  BY DEF NewSession, Blank, DemoSession, SessionStatus, Time, NoTime
<1>4. late => /\ a \in SessionIds
              /\ deadline \in Nat
              /\ store.ses[a].started \in Nat
              /\ deadline >= store.ses[a].started + Contended
  <2>. SUFFICES ASSUME late
                PROVE  /\ a \in SessionIds
                       /\ deadline \in Nat
                       /\ store.ses[a].started \in Nat
                       /\ deadline >= store.ses[a].started + Contended
    OBVIOUS
  <2>1. a \in SessionIds /\ store.ses[a].status = "active"
    BY <1>1 DEF ActiveIs, StatusOf
  <2>2. store.ses[a].started \in Nat
    BY <1>1, <2>1 DEF SessionsInv, ClockStartsWhenActive, DemoSession, Time
  <2>3. deadline = IF now < store.ses[a].started + Contended
                   THEN store.ses[a].started + Contended ELSE now + Contended
    BY <2>2 DEF ContendedExpiry, NoTime
  <2>4. now \in Nat
    BY <1>1
  <2>. HIDE DEF deadline
  <2>5. deadline \in Nat /\ deadline >= store.ses[a].started + Contended
    BY <2>2, <2>3, <2>4, ContendedAssumption
  <2>. QED  BY <2>1, <2>2, <2>5
<1>5. /\ store'.count = n
      /\ store'.queue = Append(store.queue, n)
      /\ store'.active = a
      /\ store'.ses \in [SessionIds -> DemoSession]
      /\ store'.ses[n] = NewSession(u, d)
      /\ \A j \in SessionIds \ {n, a} : store'.ses[j] = store.ses[j]
      /\ a \in SessionIds => store'.ses[a] = IF late THEN [store.ses[a] EXCEPT !.expires = deadline]
                                                     ELSE store.ses[a]
      /\ store' \in Store
  <2>. DEFINE created == CreateWithoutDeadline(store, u, d, now)
              timed == [store.ses[a] EXCEPT !.expires = deadline]
  <2>1. /\ created \in Store
        /\ created.ses = [store.ses EXCEPT ![n] = NewSession(u, d)]
        /\ created.count = n
        /\ created.queue = Append(store.queue, n)
        /\ created.active = a
    <3>1. /\ [store.ses EXCEPT ![n] = NewSession(u, d)] \in [SessionIds -> DemoSession]
          /\ Append(store.queue, n) \in Seq(SessionIds)
          /\ n \in 0..MaxSessions
          /\ store \in Store
      BY <1>1, <1>3, InvFacts
    <3>. QED  BY <3>1 DEF CreateWithoutDeadline, Update, Store
  <2>. HIDE DEF created
  <2>2. CASE ~late
    <3>1. store' = created
      BY <2>2 DEF DoCreate, Create, created
    <3>. QED  BY <1>1, <1>2, <2>1, <2>2, <3>1 DEF Store
  <2>3. CASE late
    <3>1. store' = [created EXCEPT !.ses = [created.ses EXCEPT ![a] = timed]]
      BY <2>3 DEF DoCreate, Create, Update, created
    <3>2. timed \in DemoSession
      BY <1>1, <1>4, <2>3 DEF DemoSession, Time
    <3>3. /\ store' \in Store
          /\ store'.ses = [created.ses EXCEPT ![a] = timed]
          /\ store'.count = n
          /\ store'.queue = Append(store.queue, n)
          /\ store'.active = a
      <4>. HIDE DEF timed
      <4>. QED  BY <1>1, <2>1, <3>1, <3>2 DEF Store
    <3>. QED  BY <1>1, <1>2, <1>4, <2>1, <2>3, <3>3 DEF Store
  <2>. QED  BY <2>2, <2>3
<1>. HIDE DEF late, deadline
<1>6. \A k \in 1..Len(store.queue) : store.queue[k] < n
  <2>. SUFFICES ASSUME NEW k \in 1..Len(store.queue) PROVE store.queue[k] < n
    OBVIOUS
  <2>1. store.queue[k] \in SessionIds /\ Contains(store.queue, store.queue[k])
    BY <1>1 DEF Contains
  <2>2. store.ses[store.queue[k]] # Blank
    BY <2>1 DEF SessionsInv, QueueHoldsTheWaiting, Blank
  <2>. QED  BY <1>1, <2>1, <2>2 DEF SessionsInv, Allocated, SessionIds
<1>7. /\ store'.queue \in Seq(SessionIds)
      /\ store'.queue # << >>
      /\ Increasing(store'.queue)
      /\ \A j \in SessionIds : Contains(store'.queue, j) <=> Contains(store.queue, j) \/ j = n
  <2>1. Increasing(store.queue)
    BY DEF SessionsInv, QueueInOrder
  <2>. QED  BY <1>1, <1>5, <1>6, <2>1, AppendToQueue
<1>8. /\ store'.ses[n].status = "queued" /\ store'.ses[n].user = u
      /\ store'.ses[n].started = NoTime /\ store'.ses[n].expires = NoTime
      /\ store'.ses[n].reason = "none"
  BY <1>5 DEF NewSession, Blank
<1>9. \A j \in SessionIds \ {n} : /\ store'.ses[j].status = store.ses[j].status
                                  /\ store'.ses[j].user = store.ses[j].user
                                  /\ store'.ses[j].started = store.ses[j].started
                                  /\ store'.ses[j].reason = store.ses[j].reason
  <2>. SUFFICES ASSUME NEW j \in SessionIds \ {n}
                PROVE  /\ store'.ses[j].status = store.ses[j].status
                       /\ store'.ses[j].user = store.ses[j].user
                       /\ store'.ses[j].started = store.ses[j].started
                       /\ store'.ses[j].reason = store.ses[j].reason
    OBVIOUS
  <2>1. CASE j = a
    <3>1. store.ses[a] \in DemoSession
      BY <1>1, <2>1
    <3>2. store'.ses[a] = IF late THEN [store.ses[a] EXCEPT !.expires = deadline]
                          ELSE store.ses[a]
      BY <1>5, <2>1
    <3>. QED  BY <2>1, <3>1, <3>2 DEF DemoSession
  <2>2. CASE j # a
    BY <1>5, <2>2
  <2>. QED  BY <2>1, <2>2
<1>10. TypeOK'
  BY <1>1, <1>5, InvFacts DEF TypeOK
<1>11. Allocated'
  <2>1. \A j \in SessionIds \ {n} : (store'.ses[j] = Blank) = (store.ses[j] = Blank)
    <3>. SUFFICES ASSUME NEW j \in SessionIds \ {n}
                  PROVE  (store'.ses[j] = Blank) = (store.ses[j] = Blank)
      OBVIOUS
    <3>1. CASE late /\ j = a
      <4>1. store.ses[j].status = "active" /\ store'.ses[j].status = "active"
        BY <1>9, <3>1 DEF late, ActiveIs, StatusOf
      <4>. QED  BY <4>1 DEF Blank
    <3>2. CASE ~(late /\ j = a)
      BY <1>5, <3>2
    <3>. QED  BY <3>1, <3>2
  <2>2. store'.ses[n] # Blank
    BY <1>8 DEF Blank
  <2>. QED  BY <1>1, <1>5, <2>1, <2>2 DEF SessionsInv, Allocated, SessionIds
<1>12. QueueInOrder' /\ QueueHoldsTheWaiting'
  BY <1>1, <1>2, <1>7, <1>8, <1>9 DEF SessionsInv, QueueInOrder, QueueHoldsTheWaiting, StatusOf
<1>13. SingleOwner'
  BY <1>1, <1>2, <1>5, <1>8, <1>9 DEF SessionsInv, SingleOwner, OnBoard
<1>14. OneLiveSessionPerUser'
  <2>1. \A j \in SessionIds : store.ses[j].user = u => store.ses[j].status = "ended"
    BY DEF DoCreate, CanCreate, Live
  <2>. QED  BY <1>8, <1>9, <2>1 DEF SessionsInv, OneLiveSessionPerUser
<1>15. ClockStartsWhenActive' /\ ReasonOnlyAtEnd'
  <2>1. ReasonOnlyAtEnd'
    BY <1>8, <1>9 DEF SessionsInv, ReasonOnlyAtEnd
  <2>2. ClockStartsWhenActive'
    BY <1>1, <1>2, <1>4, <1>5, <1>8, <1>9
       DEF SessionsInv, ClockStartsWhenActive, late, ActiveIs, StatusOf, DemoSession
  <2>. QED  BY <2>1, <2>2
<1>16. LimitedIffContended'
  <2>. SUFFICES ASSUME a # NoSession, store'.ses[a].status = "active"
                PROVE  store'.ses[a].expires # NoTime
    BY <1>5, <1>7 DEF LimitedIffContended, ActiveIs, StatusOf
  <2>1. a \in SessionIds /\ store.ses[a].status = "active"
    BY <1>1, <1>2, <1>9
  <2>2. CASE late
    BY <1>1, <1>4, <1>5, <2>1, <2>2 DEF NoTime, DemoSession
  <2>3. CASE ~late
    BY <1>5, <2>1, <2>3 DEF late, ActiveIs, StatusOf
  <2>. QED  BY <2>2, <2>3
<1>17. MinimumWindow'
  <2>. SUFFICES ASSUME NEW j \in SessionIds, store'.ses[j].expires # NoTime
                PROVE  /\ store'.ses[j].started # NoTime
                       /\ store'.ses[j].expires >= store'.ses[j].started + Contended
    BY DEF MinimumWindow
  <2>1. CASE late /\ j = a
    BY <1>1, <1>4, <1>5, <2>1 DEF NoTime, DemoSession
  <2>2. CASE ~(late /\ j = a)
    <3>1. store'.ses[j] = store.ses[j]
      BY <1>5, <1>8, <2>2
    <3>. QED  BY <3>1 DEF SessionsInv, MinimumWindow
  <2>. QED  BY <2>1, <2>2
<1>. QED  BY <1>10, <1>11, <1>12, <1>13, <1>14, <1>15, <1>16, <1>17 DEF SessionsInv

\* begin_next hands the board to the head of the line.
LEMMA BeginNextInv ==
    ASSUME SessionsInv, DoBeginNext
    PROVE  SessionsInv'
<1>. DEFINE i == Head(store.queue)
            s == [store.ses[i] EXCEPT !.status = "starting"]
<1>1. /\ i \in SessionIds
      /\ Contains(store.queue, i)
      /\ Tail(store.queue) \in Seq(SessionIds)
      /\ Increasing(Tail(store.queue))
      /\ \A j \in SessionIds : Contains(Tail(store.queue), j) <=> Contains(store.queue, j) /\ j # i
  BY PopFromQueue, InvFacts DEF DoBeginNext, CanBegin, SessionsInv, QueueInOrder
<1>2. store.active = NoSession /\ store.ses[i].status = "queued"
  BY <1>1 DEF DoBeginNext, CanBegin, SessionsInv, QueueHoldsTheWaiting
<1>. HIDE DEF i
<1>3. /\ s \in DemoSession
      /\ s.status = "starting" /\ s.user = store.ses[i].user
      /\ s.started = NoTime /\ s.expires = NoTime /\ s.reason = "none" /\ s # Blank
  BY <1>1, <1>2, InvFacts
     DEF SessionsInv, ClockStartsWhenActive, ReasonOnlyAtEnd, DemoSession, SessionStatus, Blank
<1>. HIDE DEF s
<1>4. /\ store' \in Store
      /\ store'.ses = [store.ses EXCEPT ![i] = s]
      /\ store'.count = store.count
      /\ store'.queue = Tail(store.queue)
      /\ store'.active = i
  <2>1. store' = [store EXCEPT !.queue = Tail(store.queue), !.active = i,
                               !.ses = [store.ses EXCEPT ![i] = s]]
    BY DEF DoBeginNext, BeginNext, Update, i, s
  <2>2. [store.ses EXCEPT ![i] = s] \in [SessionIds -> DemoSession]
    BY <1>1, <1>3, InvFacts
  <2>. QED  BY <1>1, <2>1, <2>2, InvFacts DEF Store
<1>5. /\ store'.ses[i] = s
      /\ \A j \in SessionIds \ {i} : store'.ses[j] = store.ses[j]
  BY <1>1, <1>4, InvFacts
<1>6. TypeOK'
  BY <1>4 DEF SessionsInv, TypeOK, DoBeginNext
<1>7. Allocated'
  BY <1>2, <1>3, <1>4, <1>5 DEF SessionsInv, Allocated, Blank
<1>8. QueueInOrder' /\ QueueHoldsTheWaiting'
  BY <1>1, <1>3, <1>4, <1>5 DEF SessionsInv, QueueInOrder, QueueHoldsTheWaiting
<1>9. SingleOwner'
  BY <1>1, <1>2, <1>3, <1>4, <1>5 DEF SessionsInv, SingleOwner, OnBoard, NoSession, SessionIds
<1>10. OneLiveSessionPerUser'
  BY <1>1, <1>2, <1>3, <1>5 DEF SessionsInv, OneLiveSessionPerUser
<1>11. ClockStartsWhenActive' /\ ReasonOnlyAtEnd' /\ MinimumWindow'
  BY <1>3, <1>5 DEF SessionsInv, ClockStartsWhenActive, ReasonOnlyAtEnd, MinimumWindow
<1>12. LimitedIffContended'
  BY <1>1, <1>3, <1>4, <1>5 DEF LimitedIffContended, ActiveIs, StatusOf
<1>. QED  BY <1>6, <1>7, <1>8, <1>9, <1>10, <1>11, <1>12 DEF SessionsInv

\* What activate, the enders and finish_active have in common: the session on
\* the board gets a new status (and activate its clock), and it stays on the
\* board or leaves it ended.  The queue is as before.
LEMMA OnBoardStep ==
    ASSUME SessionsInv, NEW i \in SessionIds, i = store.active, NEW s \in DemoSession,
           UNCHANGED now,
           store' \in Store,
           store'.ses = [store.ses EXCEPT ![i] = s],
           store'.count = store.count,
           store'.queue = store.queue,
           s.user = store.ses[i].user,
           \/ s.status \in {"active", "ending"} /\ store'.active = i
           \/ s.status = "ended" /\ store'.active = NoSession,
           s.status = "active" =>
               /\ s.started # NoTime /\ s.reason = "none"
               /\ s.expires # NoTime <=> store.queue # << >>,
           s.expires # NoTime =>
               s.started # NoTime /\ s.expires >= s.started + Contended
    PROVE  SessionsInv'
<1>1. /\ store'.ses[i] = s
      /\ \A j \in SessionIds \ {i} : store'.ses[j] = store.ses[j]
  BY InvFacts
<1>2. store.ses[i].status \in OnBoard
  BY DEF SessionsInv, SingleOwner
<1>3. TypeOK'
  BY DEF SessionsInv, TypeOK
<1>4. Allocated'
  <2>1. store.ses[i] # Blank /\ s # Blank
    BY <1>2 DEF Blank, OnBoard
  <2>. QED  BY <1>1, <2>1 DEF SessionsInv, Allocated
<1>5. QueueInOrder'
  BY DEF SessionsInv, QueueInOrder
<1>6. QueueHoldsTheWaiting'
  BY <1>1, <1>2 DEF SessionsInv, QueueHoldsTheWaiting, OnBoard
<1>7. SingleOwner'
  BY <1>1 DEF SessionsInv, SingleOwner, OnBoard, NoSession, SessionIds
<1>8. OneLiveSessionPerUser'
  BY <1>1, <1>2 DEF SessionsInv, OneLiveSessionPerUser, OnBoard
<1>9. ClockStartsWhenActive' /\ ReasonOnlyAtEnd' /\ MinimumWindow'
  BY <1>1 DEF SessionsInv, ClockStartsWhenActive, ReasonOnlyAtEnd, MinimumWindow
<1>10. LimitedIffContended'
  BY <1>1 DEF LimitedIffContended, ActiveIs, StatusOf
<1>. QED  BY <1>3, <1>4, <1>5, <1>6, <1>7, <1>8, <1>9, <1>10 DEF SessionsInv

\* activate starts the clock, and sets the deadline when somebody waits.
LEMMA ActivateInv ==
    ASSUME SessionsInv, NEW i \in SessionIds, DoActivate(i)
    PROVE  SessionsInv'
<1>. DEFINE e == IF store.queue # << >> THEN now + Contended ELSE NoTime
            s == [store.ses[i] EXCEPT !.status = "active", !.started = now, !.expires = e]
<1>1. /\ i = store.active /\ UNCHANGED now
      /\ store' = [store EXCEPT !.ses = [store.ses EXCEPT ![i] = s]]
  BY DEF DoActivate, CanActivate, IsActive, Activate, Update
<1>2. /\ s \in DemoSession /\ s.status = "active" /\ s.user = store.ses[i].user
      /\ s.started = now /\ s.expires = e /\ s.reason = "none"
  <2>1. e \in Time /\ now \in Time
    BY InvFacts, ContendedAssumption DEF Time
  <2>. HIDE DEF e
  <2>2. store.ses[i].reason = "none"
    BY DEF DoActivate, CanActivate, StatusOf, SessionsInv, ReasonOnlyAtEnd
  <2>3. store.ses[i] \in DemoSession
    BY InvFacts
  <2>4. "active" \in SessionStatus
    BY DEF SessionStatus
  <2>. QED  BY <2>1, <2>2, <2>3, <2>4 DEF DemoSession
<1>. HIDE DEF s
<1>3. /\ store' \in Store
      /\ store'.ses = [store.ses EXCEPT ![i] = s]
      /\ store'.count = store.count
      /\ store'.queue = store.queue
      /\ store'.active = i
  BY <1>1, <1>2, InvFacts DEF Store
<1>4. /\ s.started # NoTime /\ (s.expires # NoTime <=> store.queue # << >>)
      /\ s.expires # NoTime => s.expires >= s.started + Contended
  BY <1>2, InvFacts, ContendedAssumption DEF NoTime
<1>. QED  BY <1>1, <1>2, <1>3, <1>4, OnBoardStep

\* Whatever takes the session off the board ends it.
LEMMA LeaveBoardInv ==
    ASSUME SessionsInv, store.active # NoSession, UNCHANGED now,
           NEW r \in SessionEndReason \cup {"none"}, store' = LeaveBoard(store, r)
    PROVE  SessionsInv'
<1>. DEFINE i == store.active
            s == [store.ses[i] EXCEPT !.status = "ended", !.reason = r]
<1>1. i \in SessionIds
  BY InvFacts
<1>2. /\ s \in DemoSession /\ s.status = "ended" /\ s.user = store.ses[i].user
      /\ s.started = store.ses[i].started /\ s.expires = store.ses[i].expires
  <2>1. store.ses[i] \in DemoSession
    BY <1>1, InvFacts
  <2>2. "ended" \in SessionStatus
    BY DEF SessionStatus
  <2>. QED  BY <2>1, <2>2 DEF DemoSession
<1>3. store' = [store EXCEPT !.active = NoSession, !.ses = [store.ses EXCEPT ![i] = s]]
  BY DEF LeaveBoard, Update
<1>. HIDE DEF s
<1>4. /\ store' \in Store
      /\ store'.ses = [store.ses EXCEPT ![i] = s]
      /\ store'.count = store.count
      /\ store'.queue = store.queue
      /\ store'.active = NoSession
  <2>1. [store.ses EXCEPT ![i] = s] \in [SessionIds -> DemoSession]
    BY <1>2, InvFacts
  <2>2. store \in Store
    BY InvFacts
  <2>. QED  BY <1>1, <1>3, <2>1, <2>2 DEF Store
<1>5. s.expires # NoTime => s.started # NoTime /\ s.expires >= s.started + Contended
  BY <1>1, <1>2 DEF SessionsInv, MinimumWindow
<1>. QED  BY <1>1, <1>2, <1>4, <1>5, OnBoardStep

\* end and begin_active_end mark the active session ending; it stays on the board.
LEMMA BeginEndInv ==
    ASSUME SessionsInv, store.active # NoSession, UNCHANGED now,
           NEW r \in SessionEndReason, store' = BeginEnd(store, r)
    PROVE  SessionsInv'
<1>. DEFINE i == store.active
            s == [store.ses[i] EXCEPT !.status = "ending", !.reason = r]
<1>1. i \in SessionIds
  BY InvFacts
<1>2. /\ s \in DemoSession /\ s.status = "ending" /\ s.user = store.ses[i].user
      /\ s.started = store.ses[i].started /\ s.expires = store.ses[i].expires
  <2>1. store.ses[i] \in DemoSession
    BY <1>1, InvFacts
  <2>2. "ending" \in SessionStatus
    BY DEF SessionStatus
  <2>. QED  BY <2>1, <2>2 DEF DemoSession
<1>3. store' = [store EXCEPT !.ses = [store.ses EXCEPT ![i] = s]]
  BY DEF BeginEnd, Update
<1>. HIDE DEF s
<1>4. /\ store' \in Store
      /\ store'.ses = [store.ses EXCEPT ![i] = s]
      /\ store'.count = store.count
      /\ store'.queue = store.queue
      /\ store'.active = i
  <2>1. [store.ses EXCEPT ![i] = s] \in [SessionIds -> DemoSession]
    BY <1>2, InvFacts
  <2>2. store \in Store
    BY InvFacts
  <2>. QED  BY <1>1, <1>3, <2>1, <2>2 DEF Store
<1>5. s.expires # NoTime => s.started # NoTime /\ s.expires >= s.started + Contended
  BY <1>1, <1>2 DEF SessionsInv, MinimumWindow
<1>. QED  BY <1>1, <1>2, <1>4, <1>5, OnBoardStep

\* Cancelling a waiting session takes it out of the line; when it was the last
\* one waiting the active session's deadline is lifted with it.
LEMMA CancelInv ==
    ASSUME SessionsInv, NEW u \in Users, NEW i \in SessionIds, DoCancel(u, i)
    PROVE  SessionsInv'
<1>. DEFINE q == RemoveFromQueue(store.queue, i)
            s == [store.ses[i] EXCEPT !.status = "ended", !.reason = "cancelled"]
            a == store.active
            removed == [store EXCEPT !.queue = q, !.ses = [store.ses EXCEPT ![i] = s]]
            lift == q = << >> /\ ActiveIs(removed, "active")
<1>1. store.ses[i].status = "queued" /\ i # a
  BY DEF DoCancel, CanCancel, StatusOf, SessionsInv, SingleOwner, OnBoard
<1>2. /\ q \in Seq(SessionIds)
      /\ Increasing(q)
      /\ \A j \in SessionIds : Contains(q, j) <=> Contains(store.queue, j) /\ j # i
  BY <1>1, RemoveFromMiddle, InvFacts DEF SessionsInv, QueueHoldsTheWaiting, QueueInOrder
<1>3. /\ s \in DemoSession /\ s.status = "ended" /\ s.user = store.ses[i].user
      /\ s.expires = NoTime /\ s # Blank
  BY <1>1, InvFacts DEF DemoSession, SessionStatus, SessionEndReason, Blank,
                        SessionsInv, ClockStartsWhenActive
<1>. HIDE DEF q, s
<1>4. /\ removed \in Store
      /\ removed.ses = [store.ses EXCEPT ![i] = s]
      /\ removed.queue = q
      /\ removed.count = store.count
      /\ removed.active = a
  <2>1. [store.ses EXCEPT ![i] = s] \in [SessionIds -> DemoSession]
    BY <1>3, InvFacts
  <2>. QED  BY <1>2, <2>1, InvFacts DEF Store
<1>5. store' = [removed EXCEPT !.ses = ClearExpiryIfQueueEmpty(removed)] /\ UNCHANGED now
  BY DEF DoCancel, Cancel, Update, q, s
<1>. HIDE DEF removed
<1>6. /\ removed.ses[i] = s
      /\ \A j \in SessionIds \ {i} : removed.ses[j] = store.ses[j]
  BY <1>4, InvFacts
<1>7. lift => a \in SessionIds /\ a # i /\ store.ses[a].status = "active"
  BY <1>1, <1>4, <1>6, InvFacts DEF ActiveIs, StatusOf
<1>8. /\ store' \in Store
      /\ store'.queue = q
      /\ store'.count = store.count
      /\ store'.active = a
      /\ store'.ses[i] = s
      /\ \A j \in SessionIds \ {i, a} : store'.ses[j] = store.ses[j]
      /\ a \in SessionIds => store'.ses[a] = IF lift THEN [store.ses[a] EXCEPT !.expires = NoTime]
                                                     ELSE store.ses[a]
  <2>1. CASE ~lift
    <3>1. store' = [removed EXCEPT !.ses = removed.ses]
      BY <1>4, <1>5, <2>1 DEF ClearExpiryIfQueueEmpty
    <3>2. /\ store' \in Store /\ store'.queue = removed.queue /\ store'.count = removed.count
          /\ store'.active = removed.active /\ store'.ses = removed.ses
      BY <1>4, <3>1 DEF Store
    <3>. QED  BY <1>1, <1>4, <1>6, <2>1, <3>2
  <2>2. CASE lift
    <3>. DEFINE t == [removed.ses[a] EXCEPT !.expires = NoTime]
    <3>1. store' = [removed EXCEPT !.ses = [removed.ses EXCEPT ![a] = t]]
      BY <1>4, <1>5, <2>2 DEF ClearExpiryIfQueueEmpty, Update
    <3>2. t \in DemoSession /\ t = [store.ses[a] EXCEPT !.expires = NoTime]
      <4>1. removed.ses[a] = store.ses[a] /\ removed.ses[a] \in DemoSession
        BY <1>4, <1>6, <1>7, <2>2 DEF Store
      <4>2. NoTime \in Time
        BY DEF Time
      <4>. QED  BY <4>1, <4>2 DEF DemoSession
    <3>. HIDE DEF t
    <3>3. /\ store' \in Store /\ store'.queue = removed.queue /\ store'.count = removed.count
          /\ store'.active = removed.active
          /\ store'.ses = [removed.ses EXCEPT ![a] = t]
      BY <1>4, <1>7, <2>2, <3>1, <3>2 DEF Store
    <3>4. removed.ses \in [SessionIds -> DemoSession]
      BY <1>4 DEF Store
    <3>. QED  BY <1>4, <1>6, <1>7, <2>2, <3>2, <3>3, <3>4
  <2>. QED  BY <2>1, <2>2
<1>. HIDE DEF lift
<1>9. \A j \in SessionIds \ {i} : /\ store'.ses[j].status = store.ses[j].status
                                  /\ store'.ses[j].user = store.ses[j].user
                                  /\ store'.ses[j].started = store.ses[j].started
                                  /\ store'.ses[j].reason = store.ses[j].reason
                                  /\ store'.ses[j].expires \in {store.ses[j].expires, NoTime}
                                  /\ lift /\ j = a => store'.ses[j].expires = NoTime
                                  /\ ~lift => store'.ses[j].expires = store.ses[j].expires
                                  /\ (store'.ses[j] = Blank) = (store.ses[j] = Blank)
  <2>. SUFFICES ASSUME NEW j \in SessionIds \ {i}
                PROVE  /\ store'.ses[j].status = store.ses[j].status
                       /\ store'.ses[j].user = store.ses[j].user
                       /\ store'.ses[j].started = store.ses[j].started
                       /\ store'.ses[j].reason = store.ses[j].reason
                       /\ store'.ses[j].expires \in {store.ses[j].expires, NoTime}
                       /\ lift /\ j = a => store'.ses[j].expires = NoTime
                       /\ ~lift => store'.ses[j].expires = store.ses[j].expires
                       /\ (store'.ses[j] = Blank) = (store.ses[j] = Blank)
    OBVIOUS
  <2>1. CASE lift /\ j = a
    <3>1. store.ses[a] \in DemoSession /\ store'.ses[a] = [store.ses[a] EXCEPT !.expires = NoTime]
      BY <1>7, <1>8, <2>1, InvFacts
    <3>. QED  BY <1>7, <2>1, <3>1 DEF DemoSession, Blank
  <2>2. CASE ~(lift /\ j = a)
    BY <1>8, <2>2
  <2>. QED  BY <2>1, <2>2
<1>10. TypeOK'
  BY <1>5, <1>8 DEF SessionsInv, TypeOK
<1>11. Allocated'
  BY <1>1, <1>3, <1>8, <1>9 DEF SessionsInv, Allocated, Blank
<1>12. QueueInOrder' /\ QueueHoldsTheWaiting'
  BY <1>2, <1>3, <1>8, <1>9 DEF SessionsInv, QueueInOrder, QueueHoldsTheWaiting
<1>13. SingleOwner'
  BY <1>1, <1>3, <1>8, <1>9 DEF SessionsInv, SingleOwner, OnBoard
<1>14. OneLiveSessionPerUser'
  BY <1>3, <1>8, <1>9 DEF SessionsInv, OneLiveSessionPerUser
<1>15. ClockStartsWhenActive' /\ ReasonOnlyAtEnd' /\ MinimumWindow'
  BY <1>3, <1>8, <1>9 DEF SessionsInv, ClockStartsWhenActive, ReasonOnlyAtEnd, MinimumWindow
<1>16. LimitedIffContended'
  <2>. SUFFICES ASSUME a # NoSession, store'.ses[a].status = "active"
                PROVE  store'.ses[a].expires # NoTime <=> q # << >>
    BY <1>8 DEF LimitedIffContended, ActiveIs, StatusOf
  <2>1. /\ a \in SessionIds \ {i}
        /\ store.ses[a].status = "active"
        /\ removed.ses[a].status = "active"
    BY <1>1, <1>6, <1>9, InvFacts
  <2>2. store.ses[a].expires # NoTime
    <3>1. Contains(store.queue, i)
      BY <1>1 DEF SessionsInv, QueueHoldsTheWaiting
    <3>2. store.queue # << >>
      BY <3>1, InvFacts DEF Contains
    <3>. QED  BY <2>1, <3>2 DEF SessionsInv, LimitedIffContended, ActiveIs, StatusOf
  <2>3. lift <=> q = << >>
    BY <1>4, <2>1 DEF lift, ActiveIs, StatusOf
  <2>. QED  BY <1>9, <2>1, <2>2, <2>3
<1>. QED  BY <1>10, <1>11, <1>12, <1>13, <1>14, <1>15, <1>16 DEF SessionsInv

-----------------------------------------------------------------------------
(* What one step may do to a session. *)

Lawful(before, after) ==
    /\ after.status = before.status \/ <<before.status, after.status>> \in Lifecycle
    /\ before.status = "ended" => after = before
    /\ before.reason # "none" => after.reason \in {before.reason, "programming_failed"}
    /\ before.expires # NoTime /\ after.expires # NoTime => after.expires = before.expires

\* A session that is left alone has moved lawfully.
LEMMA LawfulStutter == ASSUME NEW s \in DemoSession PROVE Lawful(s, s)
<1>. QED  BY DEF Lawful

\* A step that rewrites one session lawfully is lawful, and so is one that
\* rewrites two.
LEMMA LawfulUpdate ==
    ASSUME SessionsInv,
           NEW i \in SessionIds, NEW s, Lawful(store.ses[i], s),
           store'.ses = [store.ses EXCEPT ![i] = s]
    PROVE  \A j \in SessionIds : Lawful(store.ses[j], store'.ses[j])
<1>. SUFFICES ASSUME NEW j \in SessionIds PROVE Lawful(store.ses[j], store'.ses[j])
  OBVIOUS
<1>1. store'.ses[j] = store.ses[j] \/ (j = i /\ store'.ses[j] = s)
  BY InvFacts
<1>. QED  BY <1>1, LawfulStutter, InvFacts

\* create may rewrite the newcomer and the active session in one call.
LEMMA LawfulUpdateTwo ==
    ASSUME SessionsInv,
           NEW i \in SessionIds, NEW s, Lawful(store.ses[i], s),
           NEW k \in SessionIds, NEW t, Lawful(store.ses[k], t), i # k,
           store'.ses = [[store.ses EXCEPT ![i] = s] EXCEPT ![k] = t]
    PROVE  \A j \in SessionIds : Lawful(store.ses[j], store'.ses[j])
<1>. SUFFICES ASSUME NEW j \in SessionIds PROVE Lawful(store.ses[j], store'.ses[j])
  OBVIOUS
<1>1. \/ store'.ses[j] = store.ses[j]
      \/ j = i /\ store'.ses[j] = s
      \/ j = k /\ store'.ses[j] = t
  BY InvFacts
<1>. QED  BY <1>1, LawfulStutter, InvFacts

\* Every call moves every session forward only.
LEMMA StepLawful ==
    ASSUME SessionsInv, [Next]_vars
    PROVE  \A j \in SessionIds : Lawful(store.ses[j], store'.ses[j])
<1>1. CASE store' = store
  BY <1>1, LawfulStutter, InvFacts
<1>2. ASSUME NEW u \in Users, NEW d \in Demos, DoCreate(u, d)
      PROVE  \A j \in SessionIds : Lawful(store.ses[j], store'.ses[j])
  <2>. DEFINE n == store.count + 1
              a == store.active
              t == [store.ses[a] EXCEPT !.expires = ContendedExpiry(store.ses[a], now)]
              made == [store.ses EXCEPT ![n] = NewSession(u, d)]
              late == ActiveIs(store, "active") /\ store.ses[a].expires = NoTime
  <2>1. n \in SessionIds /\ n > store.count
    BY <1>2, InvFacts, BoundAssumption DEF DoCreate, CanCreate, SessionIds
  <2>2. store.ses[n] = Blank
    BY <2>1, InvFacts DEF SessionsInv, Allocated, SessionIds
  <2>3. Lawful(store.ses[n], NewSession(u, d))
    BY <2>2 DEF Lawful, Blank, NewSession, Lifecycle
  <2>4. late => a \in SessionIds /\ a # n /\ Lawful(store.ses[a], t)
    <3>. SUFFICES ASSUME late PROVE a \in SessionIds /\ a # n /\ Lawful(store.ses[a], t)
      OBVIOUS
    <3>1. a \in SessionIds /\ a # n /\ store.ses[a] \in DemoSession
      BY <2>2, InvFacts DEF ActiveIs, StatusOf, Blank
    <3>2. t.status = store.ses[a].status /\ t.reason = store.ses[a].reason
      BY <3>1 DEF DemoSession
    <3>. HIDE DEF t
    <3>. QED  BY <3>1, <3>2 DEF Lawful, DemoSession, ActiveIs, StatusOf
  <2>5. \/ store'.ses = made
        \/ late /\ store'.ses = [made EXCEPT ![a] = t]
    <3>. DEFINE created == CreateWithoutDeadline(store, u, d, now)
    <3>1. created \in [ses : {made}, count : {n}, queue : {Append(store.queue, n)}, active : {a}]
      BY InvFacts DEF CreateWithoutDeadline, Update, Store
    <3>. HIDE DEF created
    <3>2. \/ store' = created
          \/ late /\ store' = [created EXCEPT !.ses = [created.ses EXCEPT ![a] = t]]
      BY <1>2 DEF DoCreate, Create, Update, created
    <3>. QED  BY <3>1, <3>2
  <2>. HIDE DEF n, a, t, late
  <2>6. CASE store'.ses = made
    BY <2>1, <2>3, <2>6, LawfulUpdate
  <2>7. CASE late /\ store'.ses = [made EXCEPT ![a] = t]
    BY <2>1, <2>3, <2>4, <2>7, LawfulUpdateTwo
  <2>. QED  BY <2>5, <2>6, <2>7
<1>3. CASE DoBeginNext
  <2>. DEFINE i == Head(store.queue)
              s == [store.ses[i] EXCEPT !.status = "starting"]
  <2>1. i \in SessionIds /\ store.ses[i].status = "queued"
    BY <1>3, PopFromQueue, InvFacts
       DEF DoBeginNext, CanBegin, SessionsInv, QueueInOrder, QueueHoldsTheWaiting
  <2>2. Lawful(store.ses[i], s)
    BY <2>1, InvFacts DEF Lawful, Lifecycle, DemoSession
  <2>3. store'.ses = [store.ses EXCEPT ![i] = s]
    BY <1>3, InvFacts DEF DoBeginNext, BeginNext, Update, Store
  <2>. HIDE DEF i, s
  <2>. QED  BY <2>1, <2>2, <2>3, LawfulUpdate
<1>4. ASSUME NEW i \in SessionIds, DoActivate(i)
      PROVE  \A j \in SessionIds : Lawful(store.ses[j], store'.ses[j])
  <2>1. PICK e, s : /\ s = [store.ses[i] EXCEPT !.status = "active", !.started = now,
                                                !.expires = e]
                    /\ store' = [store EXCEPT !.ses = [store.ses EXCEPT ![i] = s]]
    BY <1>4 DEF DoActivate, CanActivate, Activate, Update
  <2>2. store.ses[i].status = "starting" /\ store.ses[i].expires = NoTime
    BY <1>4 DEF DoActivate, CanActivate, StatusOf, SessionsInv, ClockStartsWhenActive
  <2>3. Lawful(store.ses[i], s)
    BY <2>1, <2>2, InvFacts DEF Lawful, Lifecycle, DemoSession
  <2>4. store'.ses = [store.ses EXCEPT ![i] = s]
    BY <2>1, InvFacts DEF Store
  <2>. QED  BY <2>3, <2>4, LawfulUpdate
<1>5. ASSUME store.active # NoSession, NEW r,
             r = "programming_failed" \/ r = store.ses[store.active].reason,
             store' = LeaveBoard(store, r)
      PROVE  \A j \in SessionIds : Lawful(store.ses[j], store'.ses[j])
  <2>. DEFINE i == store.active
              s == [store.ses[i] EXCEPT !.status = "ended", !.reason = r]
  <2>1. i \in SessionIds /\ store.ses[i].status \in OnBoard
    BY <1>5, InvFacts DEF SessionsInv, SingleOwner
  <2>2. Lawful(store.ses[i], s)
    BY <1>5, <2>1, InvFacts DEF Lawful, Lifecycle, DemoSession, OnBoard
  <2>3. store'.ses = [store.ses EXCEPT ![i] = s]
    BY <1>5, InvFacts DEF LeaveBoard, Update, Store
  <2>. HIDE DEF i, s
  <2>. QED  BY <2>1, <2>2, <2>3, LawfulUpdate
<1>6. ASSUME store.active # NoSession, NEW r,
             StatusOf(store, store.active) \in {"starting", "active"},
             store' = BeginEnd(store, r)
      PROVE  \A j \in SessionIds : Lawful(store.ses[j], store'.ses[j])
  <2>. DEFINE i == store.active
              s == [store.ses[i] EXCEPT !.status = "ending", !.reason = r]
  <2>1. i \in SessionIds /\ store.ses[i].reason = "none"
    BY <1>6, InvFacts DEF StatusOf, SessionsInv, ReasonOnlyAtEnd
  <2>2. Lawful(store.ses[i], s)
    BY <1>6, <2>1, InvFacts DEF Lawful, Lifecycle, DemoSession, StatusOf
  <2>3. store'.ses = [store.ses EXCEPT ![i] = s]
    BY <1>6, InvFacts DEF BeginEnd, Update, Store
  <2>. HIDE DEF i, s
  <2>. QED  BY <2>1, <2>2, <2>3, LawfulUpdate
<1>7. ASSUME NEW u \in Users, NEW i \in SessionIds, DoCancel(u, i)
      PROVE  \A j \in SessionIds : Lawful(store.ses[j], store'.ses[j])
  <2>. DEFINE s == [store.ses[i] EXCEPT !.status = "ended", !.reason = "cancelled"]
              a == store.active
              made == [store.ses EXCEPT ![i] = s]
              q == RemoveFromQueue(store.queue, i)
              t == [store.ses[a] EXCEPT !.expires = NoTime]
  <2>1. store.ses[i].status = "queued" /\ i # a
    BY <1>7 DEF DoCancel, CanCancel, StatusOf, SessionsInv, SingleOwner, OnBoard
  <2>2. Lawful(store.ses[i], s)
    BY <2>1, InvFacts DEF Lawful, Lifecycle, DemoSession, SessionsInv, ReasonOnlyAtEnd
  <2>3. made \in [SessionIds -> {s} \cup DemoSession] /\ (a # NoSession => made[a] = store.ses[a])
    BY <2>1, InvFacts DEF NoSession
  <2>. DEFINE removed == [store EXCEPT !.queue = q, !.ses = made]
  <2>4. removed.ses = made /\ removed.active = a
    BY InvFacts DEF Store
  <2>5. store'.ses = ClearExpiryIfQueueEmpty(removed)
    <3>1. store' = [[store EXCEPT !.queue = q, !.ses = made]
                      EXCEPT !.ses = ClearExpiryIfQueueEmpty(removed)]
      BY <1>7 DEF DoCancel, Cancel, Update
    <3>. HIDE DEF made
    <3>. QED  BY <3>1, InvFacts DEF Store
  <2>. HIDE DEF removed, made
  <2>6. store'.ses = made \/ (a # NoSession /\ store.ses[a].status = "active"
                              /\ store'.ses = [made EXCEPT ![a] = t])
    BY <2>3, <2>4, <2>5 DEF ClearExpiryIfQueueEmpty, Update, ActiveIs, StatusOf
  <2>. HIDE DEF s
  <2>7. CASE store'.ses = made
    BY <2>1, <2>2, <2>7, LawfulUpdate DEF made
  <2>8. CASE a # NoSession /\ store.ses[a].status = "active" /\ store'.ses = [made EXCEPT ![a] = t]
    <3>1. a \in SessionIds /\ store.ses[a] \in DemoSession
      BY <2>8, InvFacts
    <3>2. Lawful(store.ses[a], t)
      BY <2>8, <3>1 DEF Lawful, Lifecycle, DemoSession
    <3>. HIDE DEF t, a
    <3>. QED  BY <2>1, <2>2, <2>8, <3>1, <3>2, LawfulUpdateTwo DEF made
  <2>. QED  BY <2>6, <2>7, <2>8
<1>8. ASSUME NEW i \in SessionIds, DoFailStart(i)
      PROVE  \A j \in SessionIds : Lawful(store.ses[j], store'.ses[j])
  BY <1>5, <1>8 DEF DoFailStart, IsActive, FailStart
<1>9. ASSUME NEW u \in Users, NEW i \in SessionIds, DoEndOnBoard(u, i)
      PROVE  \A j \in SessionIds : Lawful(store.ses[j], store'.ses[j])
  BY <1>6, <1>9 DEF DoEndOnBoard, CanEndOnBoard, IsActive
<1>10. ASSUME NEW r \in EndReasons, DoBeginActiveEnd(r)
       PROVE  \A j \in SessionIds : Lawful(store.ses[j], store'.ses[j])
  <2>1. CASE store.active # NoSession /\ ~ActiveIs(store, "ending") /\ store' = BeginEnd(store, r)
    <3>1. StatusOf(store, store.active) \in {"starting", "active"}
      BY <2>1, InvFacts DEF SessionsInv, SingleOwner, OnBoard, ActiveIs, StatusOf
    <3>. QED  BY <1>6, <2>1, <3>1
  <2>. QED  BY <1>1, <1>10, <2>1 DEF DoBeginActiveEnd, BeginActiveEnd
<1>11. CASE DoFinishActive
  BY <1>1, <1>5, <1>11 DEF DoFinishActive, FinishActive
<1>. QED  BY <1>1, <1>2, <1>3, <1>4, <1>7, <1>8, <1>9, <1>10, <1>11 DEF Next, vars, Tick

-----------------------------------------------------------------------------
(* The theorems. *)

\* The invariants of the queue and of the sessions hold under every sequence
\* of calls, for any number of users and any window.
THEOREM SessionsInvariant == Spec => []SessionsInv
<1>1. Init => SessionsInv
  BY InitInv
<1>2. SessionsInv /\ [Next]_vars => SessionsInv'
  <2>. SUFFICES ASSUME SessionsInv, [Next]_vars PROVE SessionsInv'
    OBVIOUS
  <2>1. CASE UNCHANGED vars
    BY <2>1 DEF vars, SessionsInv, TypeOK, Allocated, QueueInOrder, QueueHoldsTheWaiting,
                SingleOwner, OneLiveSessionPerUser, ClockStartsWhenActive, ReasonOnlyAtEnd,
                LimitedIffContended, ActiveIs, StatusOf, MinimumWindow
  <2>2. ASSUME NEW u \in Users, NEW d \in Demos, DoCreate(u, d) PROVE SessionsInv'
    BY <2>2, CreateInv
  <2>3. CASE DoBeginNext
    BY <2>3, BeginNextInv
  <2>4. ASSUME NEW i \in SessionIds, DoActivate(i) PROVE SessionsInv'
    BY <2>4, ActivateInv
  <2>5. ASSUME NEW i \in SessionIds, DoFailStart(i) PROVE SessionsInv'
    BY <2>5, LeaveBoardInv DEF DoFailStart, IsActive, FailStart, SessionEndReason
  <2>6. ASSUME NEW u \in Users, NEW i \in SessionIds, DoCancel(u, i) PROVE SessionsInv'
    BY <2>6, CancelInv
  <2>7. ASSUME NEW u \in Users, NEW i \in SessionIds, DoEndOnBoard(u, i) PROVE SessionsInv'
    BY <2>7, BeginEndInv DEF DoEndOnBoard, CanEndOnBoard, IsActive, SessionEndReason
  <2>8. ASSUME NEW r \in EndReasons, DoBeginActiveEnd(r) PROVE SessionsInv'
    <3>1. r \in SessionEndReason
      BY ReasonsAssumption DEF SessionEndReason
    <3>2. CASE store' = store
      BY <2>8, <3>2 DEF DoBeginActiveEnd, SessionsInv, TypeOK, Allocated, QueueInOrder,
                QueueHoldsTheWaiting, SingleOwner, OneLiveSessionPerUser,
                ClockStartsWhenActive, ReasonOnlyAtEnd, LimitedIffContended, ActiveIs, StatusOf, MinimumWindow
    <3>3. CASE store.active # NoSession /\ store' = BeginEnd(store, r)
      BY <2>8, <3>1, <3>3, BeginEndInv DEF DoBeginActiveEnd
    <3>. QED  BY <2>8, <3>2, <3>3 DEF DoBeginActiveEnd, BeginActiveEnd
  <2>9. CASE DoFinishActive
    <3>1. CASE store.active = NoSession
      BY <2>9, <3>1 DEF DoFinishActive, FinishActive, SessionsInv, TypeOK, Allocated,
                QueueInOrder, QueueHoldsTheWaiting, SingleOwner, OneLiveSessionPerUser,
                ClockStartsWhenActive, ReasonOnlyAtEnd, LimitedIffContended, ActiveIs, StatusOf, MinimumWindow
    <3>2. CASE store.active # NoSession
      <4>1. store.ses[store.active].reason \in SessionEndReason \cup {"none"}
        BY <3>2, InvFacts DEF DemoSession
      <4>. QED  BY <2>9, <3>2, <4>1, LeaveBoardInv DEF DoFinishActive, FinishActive
    <3>. QED  BY <3>1, <3>2
  <2>10. CASE Tick
    <3>1. store' = store /\ now' \in 0..MaxTime
      BY <2>10, InvFacts, TimeAssumption DEF Tick
    <3>. QED  BY <3>1 DEF SessionsInv, TypeOK, Allocated, QueueInOrder,
                QueueHoldsTheWaiting, SingleOwner, OneLiveSessionPerUser,
                ClockStartsWhenActive, ReasonOnlyAtEnd, LimitedIffContended, ActiveIs, StatusOf, MinimumWindow
  <2>. QED  BY <2>1, <2>2, <2>3, <2>4, <2>5, <2>6, <2>7, <2>8, <2>9, <2>10 DEF Next
<1>. QED  BY <1>1, <1>2, PTL DEF Spec

\* The state has its types.
THEOREM TypeCorrect == Spec => []TypeOK
<1>. QED  BY SessionsInvariant, PTL DEF SessionsInv

\* "Only one active/starting session can own the board", whatever the order
\* of starts, ends, failures and board problems.
THEOREM OneOwner == Spec => []SingleOwner
<1>. QED  BY SessionsInvariant, PTL DEF SessionsInv

\* No session is lost from the line or left in it, and the line is in the
\* order of creation.
THEOREM QueueCorrect == Spec => [](QueueInOrder /\ QueueHoldsTheWaiting)
<1>. QED  BY SessionsInvariant, PTL DEF SessionsInv

\* A browser never holds two live sessions, however often it joins (create).
THEOREM OneSessionPerUser == Spec => []OneLiveSessionPerUser
<1>. QED  BY SessionsInvariant, PTL DEF SessionsInv

\* The active session is limited exactly while somebody waits, whatever the
\* order of joining and leaving (create and end_by_user).
THEOREM LimitedWhileContended == Spec => []LimitedIffContended
<1>. QED  BY SessionsInvariant, PTL DEF SessionsInv

\* A deadline is never before the end of the window that the session was
\* promised (_contended_expiry).
THEOREM FairWindow == Spec => []MinimumWindow
<1>. QED  BY SessionsInvariant, PTL DEF SessionsInv

\* A session only moves forward, an ended one never changes again, and only
\* a failed start rewrites the reason a session is ending for.
THEOREM SessionsMoveForward == Spec => ForwardOnly
<1>1. SessionsInv /\ [Next]_vars =>
         [\A i \in SessionIds :
            LET before == store.ses[i]
                after  == store'.ses[i]
            IN  /\ \/ after.status = before.status
                   \/ <<before.status, after.status>> \in Lifecycle
                /\ before.status = "ended" => after = before
                /\ before.reason # "none" =>
                       after.reason \in {before.reason, "programming_failed"}]_vars
  BY StepLawful DEF Lawful
<1>. QED  BY <1>1, SessionsInvariant, PTL DEF Spec, ForwardOnly

\* The deadline the active user was told stands until it is lifted.
THEOREM DeadlinesStand == Spec => DeadlineStands
<1>1. SessionsInv /\ [Next]_vars =>
         [\A i \in SessionIds :
            store.ses[i].expires # NoTime /\ store'.ses[i].expires # NoTime =>
                store'.ses[i].expires = store.ses[i].expires]_vars
  BY StepLawful DEF Lawful
<1>. QED  BY <1>1, SessionsInvariant, PTL DEF Spec, DeadlineStands

-----------------------------------------------------------------------------
(* SessionManager implements the ticket line of BoardTurns, for every set  *)
(* of users, every bound and every contended window.                       *)

\* A new session is a ticket drawn at the end of the line, and the deadline
\* it may give the active session is invisible to the line.
LEMMA CreateDraws ==
    ASSUME SessionsInv, NEW u \in Users, NEW d \in Demos, DoCreate(u, d)
    PROVE  Turns!Draw
<1>1. /\ store'.count = store.count + 1
      /\ store'.queue = Append(store.queue, store.count + 1)
      /\ store'.active = store.active
  <2>. DEFINE created == CreateWithoutDeadline(store, u, d, now)
  <2>1. /\ created.count = store.count + 1
        /\ created.queue = Append(store.queue, store.count + 1)
        /\ created.active = store.active
    BY InvFacts DEF CreateWithoutDeadline, Store
  <2>2. PICK ses : store' = created \/ store' = [created EXCEPT !.ses = ses]
    BY DEF DoCreate, Create
  <2>3. CASE store' = created
    BY <2>1, <2>3
  <2>4. CASE store' = [created EXCEPT !.ses = ses]
    <3>1. store' = [[store EXCEPT !.count = @ + 1,
                                  !.queue = Append(@, store.count + 1),
                                  !.ses   = Update(store, store.count + 1, NewSession(u, d))]
                     EXCEPT !.ses = ses]
      BY <2>4 DEF CreateWithoutDeadline
    <3>. QED  BY <3>1, InvFacts DEF Store
  <2>. QED  BY <2>2, <2>3, <2>4
<1>2. store.count + 1 \in SessionIds
  BY InvFacts, BoundAssumption DEF DoCreate, CanCreate, SessionIds
<1>. QED  BY <1>1, <1>2 DEF Turns!Draw

\* A cancelled session gives its ticket back, and those behind it move up.
LEMMA CancelGivesBack ==
    ASSUME SessionsInv, NEW u \in Users, NEW i \in SessionIds, DoCancel(u, i)
    PROVE  Turns!GiveBack(i)
<1>1. Contains(store.queue, i)
  BY DEF DoCancel, CanCancel, StatusOf, SessionsInv, QueueHoldsTheWaiting
<1>2. PICK k \in 1..Len(store.queue) :
         /\ store.queue[k] = i
         /\ RemoveFromQueue(store.queue, i)
              = [j \in 1..(Len(store.queue) - 1) |->
                    IF j < k THEN store.queue[j] ELSE store.queue[j + 1]]
  BY <1>1, RemoveShape, InvFacts DEF SessionsInv, QueueInOrder
<1>3. /\ store'.queue = RemoveFromQueue(store.queue, i)
      /\ store'.count = store.count
      /\ store'.active = store.active
  <2>1. PICK before, after :
           store' = [[store EXCEPT !.queue = RemoveFromQueue(@, i), !.ses = before]
                        EXCEPT !.ses = after]
    BY DEF DoCancel, Cancel
  <2>. QED  BY <2>1, InvFacts DEF Store
<1>. QED  BY <1>1, <1>2, <1>3 DEF Turns!GiveBack, Turns!InLine, Contains

\* Whatever ends the session on the board returns the board.
LEMMA LeaveBoardReturns ==
    ASSUME SessionsInv, store.active # NoSession, NEW r, store' = LeaveBoard(store, r)
    PROVE  Turns!Return
<1>1. /\ store'.queue = store.queue
      /\ store'.count = store.count
      /\ store'.active = NoSession
  BY InvFacts DEF LeaveBoard, Store
<1>. QED  BY <1>1 DEF Turns!Return

\* A change of the session's own record is invisible to the line.
LEMMA StatusStutters ==
    ASSUME SessionsInv, NEW ses, store' = [store EXCEPT !.ses = ses]
    PROVE  UNCHANGED Turns!vars
<1>1. /\ store'.queue = store.queue
      /\ store'.count = store.count
      /\ store'.active = store.active
  BY InvFacts DEF Store
<1>. QED  BY <1>1 DEF Turns!vars

\* Every call is a turn of the ticket queue or leaves it unchanged.
LEMMA StepRefines == SessionsInv /\ [Next]_vars => [Turns!Next]_(Turns!vars)
<1>. SUFFICES ASSUME SessionsInv, [Next]_vars PROVE [Turns!Next]_(Turns!vars)
  OBVIOUS
<1>1. CASE store' = store
  BY <1>1 DEF Turns!vars
<1>2. ASSUME NEW u \in Users, NEW d \in Demos, DoCreate(u, d) PROVE Turns!Next
  BY <1>2, CreateDraws DEF Turns!Next
<1>3. CASE DoBeginNext
  <2>1. /\ store'.queue = Tail(store.queue)
        /\ store'.active = Head(store.queue)
        /\ store'.count = store.count
    BY <1>3, InvFacts DEF DoBeginNext, BeginNext, Store
  <2>. QED  BY <1>3, <2>1 DEF DoBeginNext, CanBegin, Turns!Take, Turns!Next
<1>4. ASSUME NEW i \in SessionIds, DoActivate(i) PROVE UNCHANGED Turns!vars
  BY <1>4, StatusStutters DEF DoActivate, Activate
<1>5. ASSUME NEW i \in SessionIds, DoFailStart(i) PROVE Turns!Next
  BY <1>5, LeaveBoardReturns DEF DoFailStart, IsActive, FailStart, Turns!Next
<1>6. ASSUME NEW u \in Users, NEW i \in SessionIds, DoCancel(u, i) PROVE Turns!Next
  BY <1>6, CancelGivesBack DEF Turns!Next
<1>7. ASSUME NEW u \in Users, NEW i \in SessionIds, DoEndOnBoard(u, i)
      PROVE  UNCHANGED Turns!vars
  BY <1>7, StatusStutters DEF DoEndOnBoard, BeginEnd
<1>8. ASSUME NEW r \in EndReasons, DoBeginActiveEnd(r) PROVE UNCHANGED Turns!vars
  <2>1. CASE store' = store
    BY <2>1 DEF Turns!vars
  <2>2. CASE store' = BeginEnd(store, r)
    BY <2>2, StatusStutters DEF BeginEnd
  <2>. QED  BY <1>8, <2>1, <2>2 DEF DoBeginActiveEnd, BeginActiveEnd
<1>9. CASE DoFinishActive
  BY <1>1, <1>9, LeaveBoardReturns DEF DoFinishActive, FinishActive, Turns!Next
<1>. QED  BY <1>1, <1>2, <1>3, <1>4, <1>5, <1>6, <1>7, <1>8, <1>9 DEF Next, vars, Tick

\* SessionManager implements the ticket line: the board goes to the head of
\* the line, to nobody else, and only while nobody has it.
THEOREM Refinement == Spec => TurnsSpec
<1>1. Init => Turns!Init
  BY DEF Init, EmptyStore, Turns!Init
<1>. QED  BY <1>1, StepRefines, SessionsInvariant, PTL DEF Spec, TurnsSpec, Turns!Spec
=============================================================================
