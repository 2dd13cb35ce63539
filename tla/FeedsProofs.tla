---------------------------- MODULE FeedsProofs ----------------------------
(***************************************************************************)
(* Feeds end on the current state, for any number of visitors, pages,      *)
(* readers and sessions, and queues of any size.                           *)
(*                                                                         *)
(* Pages: between two events of a step a page is owed the topics whose     *)
(* value has changed and not been published; each event pays one, and at   *)
(* the end of the step nothing is owed but what Owed says.                 *)
(*                                                                         *)
(* Readers: a snapshot that equals the one published last is not sent      *)
(* again, so that one has to be what every reader has got.  It may differ  *)
(* from the present one only by the demo of a session that ends without    *)
(* announcement (Quieted).  A later session of the same demo can make a    *)
(* snapshot equal to it, but the queue has got shorter by the time it      *)
(* starts, and whatever changes the queue or the board publishes: when the *)
(* snapshot is equal again, it is no longer the one published last.        *)
(***************************************************************************)
EXTENDS Feeds, SequenceTheorems, WellFoundedInduction, TLAPS

-----------------------------------------------------------------------------
(* Sequences *)

\* A set of numbers up to n that is not empty has a greatest one.
LEMMA HasMax ==
    ASSUME NEW n \in Nat, NEW T \in SUBSET (1..n), T # {}
    PROVE  \E i \in T : \A j \in T : j <= i
<1> DEFINE U == {m \in Nat : \E i \in T : m = n - i}
           R == {ss \in Nat \X Nat : ss[1] < ss[2]}
<1>1. U # {} /\ U \subseteq Nat
  <2>1. PICK i \in T : TRUE
    OBVIOUS
  <2>2. n - i \in U
    OBVIOUS
  <2> QED
    BY <2>2
<1>2. IsWellFoundedOn(R, Nat)
  BY NatLessThanWellFounded DEF OpToRel
<1> HIDE DEF U, R
<1>3. PICK x \in U : \A y \in U : ~(<<y, x>> \in R)
  BY <1>1, <1>2, WFMin
<1>4. \A y \in U : ~(y < x)
  BY <1>1, <1>3 DEF R
<1>5. PICK i \in T : x = n - i
  BY DEF U
<1>6. \A j \in T : j <= i
  <2> SUFFICES ASSUME NEW j \in T PROVE j <= i
    OBVIOUS
  <2>1. n - j \in U
    BY DEF U
  <2>2. ~(n - j < x)
    BY <2>1, <1>4
  <2> QED
    BY <2>2, <1>5
<1> QED
  BY <1>6

\* The community module's Max of such a set is that one.
LEMMA MaxIs ==
    ASSUME NEW n \in Nat, NEW T \in SUBSET (1..n), NEW i \in T, \A j \in T : j <= i
    PROVE  Max(T) = i
<1>0. \A j \in T : j \in Int
  OBVIOUS
<1>1. i \in T /\ \A j \in T : i >= j
  BY <1>0
<1> DEFINE m == Max(T)
<1>2. m \in T /\ \A j \in T : m >= j
  BY <1>1 DEF Max
<1> HIDE DEF m
<1>3. m >= i /\ i >= m /\ m \in Int /\ i \in Int
  BY <1>0, <1>1, <1>2
<1>4. m = i
  BY <1>3
<1> QED
  BY <1>4 DEF m

IsSeq(q) == \E S : q \in Seq(S)

\* A sequence as the provers see it: its domain, its head and its tail.
LEMMA SeqFacts ==
    ASSUME NEW q, IsSeq(q)
    PROVE  /\ Len(q) \in Nat /\ DOMAIN q = 1..Len(q)
           /\ q # << >> => /\ Len(q) > 0 /\ Head(q) = q[1] /\ IsSeq(Tail(q))
                           /\ Len(Tail(q)) = Len(q) - 1
                           /\ \A i \in 1..(Len(q) - 1) : Tail(q)[i] = q[i + 1]
BY DEF IsSeq

\* What Append leaves and what it adds.
LEMMA AppendFacts ==
    ASSUME NEW q, IsSeq(q), NEW e
    PROVE  /\ IsSeq(Append(q, e)) /\ Len(Append(q, e)) = Len(q) + 1
           /\ \A i \in 1..Len(q) : Append(q, e)[i] = q[i]
           /\ Append(q, e)[Len(q) + 1] = e
<1>1. PICK S : q \in Seq(S)
  BY DEF IsSeq
<1>2. q \in Seq(S \cup {e}) /\ e \in S \cup {e}
  BY <1>1
<1>3. Append(q, e) \in Seq(S \cup {e})
  BY <1>2
<1> QED
  BY <1>2, <1>3 DEF IsSeq

\* What the concatenation of two sequences holds at each place.
LEMMA ConcatFacts ==
    ASSUME NEW q, IsSeq(q), NEW r, IsSeq(r)
    PROVE  /\ IsSeq(q \o r) /\ Len(q \o r) = Len(q) + Len(r)
           /\ \A i \in 1..Len(q) : (q \o r)[i] = q[i]
           /\ \A i \in 1..Len(r) : (q \o r)[Len(q) + i] = r[i]
<1>1. PICK S : q \in Seq(S)
  BY DEF IsSeq
<1>2. PICK T : r \in Seq(T)
  BY DEF IsSeq
<1>3. q \in Seq(S \cup T) /\ r \in Seq(S \cup T)
  BY <1>1, <1>2
<1>4. q \o r \in Seq(S \cup T)
  BY <1>3
<1> QED
  BY <1>3, <1>4 DEF IsSeq

-----------------------------------------------------------------------------
(* What a page will show *)

Mail(p) == p.out \o p.sub
About(q, t) == {i \in DOMAIN q : q[i].topic \in {t, "initial"}}
Latest(q, t, i) == i \in About(q, t) /\ \A j \in About(q, t) : j <= i
Value(m, t) == IF m.topic = "initial" THEN m.value[t] ELSE m.value

\* r is q without its d-th message, and shown accounts for it.
DropAt(q, r, d) ==
    /\ IsSeq(q) /\ IsSeq(r) /\ d \in 1..Len(q) /\ Len(r) = Len(q) - 1
    /\ \A i \in 1..(Len(q) - 1) : r[i] = IF i < d THEN q[i] ELSE q[i + 1]

Passed(q, t, d, before, after) ==
    \/ \E i \in About(q, t) : i > d
    \/ q[d].topic \notin {t, "initial"} /\ after[t] = before[t]
    \/ d = 1 /\ after[t] = Value(q[1], t) /\ q[1].topic \in {t, "initial"}

\* Under is the latest message about a topic, or what is shown without one.
LEMMA UnderIs ==
    ASSUME NEW p, NEW t, IsSeq(Mail(p))
    PROVE  /\ About(Mail(p), t) = {} => Under(p, t) = p.shown[t]
           /\ \A i : Latest(Mail(p), t, i) => Under(p, t) = Value(Mail(p)[i], t)
           /\ About(Mail(p), t) # {} => \E i : Latest(Mail(p), t, i)
<1> DEFINE q == Mail(p)
           a == About(q, t)
<1>0. Len(q) \in Nat /\ DOMAIN q = 1..Len(q)
  BY SeqFacts
<1>1. a \subseteq 1..Len(q)
  BY <1>0 DEF About
<1>2. Under(p, t) = IF a = {} THEN p.shown[t] ELSE Value(q[Max(a)], t)
  BY DEF Under, About, Value, Mail
<1>3. a # {} => \E i : Latest(q, t, i)
  BY <1>0, <1>1, HasMax DEF Latest
<1> HIDE DEF q
<1>4. \A i : Latest(q, t, i) => Max(a) = i
  BY <1>0, <1>1, MaxIs DEF Latest
<1> QED
  BY <1>2, <1>3, <1>4 DEF q, Latest

\* A message at the end.
LEMMA UnderAppend ==
    ASSUME NEW p, NEW v, NEW e, NEW t, IsSeq(Mail(p)), v.shown = p.shown,
           Mail(v) = Append(Mail(p), e)
    PROVE  /\ e.topic = t /\ t # "initial" => Under(v, t) = e.value
           /\ e.topic \notin {t, "initial"} => Under(v, t) = Under(p, t)
<1> DEFINE q == Mail(p)
           r == Mail(v)
<1>1. /\ Len(q) \in Nat /\ DOMAIN q = 1..Len(q) /\ IsSeq(r) /\ DOMAIN r = 1..(Len(q) + 1)
      /\ \A i \in 1..Len(q) : r[i] = q[i]
      /\ r[Len(q) + 1] = e
  <2>1. IsSeq(q) /\ r = Append(q, e)
    OBVIOUS
  <2> HIDE DEF q, r
  <2>2. Len(q) \in Nat /\ DOMAIN q = 1..Len(q)
    BY <2>1, SeqFacts
  <2>3. /\ IsSeq(r) /\ Len(r) = Len(q) + 1 /\ r[Len(q) + 1] = e
        /\ \A i \in 1..Len(q) : r[i] = q[i]
    BY <2>1, AppendFacts
  <2>4. DOMAIN r = 1..Len(r)
    BY <2>3, SeqFacts
  <2> QED
    BY <2>2, <2>3, <2>4
<1>0. /\ About(q, t) = {} => Under(p, t) = p.shown[t]
      /\ \A i : Latest(q, t, i) => Under(p, t) = Value(q[i], t)
      /\ About(q, t) # {} => \E i : Latest(q, t, i)
  BY UnderIs
<1>4. /\ About(r, t) = {} => Under(v, t) = v.shown[t]
      /\ \A i : Latest(r, t, i) => Under(v, t) = Value(r[i], t)
  BY <1>1, UnderIs
<1> HIDE DEF q, r
<1>2. ASSUME e.topic = t, t # "initial" PROVE Under(v, t) = e.value
  <2>1. Latest(r, t, Len(q) + 1)
    BY <1>1, <1>2 DEF Latest, About
  <2>2. Under(v, t) = Value(r[Len(q) + 1], t)
    BY <1>4, <2>1
  <2> QED
    BY <1>1, <1>2, <2>2 DEF Value
<1>3. ASSUME e.topic \notin {t, "initial"} PROVE Under(v, t) = Under(p, t)
  <2>1. About(r, t) = About(q, t)
    BY <1>1, <1>3 DEF About
  <2>2. CASE About(q, t) = {}
    BY <1>0, <1>4, <2>1, <2>2
  <2>3. CASE About(q, t) # {}
    <3>1. PICK i : Latest(q, t, i)
      BY <1>0, <2>3
    <3>2. Latest(r, t, i) /\ r[i] = q[i]
      BY <1>1, <2>1, <3>1 DEF Latest, About
    <3> QED
      BY <1>0, <1>4, <3>1, <3>2
  <2> QED
    BY <2>2, <2>3
<1> QED
  BY <1>2, <1>3

\* A message that is dropped, or delivered.
LEMMA UnderDrop ==
    ASSUME NEW p, NEW v, NEW t, IsSeq(Mail(p)), NEW d, DropAt(Mail(p), Mail(v), d),
           Passed(Mail(p), t, d, p.shown, v.shown)
    PROVE  Under(v, t) = Under(p, t)
<1> DEFINE q == Mail(p)
           r == Mail(v)
<1>0. /\ IsSeq(q) /\ IsSeq(r) /\ d \in 1..Len(q) /\ Len(r) = Len(q) - 1
      /\ \A i \in 1..(Len(q) - 1) : r[i] = IF i < d THEN q[i] ELSE q[i + 1]
  BY DEF DropAt
<1>1. /\ Len(q) \in Nat /\ DOMAIN q = 1..Len(q) /\ DOMAIN r = 1..(Len(q) - 1)
      /\ About(q, t) \subseteq 1..Len(q) /\ About(r, t) \subseteq 1..(Len(q) - 1)
  BY <1>0, SeqFacts DEF About
<1>2. /\ About(q, t) = {} => Under(p, t) = p.shown[t]
      /\ \A i : Latest(q, t, i) => Under(p, t) = Value(q[i], t)
      /\ About(q, t) # {} => \E i : Latest(q, t, i)
  BY <1>0, UnderIs
<1>3. /\ About(r, t) = {} => Under(v, t) = v.shown[t]
      /\ \A i : Latest(r, t, i) => Under(v, t) = Value(r[i], t)
  BY <1>0, UnderIs
<1>9. \/ \E i \in About(q, t) : i > d
      \/ q[d].topic \notin {t, "initial"} /\ v.shown[t] = p.shown[t]
      \/ d = 1 /\ v.shown[t] = Value(q[1], t) /\ q[1].topic \in {t, "initial"}
  BY DEF Passed
<1> HIDE DEF q, r
<1>4. \A j \in 1..(Len(q) - 1) : j \in About(r, t) <=> IF j < d THEN j \in About(q, t)
                                                          ELSE j + 1 \in About(q, t)
  BY <1>0, <1>1 DEF About
<1>5. d \in About(q, t) <=> q[d].topic \in {t, "initial"}
  BY <1>0, <1>1 DEF About
<1>6. ASSUME NEW i, Latest(q, t, i), i # d PROVE Under(v, t) = Under(p, t)
  <2> DEFINE k == IF i < d THEN i ELSE i - 1
  <2>1. i \in 1..Len(q) /\ i \in About(q, t) /\ \A j \in About(q, t) : j <= i
    BY <1>1, <1>6 DEF Latest
  <2>2. k \in 1..(Len(q) - 1) /\ r[k] = q[i] /\ k \in About(r, t)
    BY <1>0, <1>1, <1>4, <1>6, <2>1
  <2>3. ASSUME NEW j \in About(r, t) PROVE j <= k
    <3>1. j \in 1..(Len(q) - 1) /\ j \in Int
      BY <1>1
    <3>2. IF j < d THEN j <= i ELSE j + 1 <= i
      BY <1>0, <1>4, <2>1, <3>1
    <3> QED
      BY <1>0, <1>1, <1>6, <2>1, <3>1, <3>2
  <2>4. Latest(r, t, k)
    BY <2>2, <2>3 DEF Latest
  <2> QED
    BY <1>2, <1>3, <1>6, <2>2, <2>4
<1>7. CASE About(q, t) = {}
  <2>1. About(r, t) = {}
    BY <1>1, <1>4, <1>7
  <2> QED
    BY <1>0, <1>2, <1>3, <1>5, <1>7, <1>9, <2>1
<1>8. CASE \E i : Latest(q, t, i) /\ i = d
  <2>1. Latest(q, t, d)
    BY <1>8
  <2>2. d \in About(q, t) /\ \A j \in About(q, t) : j <= d
    BY <2>1 DEF Latest
  <2>5. ~\E i \in About(q, t) : i > d
    BY <1>0, <1>1, <2>2
  <2>3. d = 1 /\ v.shown[t] = Value(q[1], t)
    BY <1>0, <1>1, <1>5, <1>9, <2>2, <2>5
  <2>4. About(r, t) = {}
    <3> SUFFICES ASSUME NEW j \in About(r, t) PROVE FALSE
      OBVIOUS
    <3>1. j \in 1..(Len(q) - 1) /\ ~(j < d)
      BY <1>1, <2>3
    <3>2. j + 1 \in About(q, t)
      BY <1>4, <3>1
    <3> QED
      BY <2>2, <2>3, <3>1, <3>2
  <2> QED
    BY <1>2, <1>3, <2>1, <2>3, <2>4
<1> QED
  BY <1>2, <1>6, <1>7, <1>8

-----------------------------------------------------------------------------
(* A page hears of an event *)

IsSnapshot(x) == x = [board |-> x.board, session |-> x.session, queue |-> x.queue]

IsPage(p) == p = [state |-> p.state, sub |-> p.sub, out |-> p.out, shown |-> p.shown,
                  missed |-> p.missed]

PageOK(p) ==
    /\ IsPage(p) /\ IsSeq(p.sub) /\ IsSeq(p.out)
    /\ \A i \in 1..Len(p.sub) : p.sub[i].topic \in Topics
    /\ \A i \in 1..Len(p.out) : \/ p.out[i].topic \in Topics
                                \/ p.out[i].topic = "initial" /\ IsSnapshot(p.out[i].value)
    /\ p.state = "closed" => p.sub = << >> /\ p.out = << >>
    /\ p.state # "closed" => \/ IsSnapshot(p.shown)
                             \/ p.out # << >> /\ p.out[1].topic = "initial"

\* Appending to the second part appends to the whole.
LEMMA ConcatAppend ==
    ASSUME NEW q, IsSeq(q), NEW r, IsSeq(r), NEW e
    PROVE  q \o Append(r, e) = Append(q \o r, e)
<1>1. PICK S : q \in Seq(S)
  BY DEF IsSeq
<1>2. PICK T : r \in Seq(T)
  BY DEF IsSeq
<1> DEFINE U == S \cup T \cup {e}
<1>3. q \in Seq(U) /\ r \in Seq(U) /\ e \in U
  BY <1>1, <1>2
<1> HIDE DEF U
<1> QED
  BY <1>3

\* The mail of a page: the socket's messages, then the subscription's.
LEMMA MailFacts ==
    ASSUME NEW p, IsSeq(p.out), IsSeq(p.sub)
    PROVE  /\ IsSeq(Mail(p)) /\ Len(Mail(p)) = Len(p.out) + Len(p.sub)
           /\ \A i \in 1..Len(p.out) : Mail(p)[i] = p.out[i]
           /\ \A i \in 1..Len(p.sub) : Mail(p)[Len(p.out) + i] = p.sub[i]
<1> DEFINE a == p.out
           b == p.sub
           c == Mail(p)
<1>1. IsSeq(a) /\ IsSeq(b) /\ c = a \o b
  BY DEF Mail
<1> HIDE DEF a, b, c
<1>2. /\ IsSeq(c) /\ Len(c) = Len(a) + Len(b)
      /\ \A i \in 1..Len(a) : c[i] = a[i]
      /\ \A i \in 1..Len(b) : c[Len(a) + i] = b[i]
  BY <1>1, ConcatFacts
<1> QED
  BY <1>2 DEF a, b, c

\* The oldest of the waiting events is dropped.
LEMMA TailDrops ==
    ASSUME NEW p, NEW m, IsSeq(p.out), IsSeq(p.sub), p.sub # << >>,
           m.out = p.out, m.sub = Tail(p.sub)
    PROVE  DropAt(Mail(p), Mail(m), Len(p.out) + 1)
<1> DEFINE q == Mail(p)
           r == Mail(m)
           o == p.out
           b == p.sub
           c == m.sub
           n == Len(o)
<1>1. IsSeq(o) /\ IsSeq(b) /\ b # << >> /\ m.out = o /\ c = Tail(b)
  OBVIOUS
<1> HIDE DEF o, b, c
<1>2. /\ IsSeq(c) /\ Len(c) = Len(b) - 1 /\ Len(b) > 0 /\ Len(b) \in Nat /\ n \in Nat
      /\ \A i \in 1..(Len(b) - 1) : c[i] = b[i + 1]
  BY <1>1, SeqFacts
<1>3. /\ IsSeq(q) /\ Len(q) = n + Len(b)
      /\ \A i \in 1..n : q[i] = o[i]
      /\ \A i \in 1..Len(b) : q[n + i] = b[i]
  BY <1>1, MailFacts DEF o, b
<1>4. /\ IsSeq(r) /\ Len(r) = n + Len(c)
      /\ \A i \in 1..n : r[i] = o[i]
      /\ \A i \in 1..Len(c) : r[n + i] = c[i]
  <2>1. IsSeq(m.out) /\ IsSeq(m.sub)
    BY <1>1, <1>2 DEF c
  <2>2. /\ IsSeq(r) /\ Len(r) = Len(m.out) + Len(m.sub)
        /\ \A i \in 1..Len(m.out) : r[i] = m.out[i]
        /\ \A i \in 1..Len(m.sub) : r[Len(m.out) + i] = m.sub[i]
    BY <2>1, MailFacts
  <2> QED
    BY <1>1, <2>2 DEF c
<1> HIDE DEF q, r, n
<1>5. ASSUME NEW i \in 1..(Len(q) - 1) PROVE r[i] = IF i < n + 1 THEN q[i] ELSE q[i + 1]
  <2>1. CASE i < n + 1
    BY <1>2, <1>3, <1>4, <2>1
  <2>2. CASE ~(i < n + 1)
    <3> DEFINE j == i - n
    <3>1. j \in 1..Len(c) /\ j + 1 \in 1..Len(b) /\ i = n + j /\ i + 1 = n + (j + 1)
          /\ j \in 1..(Len(b) - 1)
      BY <1>2, <1>3, <2>2
    <3> HIDE DEF j
    <3>2. r[n + j] = c[j] /\ q[n + (j + 1)] = b[j + 1] /\ c[j] = b[j + 1]
      BY <1>2, <1>3, <1>4, <3>1
    <3> QED
      BY <2>2, <3>1, <3>2
  <2> QED
    BY <2>1, <2>2
<1>6. n + 1 \in 1..Len(q) /\ Len(r) = Len(q) - 1
  BY <1>2, <1>3, <1>4
<1>7. DropAt(q, r, n + 1)
  BY <1>3, <1>4, <1>5, <1>6 DEF DropAt
<1> QED
  BY <1>7 DEF q, r, n, o

\* What a page is told of a topic it has heard of or lost.
Heard(p, v, e) ==
    /\ v.state = p.state
    /\ p.state # "closed" =>
          \A t \in Topics \ v.missed :
             IF e.topic = t THEN ~e.stale /\ Under(v, t) = e.value
             ELSE t \notin p.missed /\ Under(v, t) = Under(p, t)

\* What a subscribed page makes of an event, its queue full or not.
LEMMA ReceivedOpen ==
    ASSUME NEW p, NEW e, PageOK(p), e.topic \in Topics, p.state \notin {"closed", "opened"}
    PROVE  PageOK(Received(p, e)) /\ Heard(p, Received(p, e), e)
<1> DEFINE full == Len(p.sub) = SubscriberSize
           base == IF full THEN Tail(p.sub) ELSE p.sub
           kept == Append(base, e)
           lost == (IF full THEN {Head(p.sub).topic} ELSE {}) \ {kept[i].topic : i \in DOMAIN kept}
           stale == IF e.stale THEN {e.topic} ELSE {}
           missed == (p.missed \ {e.topic}) \cup ((lost \cup stale) \cap Topics)
           m == [p EXCEPT !.sub = base]
           v == Received(p, e)
<1>1. v = [p EXCEPT !.sub = kept, !.missed = missed]
  BY DEF Received
<1>2. /\ m.state = p.state /\ m.sub = base /\ m.out = p.out /\ m.shown = p.shown
      /\ v.state = p.state /\ v.sub = kept /\ v.out = p.out /\ v.shown = p.shown
      /\ v.missed = missed /\ IsPage(v)
  BY <1>1 DEF PageOK, IsPage
<1>3. IsSeq(p.sub) /\ IsSeq(p.out) /\ Len(p.sub) \in Nat /\ (full => p.sub # << >> /\ Len(p.sub) > 0)
  BY SizeAssumption, SeqFacts DEF PageOK
<1>4. IsSeq(base) /\ \A i \in 1..Len(base) : base[i].topic \in Topics
  <2>1. CASE full
    BY <1>3, <2>1, SeqFacts DEF PageOK
  <2>2. CASE ~full
    BY <1>3, <2>2 DEF PageOK
  <2> QED
    BY <2>1, <2>2
<1>5. ASSUME full, NEW i \in 1..Len(base) PROVE base[i] = p.sub[i + 1]
  BY <1>3, <1>5, SeqFacts
<1> HIDE DEF base
<1>6. /\ IsSeq(kept) /\ Len(kept) = Len(base) + 1 /\ kept[Len(base) + 1] = e
      /\ \A i \in 1..Len(base) : kept[i] = base[i]
  BY <1>4, AppendFacts
<1>7. Mail(v) = Append(Mail(m), e) /\ IsSeq(Mail(m))
  <2> DEFINE o == p.out
  <2>0. IsSeq(o)
    BY <1>3
  <2> HIDE DEF o
  <2>2. o \o kept = Append(o \o base, e)
    BY <1>4, <2>0, ConcatAppend
  <2>3. IsSeq(o \o base)
    BY <1>4, <2>0, ConcatFacts
  <2>1. p.out \o kept = Append(p.out \o base, e) /\ IsSeq(p.out \o base)
    BY <2>2, <2>3 DEF o
  <2> QED
    BY <1>2, <2>1 DEF Mail
<1>8. ASSUME NEW t \in Topics, t \notin missed, e.topic # t
      PROVE  t \notin p.missed /\ Under(m, t) = Under(p, t)
  <2>1. t \notin p.missed /\ t \notin lost
    BY <1>8
  <2>2. CASE ~full
    <3>1. m.sub = p.sub /\ m.out = p.out /\ m.shown = p.shown
      BY <1>2, <2>2 DEF base
    <3> HIDE DEF m
    <3>2. Under(m, t) = Under(p, t)
      BY <3>1 DEF Under
    <3> QED
      BY <2>1, <3>2
  <2>3. CASE full
    <3>1. DropAt(Mail(p), Mail(m), Len(p.out) + 1)
      BY <1>2, <1>3, <2>3, TailDrops DEF base
    <3>2. /\ IsSeq(Mail(p)) /\ Len(Mail(p)) = Len(p.out) + Len(p.sub)
          /\ \A i \in 1..Len(p.sub) : Mail(p)[Len(p.out) + i] = p.sub[i]
      BY <1>3, MailFacts
    <3>3. Mail(p)[Len(p.out) + 1] = p.sub[1] /\ Head(p.sub) = p.sub[1] /\ 1 \in 1..Len(p.sub)
      BY <1>3, <2>3, <3>2, SeqFacts
    <3>4. CASE p.sub[1].topic # t
      <4>1. p.sub[1].topic \notin {t, "initial"}
        BY <3>3, <3>4 DEF PageOK, Topics
      <4>2. Passed(Mail(p), t, Len(p.out) + 1, p.shown, m.shown)
        BY <1>2, <3>3, <4>1 DEF Passed
      <4> QED
        BY <2>1, <3>1, <3>2, <4>2, UnderDrop
    <3>5. CASE p.sub[1].topic = t
      <4>1. PICK k \in DOMAIN kept : kept[k].topic = t
        BY <2>1, <2>3, <3>3, <3>5
      <4>2. k \in 1..Len(base) /\ base[k].topic = t
        BY <1>4, <1>6, <1>8, <4>1, SeqFacts
      <4>3. k + 1 \in 1..Len(p.sub) /\ p.sub[k + 1].topic = t /\ k > 0 /\ k \in Nat
        <5>1. Len(base) = Len(p.sub) - 1
          BY <1>3, <2>3, SeqFacts DEF base
        <5> QED
          <6>1. p.sub[k + 1].topic = t
            BY <1>5, <2>3, <4>2
          <6>2. k \in Nat /\ k > 0 /\ k <= Len(p.sub) - 1
            BY <1>3, <4>2, <5>1
          <6> QED
            BY <1>3, <6>1, <6>2
      <4>4. Len(p.out) \in Nat /\ Len(p.out) + (k + 1) > Len(p.out) + 1
            /\ Len(p.out) + (k + 1) \in 1..Len(Mail(p))
        <5>1. Len(p.out) \in Nat /\ Len(p.sub) \in Nat
          BY <1>3, SeqFacts
        <5> DEFINE a == Len(p.out)
                   b == Len(p.sub)
                   c == Len(Mail(p))
        <5>2. c = a + b /\ k + 1 \in 1..b /\ k \in Nat /\ k > 0 /\ a \in Nat /\ b \in Nat
          BY <3>2, <4>3, <5>1
        <5> HIDE DEF a, b, c
        <5>3. a + (k + 1) > a + 1 /\ a + (k + 1) \in 1..c
          BY <5>2
        <5> QED
          BY <5>2, <5>3 DEF a, c
      <4>5. Len(p.out) + (k + 1) \in About(Mail(p), t)
        BY <3>2, <4>3, <4>4, SeqFacts DEF About
      <4>6. Passed(Mail(p), t, Len(p.out) + 1, p.shown, m.shown)
        BY <4>4, <4>5 DEF Passed
      <4> QED
        BY <2>1, <3>1, <3>2, <4>6, UnderDrop
    <3> QED
      BY <3>4, <3>5
  <2> QED
    BY <2>2, <2>3
<1>9. Heard(p, v, e)
  <2> SUFFICES ASSUME NEW t \in Topics \ missed
               PROVE  IF e.topic = t THEN ~e.stale /\ Under(v, t) = e.value
                      ELSE t \notin p.missed /\ Under(v, t) = Under(p, t)
    BY <1>2 DEF Heard
  <2>1. t # "initial" /\ (e.topic # t => e.topic \notin {t, "initial"})
    BY DEF Topics
  <2>2. e.topic = t => ~e.stale
    OBVIOUS
  <2> HIDE DEF m, v, kept, missed
  <2>3. /\ e.topic = t => Under(v, t) = e.value
        /\ e.topic # t => Under(v, t) = Under(m, t)
    BY <1>2, <1>7, <2>1, UnderAppend, SMTT(20)
  <2> QED
    BY <1>8, <2>2, <2>3
<1>10. PageOK(v)
  <2>1. \A i \in 1..Len(kept) : kept[i].topic \in Topics
    BY <1>4, <1>6, SeqFacts
  <2> HIDE DEF kept, missed, v
  <2> QED
    BY <1>2, <1>6, <2>1 DEF PageOK
<1> QED
  BY <1>9, <1>10

\* What any page makes of an event.
LEMMA ReceivedHeard ==
    ASSUME NEW p, NEW e, PageOK(p), e.topic \in Topics
    PROVE  PageOK(Received(p, e)) /\ Heard(p, Received(p, e), e)
<1> DEFINE v == Received(p, e)
<1>1. CASE p.state = "closed"
  <2>1. v = p
    BY <1>1 DEF Received
  <2> QED
    BY <1>1, <2>1 DEF Heard
<1>2. CASE p.state = "opened"
  <2>1. v = [p EXCEPT !.missed = p.missed \cup ({e.topic} \cap Topics)]
    BY <1>2 DEF Received
  <2> DEFINE missed == p.missed \cup ({e.topic} \cap Topics)
  <2> HIDE DEF v, missed
  <2>7. v = [p EXCEPT !.missed = missed]
    BY <2>1 DEF missed
  <2>8. /\ IsPage(v) /\ v.state = p.state /\ v.sub = p.sub /\ v.out = p.out /\ v.shown = p.shown
        /\ v.missed = missed
    BY <2>7 DEF PageOK, IsPage
  <2>2. /\ IsPage(v) /\ v.state = p.state /\ v.sub = p.sub /\ v.out = p.out /\ v.shown = p.shown
        /\ e.topic \in v.missed /\ \A t \in p.missed : t \in v.missed
    BY <2>8 DEF missed
  <2>3. \A t : Under(v, t) = Under(p, t)
    BY <2>2 DEF Under
  <2>4. Heard(p, v, e)
    BY <1>2, <2>2, <2>3 DEF Heard
  <2>5. PageOK(v)
    BY <1>2, <2>2 DEF PageOK
  <2> QED
    BY <2>4, <2>5 DEF v
<1> QED
  BY <1>1, <1>2, ReceivedOpen

-----------------------------------------------------------------------------
(* What has been published of a state *)

IsFeed(f) ==
    /\ f = [pages |-> f.pages, readers |-> f.readers, last |-> f.last]
    /\ f.pages = [u \in Pages |-> f.pages[u]]
    /\ f.readers = [r \in Readers |-> f.readers[r]]
    /\ \A u \in Pages : PageOK(f.pages[u])
    /\ \A r \in Readers : f.readers[r] = [open |-> f.readers[r].open, slot |-> f.readers[r].slot,
                                          seen |-> f.readers[r].seen]

\* Pages know of the state l all but what they missed and what they are owed.
Told(f, l, owed) ==
    \A u \in Pages : f.pages[u].state # "closed" =>
        \A t \in Topics \ f.pages[u].missed :
            <<u, t>> \in owed \/ Under(f.pages[u], t) = Snapshot(l, u)[t]

\* Readers know the snapshot x.
Got(r) == IF r.slot # << >> THEN r.slot ELSE r.seen
Shows(f, x) == \A r \in Readers : f.readers[r].open => Got(f.readers[r]) = <<x>>

\* _publish_user pays what its user is owed about the session.
LEMMA UserTold ==
    ASSUME NEW f, NEW l, NEW owed, IsFeed(f), Told(f, l, owed), NEW u, NEW e,
           e.topic = "session", e.stale \/ e.value = Session(l, u)
    PROVE  LET g == PublishUser(f, u, e)
           IN  /\ IsFeed(g) /\ Told(g, l, owed \ {<<u, "session">>})
               /\ g.readers = f.readers /\ g.last = f.last
<1> DEFINE ps == [v \in Pages |-> IF v = u THEN Received(f.pages[v], e) ELSE f.pages[v]]
           g == PublishUser(f, u, e)
<1>1. g = [f EXCEPT !.pages = ps]
  BY DEF PublishUser
<1>2. /\ g = [pages |-> ps, readers |-> f.readers, last |-> f.last]
      /\ g.readers = f.readers /\ g.last = f.last /\ g.pages = ps
  BY <1>1 DEF IsFeed
<1>3. e.topic \in Topics
  BY DEF Topics
<1>4. ASSUME NEW v \in Pages
      PROVE  /\ PageOK(ps[v])
             /\ v = u => ps[v] = Received(f.pages[v], e) /\ Heard(f.pages[v], ps[v], e)
             /\ v # u => ps[v] = f.pages[v]
  BY <1>3, ReceivedHeard DEF IsFeed
<1>5. ps = [v \in Pages |-> ps[v]]
  OBVIOUS
<1> HIDE DEF ps, g
<1>6. IsFeed(g)
  BY <1>2, <1>4, <1>5 DEF IsFeed
<1>7. \A t \in Topics : t = "session" => Snapshot(l, u)[t] = Session(l, u)
  BY DEF Snapshot
<1>8. ASSUME NEW v \in Pages, ps[v].state # "closed", NEW t \in Topics \ ps[v].missed
      PROVE  <<v, t>> \in owed \ {<<u, "session">>} \/ Under(ps[v], t) = Snapshot(l, v)[t]
  <2>1. CASE v # u
    BY <1>4, <1>8, <2>1 DEF Told
  <2>2. CASE v = u
    BY <1>4, <1>7, <1>8, <2>2 DEF Told, Heard
  <2> QED
    BY <2>1, <2>2
<1>9. Told(g, l, owed \ {<<u, "session">>})
  BY <1>2, <1>8 DEF Told
<1> QED
  BY <1>2, <1>6, <1>9 DEF g

\* _publish_public: afterwards readers know the snapshot, if they knew what was
\* published before.
LEMMA PublicTold ==
    ASSUME NEW f, IsFeed(f), NEW x, x # << >>, f.last = x => Shows(f, x)
    PROVE  LET g == PublishPublic(f, x)
           IN  /\ IsFeed(g) /\ g.pages = f.pages
               /\ g.last \in {<< >>, x} /\ Shows(g, x)
<1> DEFINE rs == [r \in Readers |-> IF f.readers[r].open THEN [f.readers[r] EXCEPT !.slot = <<x>>]
                                    ELSE f.readers[r]]
           g == PublishPublic(f, x)
<1>1. CASE ~AnyReader(f)
  <2>1. g = [f EXCEPT !.last = << >>]
    BY <1>1 DEF PublishPublic
  <2>2. /\ g = [pages |-> f.pages, readers |-> f.readers, last |-> << >>]
        /\ g.pages = f.pages /\ g.readers = f.readers /\ g.last = << >>
    BY <2>1 DEF IsFeed
  <2> HIDE DEF g
  <2>3. IsFeed(g)
    BY <2>2 DEF IsFeed
  <2>4. Shows(g, x)
    BY <1>1, <2>2 DEF Shows, AnyReader
  <2> QED
    BY <2>2, <2>3, <2>4 DEF g
<1>2. CASE AnyReader(f) /\ x = f.last
  BY <1>2 DEF PublishPublic
<1>3. CASE AnyReader(f) /\ x # f.last
  <2>1. g = [f EXCEPT !.last = x, !.readers = rs]
    BY <1>3 DEF PublishPublic, ToReaders
  <2>2. /\ g = [pages |-> f.pages, readers |-> rs, last |-> x]
        /\ g.pages = f.pages /\ g.readers = rs /\ g.last = x
    BY <2>1 DEF IsFeed
  <2>3. ASSUME NEW r \in Readers
        PROVE  /\ rs[r].open = f.readers[r].open
               /\ rs[r].open => rs[r].slot = <<x>>
               /\ rs[r] = [open |-> rs[r].open, slot |-> rs[r].slot, seen |-> rs[r].seen]
    <3> DEFINE a == f.readers[r]
               b == rs[r]
    <3>1. a = [open |-> a.open, slot |-> a.slot, seen |-> a.seen]
      BY DEF IsFeed
    <3>2. b = IF a.open THEN [a EXCEPT !.slot = <<x>>] ELSE a
      OBVIOUS
    <3> HIDE DEF a, b
    <3>3. /\ b.open = a.open /\ b.open => b.slot = <<x>>
          /\ b = [open |-> b.open, slot |-> b.slot, seen |-> b.seen]
      BY <3>1, <3>2
    <3> QED
      BY <3>3 DEF a, b
  <2>4. rs = [r \in Readers |-> rs[r]]
    OBVIOUS
  <2> HIDE DEF rs
  <2>5. \A r \in Readers : rs[r].open => Got(rs[r]) = <<x>>
    <3> DEFINE s == <<x>>
    <3>1. s # << >>
      OBVIOUS
    <3> HIDE DEF s
    <3>2. \A r \in Readers : rs[r].open => rs[r].slot = s
      BY <2>3 DEF s
    <3>3. \A r \in Readers : rs[r].open => Got(rs[r]) = s
      BY <3>1, <3>2 DEF Got
    <3> QED
      BY <3>3 DEF s
  <2> HIDE DEF g
  <2>6. IsFeed(g)
    BY <2>2, <2>3, <2>4 DEF IsFeed
  <2>7. Shows(g, x)
    BY <2>2, <2>5 DEF Shows
  <2> QED
    BY <2>2, <2>6, <2>7 DEF g
<1> QED
  BY <1>1, <1>2, <1>3

\* A snapshot is never the empty record no reader has heard.
LEMMA SnapshotFacts ==
    ASSUME NEW l
    PROVE  PublicSnapshot(l) # << >>
BY DEF PublicSnapshot

\* A snapshot can be published: if it is the one of last time, it is known.
Publishable(f, x) == f.last = x => Shows(f, x)
Published(f, x) == f.last \in {<< >>, x} /\ Shows(f, x)

\* _broadcast pays every page the event's topic, and tells the readers.
LEMMA BroadcastTold ==
    ASSUME NEW f, NEW l, NEW owed, NEW e, NEW t \in Topics, IsFeed(f), Told(f, l, owed),
           e.topic = t, \A u \in Pages : Snapshot(l, u)[t] = e.value,
           Publishable(f, PublicSnapshot(l))
    PROVE  LET g == Broadcast(f, l, e)
           IN  /\ IsFeed(g) /\ Told(g, l, owed \ (Pages \X {t}))
               /\ Published(g, PublicSnapshot(l))
<1> DEFINE ps == [v \in Pages |-> Received(f.pages[v], e)]
           h == [f EXCEPT !.pages = ps]
           g == Broadcast(f, l, e)
           x == PublicSnapshot(l)
<1>1. g = PublishPublic(h, x)
  BY DEF Broadcast
<1>2. /\ h = [pages |-> ps, readers |-> f.readers, last |-> f.last]
      /\ h.readers = f.readers /\ h.last = f.last /\ h.pages = ps
  BY DEF IsFeed
<1>3. ASSUME NEW v \in Pages
      PROVE  PageOK(ps[v]) /\ Heard(f.pages[v], ps[v], e)
  BY ReceivedHeard DEF IsFeed
<1>4. ps = [v \in Pages |-> ps[v]]
  OBVIOUS
<1>10. x # << >>
  BY SnapshotFacts
<1> HIDE DEF ps, g, h, x
<1>5. IsFeed(h)
  BY <1>2, <1>3, <1>4 DEF IsFeed
<1>6. h.last = x => Shows(h, x)
  BY <1>2 DEF Publishable, Shows, x
<1>7. IsFeed(g) /\ g.pages = ps /\ g.last \in {<< >>, x} /\ Shows(g, x)
  BY <1>1, <1>2, <1>5, <1>6, <1>10, PublicTold
<1>8. ASSUME NEW v \in Pages, ps[v].state # "closed", NEW s \in Topics \ ps[v].missed
      PROVE  <<v, s>> \in owed \ (Pages \X {t}) \/ Under(ps[v], s) = Snapshot(l, v)[s]
  <2>1. CASE s = t
    BY <1>3, <1>8, <2>1 DEF Heard
  <2>2. CASE s # t
    BY <1>3, <1>8, <2>2 DEF Heard, Told
  <2> QED
    BY <2>1, <2>2
<1>9. Told(g, l, owed \ (Pages \X {t}))
  BY <1>7, <1>8 DEF Told
<1> QED
  BY <1>7, <1>9 DEF g, x, Published

-----------------------------------------------------------------------------
(* The events that are published *)

\* A session.updated event pays its user's session.
LEMMA SessionTold ==
    ASSUME NEW f, NEW l, NEW owed, IsFeed(f), Told(f, l, owed), NEW u
    PROVE  LET g == SessionUpdated(f, l, u)
           IN  /\ IsFeed(g) /\ Told(g, l, owed \ {<<u, "session">>})
               /\ g.readers = f.readers /\ g.last = f.last
<1> DEFINE e == Event("session", Session(l, u))
<1>1. e.topic = "session" /\ e.value = Session(l, u)
  BY DEF Event
<1>2. SessionUpdated(f, l, u) = PublishUser(f, u, e)
  BY DEF SessionUpdated
<1> HIDE DEF e
<1> QED
  BY <1>1, <1>2, UserTold

\* A queue.updated event pays every page the queue, and tells the readers.
LEMMA QueueTold ==
    ASSUME NEW f, NEW l, NEW owed, IsFeed(f), Told(f, l, owed),
           Publishable(f, PublicSnapshot(l))
    PROVE  LET g == QueueUpdated(f, l)
           IN  /\ IsFeed(g) /\ Told(g, l, owed \ (Pages \X {"queue"}))
               /\ Published(g, PublicSnapshot(l))
<1> DEFINE e == Event("queue", Queue(l))
<1>1. e.topic = "queue" /\ e.value = Queue(l) /\ "queue" \in Topics
  BY DEF Event, Topics
<1>2. QueueUpdated(f, l) = Broadcast(f, l, e)
  BY DEF QueueUpdated
<1>3. \A u \in Pages : Snapshot(l, u)["queue"] = e.value
  BY <1>1 DEF Snapshot
<1> HIDE DEF e
<1> QED
  BY <1>1, <1>2, <1>3, BroadcastTold

\* A board.updated event pays every page the board, and tells the readers.
LEMMA BoardTold ==
    ASSUME NEW f, NEW l, NEW owed, IsFeed(f), Told(f, l, owed),
           Publishable(f, PublicSnapshot(l))
    PROVE  LET g == BoardUpdated(f, l)
           IN  /\ IsFeed(g) /\ Told(g, l, owed \ (Pages \X {"board"}))
               /\ Published(g, PublicSnapshot(l))
<1> DEFINE e == Event("board", l.board)
<1>1. e.topic = "board" /\ e.value = l.board /\ "board" \in Topics
  BY DEF Event, Topics
<1>2. BoardUpdated(f, l) = Broadcast(f, l, e)
  BY DEF BoardUpdated
<1>3. \A u \in Pages : Snapshot(l, u)["board"] = e.value
  BY <1>1 DEF Snapshot
<1> HIDE DEF e
<1> QED
  BY <1>1, <1>2, <1>3, BroadcastTold

\* When the state changes, pages are owed what has changed of it.
LEMMA NowOwed ==
    ASSUME NEW f, NEW l, NEW m, NEW owed, NEW due, Told(f, l, owed), owed \subseteq due,
           \A u \in Pages : \A t \in Topics :
              <<u, t>> \in due \/ Snapshot(m, u)[t] = Snapshot(l, u)[t]
    PROVE  Told(f, m, due)
BY DEF Told

\* What a snapshot says on each topic.
LEMMA SnapshotIs ==
    ASSUME NEW l, NEW u
    PROVE  /\ Snapshot(l, u)["board"] = l.board
           /\ Snapshot(l, u)["session"] = Session(l, u)
           /\ Snapshot(l, u)["queue"] = Queue(l)
BY DEF Snapshot

-----------------------------------------------------------------------------
(* The queue of sessions *)

Once(q) == \A i, j \in 1..Len(q) : q[i] = q[j] => i = j

\* Taking the first of a queue without repeats.
LEMMA QueueHead ==
    ASSUME NEW S, NEW q \in Seq(S), Once(q), q # << >>
    PROVE  /\ Tail(q) \in Seq(S) /\ Once(Tail(q)) /\ Head(q) \in S
           /\ ToSet(Tail(q)) = ToSet(q) \ {Head(q)} /\ Head(q) \in ToSet(q)
<1> DEFINE r == Tail(q)
           n == Len(q)
<1>1. /\ n \in Nat /\ n > 0 /\ DOMAIN q = 1..n /\ r \in Seq(S) /\ Head(q) = q[1] /\ Len(r) = n - 1
      /\ DOMAIN r = 1..(n - 1) /\ \A i \in 1..(n - 1) : r[i] = q[i + 1]
      /\ q[1] \in S
  OBVIOUS
<1> HIDE DEF r, n
<1>2. Once(r)
  BY <1>1 DEF Once, n
<1>3. q[1] \in ToSet(q)
  BY <1>1 DEF ToSet
<1>4. ASSUME NEW x \in ToSet(r) PROVE x \in ToSet(q) \ {q[1]}
  <2>1. PICK i \in 1..(n - 1) : x = r[i]
    BY <1>1 DEF ToSet
  <2>2. x = q[i + 1] /\ i + 1 \in 1..n /\ i + 1 # 1 /\ 1 \in 1..n
    BY <1>1, <2>1
  <2>3. x # q[1]
    BY <2>2 DEF Once, n
  <2> QED
    BY <1>1, <2>2, <2>3 DEF ToSet
<1>5. ASSUME NEW x \in ToSet(q), x # q[1] PROVE x \in ToSet(r)
  <2>1. PICK i \in 1..n : x = q[i]
    BY <1>1 DEF ToSet
  <2>2. i # 1
    BY <1>5, <2>1
  <2> DEFINE k == i - 1
  <2>3. k \in 1..(n - 1) /\ i = k + 1
    BY <1>1, <2>1, <2>2
  <2> HIDE DEF k
  <2>4. x = r[k]
    BY <1>1, <2>1, <2>3
  <2> QED
    BY <1>1, <2>3, <2>4 DEF ToSet
<1>6. ToSet(r) = ToSet(q) \ {q[1]}
  BY <1>4, <1>5
<1> QED
  BY <1>1, <1>2, <1>3, <1>6 DEF r

\* Adding a new one to a queue without repeats.
LEMMA QueueAppend ==
    ASSUME NEW S, NEW q \in Seq(S), Once(q), NEW x, x \notin S
    PROVE  /\ Append(q, x) \in Seq(S \cup {x}) /\ Once(Append(q, x))
           /\ ToSet(Append(q, x)) = ToSet(q) \cup {x} /\ ToSet(q) \subseteq S
<1> DEFINE r == Append(q, x)
           n == Len(q)
<1>0. q \in Seq(S \cup {x}) /\ x \in S \cup {x}
  OBVIOUS
<1>5. r \in Seq(S \cup {x})
  BY <1>0
<1>1. /\ n \in Nat /\ DOMAIN q = 1..n /\ Len(r) = n + 1
      /\ DOMAIN r = 1..(n + 1) /\ r[n + 1] = x /\ \A i \in 1..n : r[i] = q[i] /\ q[i] \in S
  BY <1>0
<1> HIDE DEF r, n
<1>2. Once(r)
  <2> SUFFICES ASSUME NEW i \in 1..(n + 1), NEW j \in 1..(n + 1), r[i] = r[j] PROVE i = j
    BY <1>1 DEF Once
  <2>1. CASE i = n + 1
    <3>1. ~(j \in 1..n)
      BY <1>1, <2>1
    <3> QED
      BY <1>1, <2>1, <3>1
  <2>2. CASE j = n + 1
    <3>1. ~(i \in 1..n)
      BY <1>1, <2>2
    <3> QED
      BY <1>1, <2>2, <3>1
  <2>3. CASE i # n + 1 /\ j # n + 1
    <3>1. i \in 1..n /\ j \in 1..n
      BY <1>1, <2>3
    <3> QED
      BY <1>1, <3>1 DEF Once, n
  <2> QED
    BY <2>1, <2>2, <2>3
<1>3. ToSet(q) \subseteq S
  BY <1>1 DEF ToSet
<1>4. ToSet(r) = ToSet(q) \cup {x}
  <2>1. \A i \in 1..(n + 1) : i \in 1..n \/ i = n + 1
    BY <1>1
  <2>2. n + 1 \in 1..(n + 1) /\ \A i \in 1..n : i \in 1..(n + 1)
    BY <1>1
  <2>3. \A y : y \in ToSet(r) <=> \E i \in 1..(n + 1) : y = r[i]
    BY <1>1 DEF ToSet
  <2>4. \A y : y \in ToSet(q) <=> \E i \in 1..n : y = q[i]
    BY <1>1 DEF ToSet
  <2>5. \A y : y \in ToSet(r) <=> y \in ToSet(q) \/ y = x
    BY <1>1, <2>1, <2>2, <2>3, <2>4
  <2> QED
    BY <2>5
<1> QED
  BY <1>2, <1>3, <1>4, <1>5 DEF r

\* A sequence without its k-th element.
LEMMA RemoveAtShape ==
    ASSUME NEW S, NEW q \in Seq(S), NEW k \in 1..Len(q)
    PROVE  /\ RemoveAt(q, k) \in Seq(S)
           /\ Len(RemoveAt(q, k)) = Len(q) - 1
           /\ \A j \in 1..(Len(q) - 1) : RemoveAt(q, k)[j] = IF j < k THEN q[j] ELSE q[j + 1]
<1>0. Len(q) \in Nat /\ \A j \in 1..Len(q) : q[j] \in S
  OBVIOUS
<1> DEFINE a == SubSeq(q, 1, k - 1)
           b == SubSeq(q, k + 1, Len(q))
<1>1. RemoveAt(q, k) = a \o b
  BY DEF RemoveAt
<1>3. a \in Seq(S) /\ Len(a) = k - 1 /\ \A j \in 1..(k - 1) : a[j] = q[j]
  BY <1>0, SubSeqProperties
<1>4. b \in Seq(S) /\ Len(b) = Len(q) - k /\ \A j \in 1..(Len(q) - k) : b[j] = q[k + j]
  BY <1>0, SubSeqProperties
<1> HIDE DEF a, b
<1>5. /\ a \o b \in Seq(S)
      /\ Len(a \o b) = Len(a) + Len(b)
      /\ \A j \in 1..(Len(a) + Len(b)) : (a \o b)[j] = IF j <= Len(a) THEN a[j] ELSE b[j - Len(a)]
  BY <1>3, <1>4, ConcatProperties
<1>6. Len(a \o b) = Len(q) - 1
  BY <1>0, <1>3, <1>4, <1>5
<1>7. ASSUME NEW j \in 1..(Len(q) - 1)
      PROVE  (a \o b)[j] = IF j < k THEN q[j] ELSE q[j + 1]
  <2>1. CASE j < k
    BY <1>0, <1>3, <1>4, <1>5, <2>1
  <2>2. CASE ~(j < k)
    <3>1. (a \o b)[j] = b[j - (k - 1)]
      BY <1>0, <1>3, <1>4, <1>5, <2>2
    <3>2. j - (k - 1) \in 1..(Len(q) - k) /\ k + (j - (k - 1)) = j + 1
      BY <1>0, <2>2
    <3> QED
      BY <1>4, <2>2, <3>1, <3>2
  <2> QED
    BY <2>1, <2>2
<1> QED
  BY <1>1, <1>5, <1>6, <1>7

\* Removing one from a queue without repeats removes it altogether.
LEMMA QueueRemove ==
    ASSUME NEW S, NEW q \in Seq(S), Once(q), NEW x \in ToSet(q)
    PROVE  /\ RemoveFirst(q, x) \in Seq(S) /\ Once(RemoveFirst(q, x))
           /\ ToSet(RemoveFirst(q, x)) = ToSet(q) \ {x}
           /\ Len(RemoveFirst(q, x)) # Len(q)
<1> DEFINE r == RemoveFirst(q, x)
           n == Len(q)
<1>1. n \in Nat /\ DOMAIN q = 1..n
  OBVIOUS
<1>2. PICK k \in 1..n : q[k] = x
  BY <1>1 DEF ToSet
<1>3. r = RemoveAt(q, k)
  <2>1. {i \in 1..n : q[i] = x} = {k}
    BY <1>2 DEF Once
  <2>2. Min({k}) = k
    BY <1>1, <1>2 DEF Min
  <2>3. SelectInSeq(q, LAMBDA v : v = x) = k
    BY <2>1, <2>2 DEF SelectInSeq
  <2> QED
    BY <1>2, <2>3 DEF RemoveFirst
<1>4. /\ r \in Seq(S) /\ Len(r) = n - 1
      /\ \A j \in 1..(n - 1) : r[j] = IF j < k THEN q[j] ELSE q[j + 1]
  BY <1>3, RemoveAtShape
<1>5. DOMAIN r = 1..(n - 1)
  BY <1>4
<1>6. \A i, j \in 1..n : q[i] = q[j] => i = j
  BY DEF Once
<1> HIDE DEF r, n
<1>7. Once(r)
  <2> SUFFICES ASSUME NEW i \in 1..(n - 1), NEW j \in 1..(n - 1), r[i] = r[j] PROVE i = j
    BY <1>4 DEF Once
  <2>1. PICK a \in 1..n : r[i] = q[a] /\ a = IF i < k THEN i ELSE i + 1
    BY <1>1, <1>4
  <2>2. PICK b \in 1..n : r[j] = q[b] /\ b = IF j < k THEN j ELSE j + 1
    BY <1>1, <1>4, SMTT(20)
  <2>3. a = b
    BY <1>6, <2>1, <2>2
  <2> QED
    BY <1>1, <1>2, <2>1, <2>2, <2>3
<1>8. ASSUME NEW y \in ToSet(r) PROVE y \in ToSet(q) \ {x}
  <2>1. PICK j \in 1..(n - 1) : y = r[j]
    BY <1>5 DEF ToSet
  <2>2. PICK b \in 1..n : r[j] = q[b] /\ b = IF j < k THEN j ELSE j + 1
    BY <1>1, <1>4
  <2>3. b # k
    BY <1>1, <1>2, <2>1, <2>2
  <2> QED
    BY <1>1, <1>2, <1>6, <2>1, <2>2, <2>3 DEF ToSet
<1>9. ASSUME NEW y \in ToSet(q), y # x PROVE y \in ToSet(r)
  <2>1. PICK b \in 1..n : y = q[b]
    BY <1>1 DEF ToSet
  <2>2. b # k
    BY <1>2, <1>9, <2>1
  <2> DEFINE j == IF b < k THEN b ELSE b - 1
  <2>3. j \in 1..(n - 1) /\ b = (IF j < k THEN j ELSE j + 1)
    BY <1>1, <1>2, <2>1, <2>2
  <2> HIDE DEF j
  <2>4. y = r[j]
    BY <1>4, <2>1, <2>3
  <2> QED
    BY <1>5, <2>3, <2>4 DEF ToSet
<1>10. Len(r) # n
  BY <1>1, <1>4
<1> QED
  BY <1>4, <1>7, <1>8, <1>9, <1>10 DEF r, n

-----------------------------------------------------------------------------
(* What there is to tell *)

IsLab(l) == l = [board |-> l.board, connected |-> l.connected, waiting |-> l.waiting,
                 active |-> l.active, owners |-> l.owners, demos |-> l.demos]

IsSession(a) ==
    /\ a = [id |-> a.id, status |-> a.status, deadline |-> a.deadline]
    /\ a.status \in {"none", "starting", "active", "ending"}

LabOK(l) ==
    /\ IsLab(l) /\ IsSession(l.active)
    /\ l.owners \in Seq(Visitors)
    /\ l.waiting \in Seq(1..Len(l.owners)) /\ Once(l.waiting)
    /\ l.active.id \in 0..Len(l.owners) /\ l.active.id \notin ToSet(l.waiting)
    /\ l.active.id = 0 => l.active = NoSession

\* u is told nothing else of its session by m than by l.
SameSession(l, m, u) == Session(l, u) = Session(m, u)

Mine(l, u) == l.active.id # 0 /\ l.owners[l.active.id] = u

\* The session of a user who is neither dequeued nor on the board is kept.
LEMMA SessionKept ==
    ASSUME NEW l, NEW m, NEW u, Waiting(l, u) = Waiting(m, u), Mine(l, u) <=> Mine(m, u),
           Mine(l, u) => l.active = m.active
    PROVE  SameSession(l, m, u)
BY DEF SameSession, Session, Mine

\* The fields of the absent session.
LEMMA NoSessionFacts == NoSession.id = 0 /\ NoSession.status = "none" /\ NoSession.deadline = FALSE
BY DEF NoSession

\* What a change of the queue and of the active session leaves.
SetQueue(l, q, a) == [l EXCEPT !.waiting = q, !.active = a]
SetActive(l, a) == [l EXCEPT !.active = a]

\* A change of the queue and of the active session that keeps the lab well formed.
LEMMA Requeued ==
    ASSUME NEW l, LabOK(l), NEW q, q \in Seq(1..Len(l.owners)), Once(q), NEW a, IsSession(a),
           a.id \in 0..Len(l.owners), a.id \notin ToSet(q), a.id = 0 => a = NoSession,
           NEW m, m = SetQueue(l, q, a)
    PROVE  /\ LabOK(m) /\ m.board = l.board /\ m.connected = l.connected
           /\ m.waiting = q /\ m.active = a /\ m.owners = l.owners /\ m.demos = l.demos
<1> DEFINE k == [l EXCEPT !.waiting = q]
<1>1. m = [k EXCEPT !.active = a]
  BY DEF SetQueue
<1>0. IsLab(l)
  BY DEF LabOK
<1>2. /\ IsLab(k) /\ k.board = l.board /\ k.connected = l.connected
      /\ k.waiting = q /\ k.active = l.active /\ k.owners = l.owners /\ k.demos = l.demos
  BY <1>0 DEF IsLab
<1> HIDE DEF k
<1>3. /\ IsLab(m) /\ m.board = l.board /\ m.connected = l.connected
      /\ m.waiting = q /\ m.active = a /\ m.owners = l.owners /\ m.demos = l.demos
  BY <1>1, <1>2 DEF IsLab
<1>4. LabOK(m)
  BY <1>3 DEF LabOK
<1> QED
  BY <1>3, <1>4

\* What _try_start_next leaves: the head of the queue is starting.
LEMMA StartNextIs ==
    ASSUME NEW l, LabOK(l), MayStart(l)
    PROVE  LET m == StartNext(l)
               h == Head(l.waiting)
           IN  /\ LabOK(m)
               /\ m.board = l.board /\ m.connected = l.connected /\ m.owners = l.owners
               /\ Len(m.waiting) # Len(l.waiting)
               /\ m.active = [id |-> h, status |-> "starting", deadline |-> FALSE]
               /\ m.active.id = h /\ m.active.status = "starting"
               /\ \A u : u # l.owners[h] => SameSession(l, m, u)
<1> DEFINE m == StartNext(l)
           h == Head(l.waiting)
           q == Tail(l.waiting)
           a == [id |-> h, status |-> "starting", deadline |-> FALSE]
<1>1. m = SetQueue(l, q, a)
  BY DEF StartNext, SetQueue
<1>2. /\ q \in Seq(1..Len(l.owners)) /\ Once(q) /\ h \in 1..Len(l.owners)
      /\ ToSet(q) = ToSet(l.waiting) \ {h} /\ h \in ToSet(l.waiting)
  BY QueueHead DEF LabOK, MayStart
<1>3. l.active = NoSession /\ l.active.id = 0 /\ Len(l.owners) \in Nat
  BY NoSessionFacts DEF MayStart, LabOK
<1>4. a.id = h /\ a.status = "starting" /\ a.deadline = FALSE
  OBVIOUS
<1> HIDE DEF a, q, h, m
<1>5. IsSession(a)
  BY <1>4 DEF a, IsSession
<1>6. a.id \in 0..Len(l.owners) /\ a.id \notin ToSet(q) /\ a.id # 0
  BY <1>2, <1>3, <1>4
<1>7. /\ LabOK(m) /\ m.board = l.board /\ m.connected = l.connected
      /\ m.waiting = q /\ m.active = a /\ m.owners = l.owners /\ m.demos = l.demos
  BY <1>1, <1>2, <1>5, <1>6, Requeued
<1>8. Len(m.waiting) # Len(l.waiting)
  <2>1. l.waiting \in Seq(1..Len(l.owners)) /\ l.waiting # << >>
    BY DEF LabOK, MayStart
  <2>2. Len(q) = Len(l.waiting) - 1 /\ Len(l.waiting) \in Nat
    BY <2>1 DEF q
  <2> QED
    BY <1>7, <2>2
<1>9. ASSUME NEW u, u # l.owners[h] PROVE SameSession(l, m, u)
  <2>1. ~Mine(l, u) /\ ~Mine(m, u)
    BY <1>3, <1>4, <1>7, <1>9 DEF Mine
  <2>2. Waiting(l, u) = Waiting(m, u)
    BY <1>2, <1>7, <1>9 DEF Waiting
  <2> QED
    BY <2>1, <2>2, SessionKept
<1> QED
  BY <1>4, <1>7, <1>8, <1>9 DEF a, m, h

\* The session that has the board changes.
LEMMA ActiveIs ==
    ASSUME NEW l, LabOK(l), NEW a, IsSession(a), a.id = l.active.id, a.id # 0,
           NEW m, m = SetActive(l, a)
    PROVE  /\ LabOK(m) /\ m.board = l.board /\ m.connected = l.connected
           /\ m.waiting = l.waiting /\ m.active = a /\ m.owners = l.owners /\ m.demos = l.demos
           /\ \A u : u # l.owners[l.active.id] => SameSession(l, m, u)
<1>0. IsLab(l)
  BY DEF LabOK
<1>1. /\ IsLab(m) /\ m.board = l.board /\ m.connected = l.connected
      /\ m.waiting = l.waiting /\ m.active = a /\ m.owners = l.owners /\ m.demos = l.demos
  BY <1>0 DEF IsLab, SetActive
<1>2. LabOK(m)
  BY <1>1 DEF LabOK
<1>3. ASSUME NEW u, u # l.owners[l.active.id] PROVE SameSession(l, m, u)
  <2>1. ~Mine(l, u) /\ ~Mine(m, u)
    BY <1>1, <1>3 DEF Mine
  <2>2. Waiting(l, u) = Waiting(m, u)
    BY <1>1 DEF Waiting
  <2> QED
    BY <2>1, <2>2, SessionKept
<1> QED
  BY <1>1, <1>2, <1>3

\* What ending the active session leaves.
LEMMA EndingIs ==
    ASSUME NEW l, LabOK(l), l.active # NoSession
    PROVE  LET m == Ending(l)
           IN  /\ LabOK(m) /\ m.board = l.board /\ m.connected = l.connected
               /\ m.waiting = l.waiting /\ m.owners = l.owners /\ m.demos = l.demos
               /\ m.active.id = l.active.id /\ m.active.status = "ending"
               /\ \A u : u # l.owners[l.active.id] => SameSession(l, m, u)
<1> DEFINE m == Ending(l)
           b == l.active
           a == [b EXCEPT !.status = "ending"]
<1>1. m = SetActive(l, a)
  BY DEF Ending, SetActive
<1>2. IsSession(b) /\ b.id \in 1..Len(l.owners) /\ b.id # 0 /\ b.id \notin ToSet(l.waiting)
  BY DEF LabOK
<1>3. IsSession(a) /\ a.id = l.active.id /\ a.status = "ending"
  <2> HIDE DEF b
  <2>1. IsSession(a) /\ a.id = b.id /\ a.status = "ending"
    BY <1>2 DEF IsSession
  <2> QED
    BY <2>1 DEF b
<1> HIDE DEF a, m
<1>4. /\ LabOK(m) /\ m.board = l.board /\ m.connected = l.connected
      /\ m.waiting = l.waiting /\ m.active = a /\ m.owners = l.owners /\ m.demos = l.demos
      /\ \A u : u # l.owners[l.active.id] => SameSession(l, m, u)
  BY <1>1, <1>2, <1>3, ActiveIs
<1> QED
  BY <1>3, <1>4 DEF m

\* What a finished start leaves: the session is active, with a deadline if others wait.
LEMMA ActivatedIs ==
    ASSUME NEW l, LabOK(l), l.active.id # 0, l.active.status = "starting"
    PROVE  LET m == Activated(l)
           IN  /\ LabOK(m) /\ m.board = l.board /\ m.connected = l.connected
               /\ m.waiting = l.waiting /\ m.owners = l.owners /\ m.demos = l.demos
               /\ m.active.id = l.active.id /\ m.active.status = "active"
               /\ \A u : u # l.owners[l.active.id] => SameSession(l, m, u)
<1> DEFINE m == Activated(l)
           b == l.active
           d == l.waiting # << >>
           c == [b EXCEPT !.status = "active"]
           a == [c EXCEPT !.deadline = d]
<1>1. m = SetActive(l, a)
  BY DEF Activated, SetActive
<1>2. IsSession(b) /\ b.id \in 1..Len(l.owners) /\ b.id # 0
  BY DEF LabOK
<1>3. IsSession(a) /\ a.id = b.id /\ a.status = "active"
  <2> HIDE DEF b, d
  <2>1. IsSession(c) /\ c.id = b.id /\ c.status = "active"
    BY <1>2 DEF IsSession
  <2> HIDE DEF c
  <2> QED
    BY <2>1 DEF IsSession
<1> HIDE DEF a, m
<1>4. /\ LabOK(m) /\ m.board = l.board /\ m.connected = l.connected
      /\ m.waiting = l.waiting /\ m.active = a /\ m.owners = l.owners /\ m.demos = l.demos
      /\ \A u : u # l.owners[l.active.id] => SameSession(l, m, u)
  BY <1>1, <1>2, <1>3, ActiveIs
<1> QED
  BY <1>3, <1>4 DEF m

\* What finish_active leaves: nobody has the board.
LEMMA FinishedIs ==
    ASSUME NEW l, LabOK(l)
    PROVE  LET m == Finished(l)
           IN  /\ LabOK(m) /\ m.board = l.board /\ m.connected = l.connected
               /\ m.waiting = l.waiting /\ m.owners = l.owners /\ m.demos = l.demos
               /\ m.active = NoSession
               /\ \A u : l.active = NoSession \/ u # l.owners[l.active.id] => SameSession(l, m, u)
<1> DEFINE m == Finished(l)
           q == l.waiting
           a == NoSession
<1>1. m = SetQueue(l, q, a)
  <2>1. IsLab(l)
    BY DEF LabOK
  <2> DEFINE k == [l EXCEPT !.waiting = q]
  <2>2. SetQueue(l, q, a) = [k EXCEPT !.active = a]
    BY DEF SetQueue
  <2>3. k = l
    BY <2>1 DEF IsLab
  <2> QED
    BY <2>2, <2>3 DEF Finished
<1>2. q \in Seq(1..Len(l.owners)) /\ Once(q) /\ Len(l.owners) \in Nat
  BY DEF LabOK
<1>7. \A i \in ToSet(q) : i \in 1..Len(l.owners)
  BY <1>2 DEF ToSet
<1>3. IsSession(a) /\ a.id \in 0..Len(l.owners) /\ a.id \notin ToSet(q) /\ (a.id = 0 => a = NoSession)
  BY <1>2, <1>7 DEF NoSession, IsSession
<1> HIDE DEF a, q, m
<1>4. /\ LabOK(m) /\ m.board = l.board /\ m.connected = l.connected
      /\ m.waiting = q /\ m.active = a /\ m.owners = l.owners /\ m.demos = l.demos
  BY <1>1, <1>2, <1>3, Requeued
<1>5. a.id = 0 /\ a.status = "none"
  BY NoSessionFacts DEF a
<1>10. ASSUME NEW u, l.active = NoSession \/ u # l.owners[l.active.id] PROVE SameSession(l, m, u)
  <2>1. ~Mine(m, u)
    BY <1>4, <1>5 DEF Mine
  <2>2. Waiting(l, u) = Waiting(m, u)
    BY <1>4 DEF Waiting, q
  <2>3. ~Mine(l, u)
    BY <1>10, NoSessionFacts DEF Mine
  <2> QED
    BY <2>1, <2>2, <2>3, SessionKept
<1> QED
  BY <1>4, <1>10 DEF m, q, a

SetBoard(l, b) == [l EXCEPT !.board = b, !.connected = TRUE]

\* What an update of the board and of the connection leaves.
LEMMA BoardIs ==
    ASSUME NEW l, LabOK(l), NEW b, NEW c
    PROVE  LET m == SetBoard(l, b)
               n == [l EXCEPT !.board = b]
               o == [l EXCEPT !.connected = c]
           IN  /\ LabOK(m) /\ m.board = b /\ m.connected = TRUE
               /\ m.waiting = l.waiting /\ m.active = l.active /\ m.owners = l.owners /\ m.demos = l.demos
               /\ \A u : SameSession(l, m, u)
               /\ LabOK(n) /\ n.board = b /\ n.connected = l.connected
               /\ n.waiting = l.waiting /\ n.active = l.active /\ n.owners = l.owners /\ n.demos = l.demos
               /\ \A u : SameSession(l, n, u)
               /\ LabOK(o) /\ o.board = l.board /\ o.connected = c
               /\ o.waiting = l.waiting /\ o.active = l.active /\ o.owners = l.owners /\ o.demos = l.demos
               /\ \A u : SameSession(l, o, u)
<1> DEFINE m == SetBoard(l, b)
           n == [l EXCEPT !.board = b]
           o == [l EXCEPT !.connected = c]
<1>0. IsLab(l)
  BY DEF LabOK
<1>1. /\ IsLab(n) /\ n.board = b /\ n.connected = l.connected
      /\ n.waiting = l.waiting /\ n.active = l.active /\ n.owners = l.owners /\ n.demos = l.demos
  BY <1>0 DEF IsLab
<1>2. /\ IsLab(o) /\ o.board = l.board /\ o.connected = c
      /\ o.waiting = l.waiting /\ o.active = l.active /\ o.owners = l.owners /\ o.demos = l.demos
  BY <1>0 DEF IsLab
<1>3. m = [n EXCEPT !.connected = TRUE]
  BY DEF SetBoard
<1> HIDE DEF n, o, m
<1>4. /\ IsLab(m) /\ m.board = b /\ m.connected = TRUE
      /\ m.waiting = l.waiting /\ m.active = l.active /\ m.owners = l.owners /\ m.demos = l.demos
  BY <1>1, <1>3 DEF IsLab
<1>5. ASSUME NEW k, IsLab(k), k.waiting = l.waiting, k.active = l.active, k.owners = l.owners
      PROVE  LabOK(k) /\ \A u : SameSession(l, k, u)
  <2>1. LabOK(k)
    BY <1>5 DEF LabOK
  <2>3. \A u : SameSession(l, k, u)
    BY <1>5 DEF SameSession, Session, Waiting
  <2> QED
    BY <2>1, <2>3
<1> QED
  BY <1>1, <1>2, <1>4, <1>5 DEF m, n, o

\* The owner of the board is the only one to hear of a new deadline.
DeadlineKept(l, m, u) ==
    l.active.deadline = m.active.deadline \/ u # l.owners[l.active.id]

\* What creating a session leaves: a new session at the end of the queue.
LEMMA CreateIs ==
    ASSUME NEW l, LabOK(l), NEW u \in Visitors, NEW e
    PROVE  LET m == Create(l, u, e)
           IN  /\ LabOK(m) /\ Len(m.waiting) # Len(l.waiting) /\ m.board = l.board /\ m.connected = l.connected
               /\ m.active.id = l.active.id /\ m.active.status = l.active.status
               /\ l.active.id # 0 => m.owners[l.active.id] = l.owners[l.active.id]
               /\ \A v : v # u /\ DeadlineKept(l, m, v) => SameSession(l, m, v)
<1> DEFINE m == Create(l, u, e)
           n == Len(l.owners)
           b == l.active
           q == Append(l.waiting, n + 1)
           o == Append(l.owners, u)
           d == b.deadline \/ b.status = "active"
           a == [b EXCEPT !.deadline = d]
           j == [l EXCEPT !.waiting = q]
           i == [j EXCEPT !.owners = o]
           k == [i EXCEPT !.demos = Append(@, e)]
<1>0. IsLab(l) /\ IsSession(b)
  BY DEF LabOK
<1>1. m = [k EXCEPT !.active = a]
  BY DEF Create
<1>2. IsSession(a) /\ a.id = b.id /\ a.status = b.status /\ (b.deadline = a.deadline => a = b)
      /\ a.deadline = d
  <2> HIDE DEF b, d
  <2> QED
    BY <1>0 DEF IsSession
<1> HIDE DEF a, q, o, m, d, b
<1>3. /\ IsLab(j) /\ j.board = l.board /\ j.connected = l.connected
      /\ j.waiting = q /\ j.active = l.active /\ j.owners = l.owners
  BY <1>0 DEF IsLab
<1> HIDE DEF j
<1>4. /\ IsLab(k) /\ k.board = l.board /\ k.connected = l.connected
      /\ k.waiting = q /\ k.active = l.active /\ k.owners = o
  <2>1. /\ IsLab(i) /\ i.board = l.board /\ i.connected = l.connected
        /\ i.waiting = q /\ i.active = l.active /\ i.owners = o
    BY <1>3 DEF IsLab
  <2> HIDE DEF i
  <2> QED
    BY <2>1 DEF IsLab
<1> HIDE DEF k
<1>5. /\ IsLab(m) /\ m.board = l.board /\ m.connected = l.connected
      /\ m.waiting = q /\ m.active = a /\ m.owners = o
  BY <1>1, <1>4 DEF IsLab
<1>6. /\ n \in Nat /\ o \in Seq(Visitors) /\ Len(o) = n + 1
      /\ o[n + 1] = u /\ \A x \in 1..n : o[x] = l.owners[x]
  BY DEF LabOK, o
<1>7. /\ q \in Seq((1..n) \cup {n + 1}) /\ Once(q)
      /\ ToSet(q) = ToSet(l.waiting) \cup {n + 1} /\ ToSet(l.waiting) \subseteq 1..n
  <2>1. l.waiting \in Seq(1..n) /\ Once(l.waiting) /\ n + 1 \notin 1..n
    BY <1>6 DEF LabOK
  <2> HIDE DEF n
  <2> QED
    BY <2>1, QueueAppend DEF q
<1>11. b.id \in 0..n /\ b.id \notin ToSet(l.waiting) /\ (b.id = 0 => b = NoSession) /\ l.active = b
  BY DEF LabOK, b
<1> HIDE DEF n
<1>8. LabOK(m)
  <2>1. (1..n) \cup {n + 1} = 1..(n + 1)
    BY <1>6
  <2>2. q \in Seq(1..Len(o))
    BY <1>6, <1>7, <2>1
  <2>3. a.id \in 0..Len(o) /\ a.id \notin ToSet(q)
    BY <1>2, <1>6, <1>7, <1>11
  <2>4. a.id = 0 => a = NoSession
    <3> SUFFICES ASSUME a.id = 0 PROVE a = NoSession
      OBVIOUS
    <3>1. b = NoSession
      BY <1>2, <1>11
    <3>2. d = FALSE
      BY <3>1 DEF d, NoSession
    <3>3. a.deadline = b.deadline
      BY <1>2, <3>1, <3>2, NoSessionFacts
    <3> QED
      BY <1>2, <3>1, <3>3
  <2> QED
    BY <1>2, <1>5, <1>6, <1>7, <2>2, <2>3, <2>4 DEF LabOK
<1>9. Len(m.waiting) # Len(l.waiting)
  <2>1. l.waiting \in Seq(1..Len(l.owners))
    BY DEF LabOK
  <2>2. Len(q) = Len(l.waiting) + 1 /\ Len(l.waiting) \in Nat
    BY <2>1 DEF q
  <2> QED
    BY <1>5, <2>2
<1>10. ASSUME NEW v, v # u, DeadlineKept(l, m, v) PROVE SameSession(l, m, v)
  <2>1. \A x \in ToSet(l.waiting) : o[x] = l.owners[x]
    BY <1>6, <1>7
  <2>2. Waiting(l, v) = Waiting(m, v)
    BY <1>5, <1>6, <1>7, <1>10, <2>1 DEF Waiting
  <2>3. b.id # 0 => o[b.id] = l.owners[b.id]
    BY <1>6, <1>11
  <2>4. Mine(l, v) <=> Mine(m, v)
    BY <1>2, <1>5, <1>11, <2>3 DEF Mine
  <2>5. Mine(l, v) => l.active = m.active
    BY <1>2, <1>5, <1>10, <1>11 DEF Mine, DeadlineKept
  <2> QED
    BY <2>2, <2>4, <2>5, SessionKept
<1> QED
  BY <1>2, <1>5, <1>6, <1>8, <1>9, <1>10, <1>11 DEF m

\* What cancelling a session leaves: the queue without the session.
LEMMA CancelIs ==
    ASSUME NEW l, LabOK(l), NEW u, NEW id \in Waiting(l, u)
    PROVE  LET m == Cancel(l, id)
           IN  /\ LabOK(m) /\ Len(m.waiting) # Len(l.waiting) /\ m.board = l.board
               /\ m.active.id = l.active.id /\ m.active.status = l.active.status
               /\ m.owners = l.owners
               /\ \A v : v # u /\ DeadlineKept(l, m, v) => SameSession(l, m, v)
<1> DEFINE m == Cancel(l, id)
           b == l.active
           q == RemoveFirst(l.waiting, id)
           d == b.deadline /\ q # << >>
           a == [b EXCEPT !.deadline = d]
<1>0. IsLab(l) /\ IsSession(b)
  BY DEF LabOK
<1>1. m = SetQueue(l, q, a)
  BY DEF Cancel, SetQueue
<1>2. IsSession(a) /\ a.id = b.id /\ a.status = b.status /\ (b.deadline = a.deadline => a = b)
      /\ a.deadline = d
  <2> HIDE DEF b, d
  <2> QED
    BY <1>0 DEF IsSession
<1>3. id \in ToSet(l.waiting) /\ l.owners[id] = u
  BY DEF Waiting
<1>4. q \in Seq(1..Len(l.owners)) /\ Once(q) /\ ToSet(q) = ToSet(l.waiting) \ {id}
      /\ Len(q) # Len(l.waiting)
  BY <1>3, QueueRemove DEF LabOK
<1>5. b.id \in 0..Len(l.owners) /\ b.id \notin ToSet(l.waiting) /\ (b.id = 0 => b = NoSession)
      /\ l.active = b
  BY DEF LabOK
<1> HIDE DEF a, q, m, b
<1>6. a.id \in 0..Len(l.owners) /\ a.id \notin ToSet(q)
  BY <1>2, <1>4, <1>5
<1>7. a.id = 0 => a = NoSession
  <2> SUFFICES ASSUME a.id = 0 PROVE a = NoSession
    OBVIOUS
  <2>1. b = NoSession
    BY <1>2, <1>5
  <2>2. d = FALSE
    BY <2>1, NoSessionFacts
  <2>3. a.deadline = b.deadline
    BY <1>2, <2>1, <2>2, NoSessionFacts
  <2> QED
    BY <1>2, <2>1, <2>3
<1>8. /\ LabOK(m) /\ m.board = l.board /\ m.connected = l.connected
      /\ m.waiting = q /\ m.active = a /\ m.owners = l.owners /\ m.demos = l.demos
  BY <1>1, <1>2, <1>4, <1>6, <1>7, Requeued
<1>9. Len(m.waiting) # Len(l.waiting)
  BY <1>4, <1>8
<1>10. ASSUME NEW v, v # u, DeadlineKept(l, m, v) PROVE SameSession(l, m, v)
  <2>1. Waiting(l, v) = Waiting(m, v)
    BY <1>3, <1>4, <1>8, <1>10 DEF Waiting
  <2>2. Mine(l, v) <=> Mine(m, v)
    BY <1>2, <1>5, <1>8 DEF Mine
  <2>3. Mine(l, v) => l.active = m.active
    BY <1>2, <1>5, <1>8, <1>10 DEF Mine, DeadlineKept
  <2> QED
    BY <2>1, <2>2, <2>3, SessionKept
<1> QED
  BY <1>2, <1>5, <1>8, <1>9, <1>10 DEF m

-----------------------------------------------------------------------------
(* The invariant *)

IsWork(w) ==
    /\ w = [starts |-> w.starts, resets |-> w.resets, enders |-> w.enders, lock |-> w.lock,
            problem |-> w.problem]
    /\ w.resets \in Nat

\* Unannounced and Owed, of a state that a step passes through.
Unheard(l, w) == l.active.status = "ending" \/ w.resets > 0

Debt(l, w) ==
    {x \in Pages \X Topics :
       \/ /\ x[2] = "session" /\ w.problem # 0 /\ w.problem = l.active.id
          /\ l.owners[w.problem] = x[1]
       \/ x[2] = "queue" /\ Unheard(l, w)}

\* Snapshot c is x without the demo.
Quieted(x, c) ==
    /\ c.demo = NoDemo /\ x.demo # NoDemo
    /\ x.online = c.online /\ x.board = c.board /\ x.waiting = c.waiting

\* What was published last is current, or tells of a session that is over.
PublicOK(f, l) ==
    /\ f.last \in {<< >>, PublicSnapshot(l)} \/ Quieted(f.last, PublicSnapshot(l))
    /\ Publishable(f, PublicSnapshot(l))

Sound(l, w, f) ==
    /\ LabOK(l) /\ IsWork(w) /\ IsFeed(f)
    /\ Told(f, l, Debt(l, w))
    /\ PublicOK(f, l)
    /\ Unheard(l, w) \/ Shows(f, PublicSnapshot(l))

FeedsInv == Sound(lab, work, Feed)

\* The next snapshot equals the one published last only if readers know it, unless
\* it adds a demo to the present one and nothing else.
LEMMA CanPublish ==
    ASSUME NEW f, NEW l, NEW m, PublicOK(f, l), ~Quieted(PublicSnapshot(m), PublicSnapshot(l))
    PROVE  Publishable(f, PublicSnapshot(m))
<1> DEFINE x == PublicSnapshot(m)
           c == PublicSnapshot(l)
<1>1. x # << >>
  BY SnapshotFacts
<1> HIDE DEF x, c
<1>2. ASSUME f.last = x PROVE Shows(f, x)
  BY <1>1, <1>2 DEF PublicOK, Publishable, x, c
<1> QED
  BY <1>2 DEF x, Publishable

\* The fields of a snapshot.
LEMMA SnapshotFields ==
    ASSUME NEW l
    PROVE  LET c == PublicSnapshot(l)
           IN  /\ c = [online |-> c.online, board |-> c.board, demo |-> c.demo,
                       waiting |-> c.waiting]
               /\ c.online = l.connected /\ c.board = l.board /\ c.demo = ActiveDemo(l)
               /\ c.waiting = Len(l.waiting)
BY DEF PublicSnapshot

\* A session starts, or the queue changes: no snapshot published before is in the way.
LEMMA QueueDiffers ==
    ASSUME NEW f, NEW l, NEW m, PublicOK(f, l), Len(m.waiting) # Len(l.waiting)
    PROVE  Publishable(f, PublicSnapshot(m))
<1>1. ~Quieted(PublicSnapshot(m), PublicSnapshot(l))
  BY SnapshotFields DEF Quieted
<1> QED
  BY <1>1, CanPublish

\* Nor is one in the way of a snapshot without a demo.
LEMMA DemoEnds ==
    ASSUME NEW f, NEW l, NEW m, PublicOK(f, l),
           ~m.connected \/ m.active.status \notin {"starting", "active"}
    PROVE  Publishable(f, PublicSnapshot(m))
<1>1. PublicSnapshot(m).demo = NoDemo
  BY SnapshotFields DEF ActiveDemo
<1>2. ~Quieted(PublicSnapshot(m), PublicSnapshot(l))
  BY <1>1 DEF Quieted
<1> QED
  BY <1>2, CanPublish

\* Nor when the session stays, whatever becomes of the board.
LEMMA DemoStays ==
    ASSUME NEW f, NEW l, NEW m, PublicOK(f, l), m.demos = l.demos, m.active.id = l.active.id,
           m.active.status \in {"starting", "active"} => l.active.status \in {"starting", "active"}
    PROVE  Publishable(f, PublicSnapshot(m))
<1>1. ASSUME m.connected = l.connected, ActiveDemo(m) # NoDemo PROVE ActiveDemo(l) # NoDemo
  BY <1>1 DEF ActiveDemo
<1>2. ~Quieted(PublicSnapshot(m), PublicSnapshot(l))
  BY <1>1, SnapshotFields DEF Quieted
<1> QED
  BY <1>2, CanPublish

\* What was just published is current.
LEMMA IsPublic ==
    ASSUME NEW f, NEW l, Published(f, PublicSnapshot(l))
    PROVE  PublicOK(f, l) /\ Shows(f, PublicSnapshot(l)) /\ Publishable(f, PublicSnapshot(l))
BY DEF Published, PublicOK, Publishable

\* What readers know does not depend on the pages.
LEMMA SamePublic ==
    ASSUME NEW f, NEW g, g.readers = f.readers, g.last = f.last
    PROVE  /\ \A x : Published(f, x) => Published(g, x)
           /\ \A x : Publishable(f, x) => Publishable(g, x)
           /\ \A x : Shows(f, x) => Shows(g, x)
           /\ \A l : PublicOK(f, l) => PublicOK(g, l)
BY DEF Published, Publishable, Shows, PublicOK

\* _try_start_next keeps it.
LEMMA StartStep ==
    ASSUME NEW l, NEW w, NEW f, Sound(l, w, f)
    PROVE  Sound(StartNext(l), StartWork(l, w), StartTold(f, l))
<1> DEFINE m == StartNext(l)
           v == StartWork(l, w)
           g == StartTold(f, l)
           u == l.owners[Head(l.waiting)]
           h == SessionUpdated(f, m, u)
           due == Debt(l, w) \cup {<<u, "session">>} \cup (Pages \X {"queue"})
<1>1. LabOK(l) /\ IsWork(w) /\ IsFeed(f) /\ Told(f, l, Debt(l, w)) /\ PublicOK(f, l)
  BY DEF Sound
<1>2. IsWork(v) /\ v.resets = w.resets /\ v.problem = w.problem
  BY <1>1 DEF StartWork, IsWork
<1>3. CASE ~MayStart(l)
  <2>1. m = l /\ g = f
    BY <1>3 DEF StartNext, StartTold
  <2>2. Debt(m, v) = Debt(l, w) /\ (Unheard(m, v) <=> Unheard(l, w))
    BY <1>2, <2>1 DEF Debt, Unheard
  <2> QED
    BY <1>2, <2>1, <2>2 DEF Sound
<1>4. CASE MayStart(l)
  <2>1. /\ LabOK(m) /\ Len(m.waiting) # Len(l.waiting) /\ m.board = l.board
        /\ m.owners = l.owners /\ m.active.status = "starting"
        /\ \A z : z # u => SameSession(l, m, z)
    BY <1>1, <1>4, StartNextIs
  <2>2. g = QueueUpdated(h, m)
    BY <1>4 DEF StartTold
  <2> HIDE DEF m, u
  <2>3. \A z \in Pages : \A t \in Topics : <<z, t>> \in due \/ Snapshot(m, z)[t] = Snapshot(l, z)[t]
    BY <2>1, SnapshotIs DEF Topics, SameSession
  <2>4. Debt(l, w) \subseteq due
    OBVIOUS
  <2> HIDE DEF due, v, g, h
  <2>5. Told(f, m, due)
    BY <1>1, <2>3, <2>4, NowOwed
  <2>6. /\ IsFeed(h) /\ Told(h, m, due \ {<<u, "session">>})
        /\ h.readers = f.readers /\ h.last = f.last
    BY <1>1, <2>5, SessionTold DEF h
  <2>7. Publishable(h, PublicSnapshot(m))
    BY <1>1, <2>1, <2>6, QueueDiffers, SamePublic
  <2>8. /\ IsFeed(g) /\ Told(g, m, (due \ {<<u, "session">>}) \ (Pages \X {"queue"}))
        /\ Published(g, PublicSnapshot(m))
    BY <2>2, <2>6, <2>7, QueueTold
  <2>9. (due \ {<<u, "session">>}) \ (Pages \X {"queue"}) \subseteq Debt(m, v)
    <3>1. l.active.id = 0
      BY <1>4, NoSessionFacts DEF MayStart
    <3> SUFFICES ASSUME NEW x \in Debt(l, w), x \notin Pages \X {"queue"} PROVE FALSE
      BY DEF due
    <3>2. x \in Pages \X Topics /\ x[2] # "queue"
      BY DEF Debt
    <3> QED
      BY <3>1, <3>2 DEF Debt
  <2>10. Told(g, m, Debt(m, v))
    BY <2>8, <2>9, NowOwed
  <2>11. PublicOK(g, m) /\ Shows(g, PublicSnapshot(m))
    BY <2>8, IsPublic
  <2> QED
    BY <1>2, <2>1, <2>8, <2>10, <2>11 DEF Sound, m, v, g
<1> QED
  BY <1>3, <1>4

-----------------------------------------------------------------------------
(* Steps *)

\* Step carries the invariant from its arguments to the next state.
LEMMA StepSound ==
    ASSUME NEW l, NEW w, NEW f, Step(l, w, f), Sound(l, w, f)
    PROVE  FeedsInv'
<1>1. Feed' = f
  <2>1. f = [pages |-> f.pages, readers |-> f.readers, last |-> f.last]
    BY DEF Sound, IsFeed
  <2> QED
    BY <2>1 DEF Step, Feed
<1>2. lab' = l /\ work' = w
  BY DEF Step
<1> QED
  BY <1>1, <1>2 DEF FeedsInv

\* So does a step that may also start the next session.
LEMMA StartSound ==
    ASSUME NEW l, NEW w, NEW f, StepAndStartNext(l, w, f), Sound(l, w, f)
    PROVE  FeedsInv'
BY StartStep, StepSound DEF StepAndStartNext

\* Readers know the state, and pages but what they are owed.
LEMMA IsSound ==
    ASSUME NEW l, NEW w, NEW f, NEW owed, LabOK(l), IsWork(w), IsFeed(f), Told(f, l, owed),
           owed \subseteq Debt(l, w), Published(f, PublicSnapshot(l))
    PROVE  Sound(l, w, f)
<1>1. Told(f, l, Debt(l, w))
  BY NowOwed
<1>2. PublicOK(f, l) /\ Shows(f, PublicSnapshot(l))
  BY IsPublic
<1> QED
  BY <1>1, <1>2 DEF Sound

\* The state is not announced to the readers.
LEMMA IsHushed ==
    ASSUME NEW l, NEW w, NEW f, NEW owed, LabOK(l), IsWork(w), IsFeed(f), Told(f, l, owed),
           owed \subseteq Debt(l, w), PublicOK(f, l), Unheard(l, w)
    PROVE  Sound(l, w, f)
<1>1. Told(f, l, Debt(l, w))
  BY NowOwed
<1> QED
  BY <1>1 DEF Sound

\* A session.updated event and a queue.updated event, one after the other.
LEMMA SessionAndQueueTold ==
    ASSUME NEW f, NEW l, NEW owed, IsFeed(f), Told(f, l, owed), NEW u,
           Publishable(f, PublicSnapshot(l))
    PROVE  LET g == QueueUpdated(SessionUpdated(f, l, u), l)
           IN  /\ IsFeed(g) /\ Told(g, l, (owed \ {<<u, "session">>}) \ (Pages \X {"queue"}))
               /\ Published(g, PublicSnapshot(l))
<1> DEFINE h == SessionUpdated(f, l, u)
<1>1. /\ IsFeed(h) /\ Told(h, l, owed \ {<<u, "session">>})
      /\ h.readers = f.readers /\ h.last = f.last
  BY SessionTold
<1> HIDE DEF h
<1>2. Publishable(h, PublicSnapshot(l))
  BY <1>1, SamePublic
<1>3. LET g == QueueUpdated(h, l)
      IN  /\ IsFeed(g) /\ Told(g, l, (owed \ {<<u, "session">>}) \ (Pages \X {"queue"}))
          /\ Published(g, PublicSnapshot(l))
  BY <1>1, <1>2, QueueTold
<1> QED
  BY <1>3 DEF h

\* What the owner of the board is owed by a change of the deadline.
OwnerDue(l, m) == IF l.active.deadline = m.active.deadline THEN {}
                  ELSE {<<l.owners[l.active.id], "session">>}

\* The owner of the active session is paid if its deadline changed.
LEMMA OwnerIsTold ==
    ASSUME NEW f, NEW l, NEW m, NEW owed, IsFeed(f), Told(f, m, owed)
    PROVE  LET g == OwnerTold(f, l, m)
           IN  /\ IsFeed(g) /\ Told(g, m, owed \ OwnerDue(l, m))
               /\ g.readers = f.readers /\ g.last = f.last
<1> DEFINE g == OwnerTold(f, l, m)
<1>1. CASE l.active.deadline = m.active.deadline
  <2>1. g = f /\ OwnerDue(l, m) = {}
    BY <1>1 DEF OwnerTold, OwnerDue
  <2>2. owed \ {} = owed
    OBVIOUS
  <2> QED
    BY <2>1, <2>2
<1>2. CASE l.active.deadline # m.active.deadline
  <2> DEFINE u == l.owners[l.active.id]
  <2>1. g = SessionUpdated(f, m, u) /\ OwnerDue(l, m) = {<<u, "session">>}
    BY <1>2 DEF OwnerTold, OwnerDue
  <2> HIDE DEF u, g
  <2>2. /\ IsFeed(g) /\ Told(g, m, owed \ {<<u, "session">>})
        /\ g.readers = f.readers /\ g.last = f.last
    BY <2>1, SessionTold
  <2> QED
    BY <2>1, <2>2 DEF g
<1> QED
  BY <1>1, <1>2

\* A session is added to the queue, or taken out of it.
LEMMA QueueChanges ==
    ASSUME NEW l, NEW w, NEW f, Sound(l, w, f), NEW m, NEW u, LabOK(m),
           Len(m.waiting) # Len(l.waiting),
           m.board = l.board, m.active.id = l.active.id, m.active.status = l.active.status,
           l.active.id # 0 => m.owners[l.active.id] = l.owners[l.active.id],
           \A v : v # u /\ DeadlineKept(l, m, v) => SameSession(l, m, v)
    PROVE  Sound(m, w, OwnerTold(QueueUpdated(SessionUpdated(f, m, u), m), l, m))
<1> DEFINE g == QueueUpdated(SessionUpdated(f, m, u), m)
           h == OwnerTold(g, l, m)
           due == Debt(l, w) \cup {<<u, "session">>} \cup (Pages \X {"queue"}) \cup OwnerDue(l, m)
           rest == (due \ {<<u, "session">>}) \ (Pages \X {"queue"})
<1>1. LabOK(l) /\ IsWork(w) /\ IsFeed(f) /\ Told(f, l, Debt(l, w)) /\ PublicOK(f, l)
  BY DEF Sound
<1>2. \A z \in Pages : \A t \in Topics : <<z, t>> \in due \/ Snapshot(m, z)[t] = Snapshot(l, z)[t]
  <2> SUFFICES ASSUME NEW z \in Pages, NEW t \in Topics, <<z, t>> \notin due
               PROVE  Snapshot(m, z)[t] = Snapshot(l, z)[t]
    OBVIOUS
  <2>1. t # "queue"
    OBVIOUS
  <2>2. CASE t = "board"
    BY <2>2, SnapshotIs
  <2>3. CASE t = "session"
    <3>1. z # u /\ <<z, "session">> \notin OwnerDue(l, m)
      BY <2>3
    <3>2. DeadlineKept(l, m, z)
      BY <3>1 DEF OwnerDue, DeadlineKept
    <3> QED
      BY <2>3, <3>1, <3>2, SnapshotIs DEF SameSession
  <2> QED
    BY <2>1, <2>2, <2>3 DEF Topics
<1>3. Debt(l, w) \subseteq due
  OBVIOUS
<1>4. rest \ OwnerDue(l, m) \subseteq Debt(m, w)
  <2> SUFFICES ASSUME NEW x \in Debt(l, w) PROVE x \in Debt(m, w)
    OBVIOUS
  <2> QED
    BY DEF Debt, Unheard
<1> HIDE DEF due, g, h
<1>5. Told(f, m, due)
  BY <1>1, <1>2, <1>3, NowOwed
<1>6. Publishable(f, PublicSnapshot(m))
  BY <1>1, QueueDiffers
<1>7. IsFeed(g) /\ Told(g, m, rest) /\ Published(g, PublicSnapshot(m))
  BY <1>1, <1>5, <1>6, SessionAndQueueTold DEF g
<1> HIDE DEF rest
<1>8. /\ IsFeed(h) /\ Told(h, m, rest \ OwnerDue(l, m))
      /\ h.readers = g.readers /\ h.last = g.last
  BY <1>7, OwnerIsTold DEF h
<1>9. Published(h, PublicSnapshot(m))
  BY <1>7, <1>8, SamePublic
<1>10. Sound(m, w, h)
  BY <1>1, <1>4, <1>8, <1>9, IsSound
<1> QED
  BY <1>10 DEF h, g

\* create_session keeps the invariant.
LEMMA CreateSound ==
    ASSUME FeedsInv, NEW u \in Visitors, NEW d \in Demos, CreateSession(u, d)
    PROVE  FeedsInv'
<1> DEFINE m == Create(lab, u, d)
           g == OwnerTold(QueueUpdated(SessionUpdated(Feed, m, u), m), lab, m)
<1>1. StepAndStartNext(m, work, g)
  BY DEF CreateSession
<1>2. Sound(lab, work, Feed) /\ LabOK(lab)
  BY DEF FeedsInv, Sound
<1>3. /\ LabOK(m) /\ Len(m.waiting) # Len(lab.waiting) /\ m.board = lab.board
      /\ m.active.id = lab.active.id /\ m.active.status = lab.active.status
      /\ lab.active.id # 0 => m.owners[lab.active.id] = lab.owners[lab.active.id]
      /\ \A v : v # u /\ DeadlineKept(lab, m, v) => SameSession(lab, m, v)
  BY <1>2, CreateIs
<1> HIDE DEF m
<1>4. Sound(m, work, g)
  BY <1>2, <1>3, QueueChanges
<1> QED
  BY <1>1, <1>4, StartSound

\* end_session of one that waits keeps the invariant.
LEMMA CancelSound ==
    ASSUME FeedsInv, NEW u \in Visitors, CancelSession(u)
    PROVE  FeedsInv'
<1> DEFINE id == Session(lab, u).id
           m == Cancel(lab, id)
           g == OwnerTold(QueueUpdated(SessionUpdated(Feed, m, u), m), lab, m)
<1>1. Step(m, work, g) /\ Session(lab, u).status = "queued"
  BY DEF CancelSession
<1>2. Sound(lab, work, Feed) /\ LabOK(lab)
  BY DEF FeedsInv, Sound
<1>5. id \in Waiting(lab, u)
  <2>1. lab.active.status # "queued" /\ NoSession.status # "queued"
    BY <1>2, NoSessionFacts DEF LabOK, IsSession
  <2>2. id = CHOOSE i \in Waiting(lab, u) : TRUE
    BY <1>1, <2>1 DEF Session
  <2>3. Waiting(lab, u) # {}
    BY <1>1, <2>1 DEF Session
  <2> QED
    BY <2>2, <2>3
<1> HIDE DEF id
<1>3. /\ LabOK(m) /\ Len(m.waiting) # Len(lab.waiting) /\ m.board = lab.board
      /\ m.active.id = lab.active.id /\ m.active.status = lab.active.status
      /\ m.owners = lab.owners
      /\ \A v : v # u /\ DeadlineKept(lab, m, v) => SameSession(lab, m, v)
  BY <1>2, <1>5, CancelIs
<1> HIDE DEF m
<1>4. Sound(m, work, g)
  BY <1>2, <1>3, QueueChanges
<1> QED
  BY <1>1, <1>4, StepSound

\* A session that has the board ends: the snapshot is the same without its demo.
LEMMA Silenced ==
    ASSUME NEW f, NEW l, NEW m, PublicOK(f, l),
           m.board = l.board, m.connected = l.connected, m.waiting = l.waiting,
           m.active.status \notin {"starting", "active"}
    PROVE  PublicOK(f, m)
<1> DEFINE c == PublicSnapshot(l)
           x == PublicSnapshot(m)
<1>1. /\ c = [online |-> c.online, board |-> c.board, demo |-> c.demo, waiting |-> c.waiting]
      /\ x = [online |-> x.online, board |-> x.board, demo |-> x.demo, waiting |-> x.waiting]
      /\ x.online = c.online /\ x.board = c.board /\ x.waiting = c.waiting /\ x.demo = NoDemo
  BY SnapshotFields DEF ActiveDemo
<1>2. Publishable(f, x)
  BY DemoEnds
<1>3. f.last \in {<< >>, c} \/ Quieted(f.last, c)
  BY DEF PublicOK
<1> HIDE DEF c, x
<1>4. x = c \/ Quieted(c, x)
  BY <1>1 DEF Quieted
<1>5. Quieted(f.last, c) => x = c
  BY <1>1 DEF Quieted
<1>6. f.last \in {<< >>, x} \/ Quieted(f.last, x)
  BY <1>3, <1>4, <1>5
<1> QED
  BY <1>2, <1>6 DEF PublicOK, x

\* end_session of the one that has the board, told to its owner.
LEMMA EndSound ==
    ASSUME NEW l, NEW w, NEW f, Sound(l, w, f), l.active # NoSession,
           NEW v, IsWork(v), v.resets = w.resets, v.problem = w.problem,
           NEW u, u = l.owners[l.active.id]
    PROVE  Sound(Ending(l), v, SessionUpdated(f, Ending(l), u))
<1> DEFINE m == Ending(l)
           g == SessionUpdated(f, m, u)
           due == Debt(l, w) \cup {<<u, "session">>} \cup (Pages \X {"queue"})
<1>1. LabOK(l) /\ IsWork(w) /\ IsFeed(f) /\ Told(f, l, Debt(l, w)) /\ PublicOK(f, l)
  BY DEF Sound
<1>2. /\ LabOK(m) /\ m.board = l.board /\ m.connected = l.connected
      /\ m.waiting = l.waiting /\ m.owners = l.owners
      /\ m.active.id = l.active.id /\ m.active.status = "ending"
      /\ \A z : z # u => SameSession(l, m, z)
  BY <1>1, EndingIs
<1> HIDE DEF m
<1>3. \A z \in Pages : \A t \in Topics : <<z, t>> \in due \/ Snapshot(m, z)[t] = Snapshot(l, z)[t]
  BY <1>2, SnapshotIs DEF Topics, SameSession
<1>4. Debt(l, w) \subseteq due
  OBVIOUS
<1>5. due \ {<<u, "session">>} \subseteq Debt(m, v)
  <2>1. Debt(l, w) \subseteq Debt(m, v)
    BY <1>2 DEF Debt, Unheard
  <2>2. Pages \X {"queue"} \subseteq Debt(m, v)
    BY <1>2 DEF Debt, Unheard, Topics
  <2> QED
    BY <2>1, <2>2
<1> HIDE DEF due
<1>6. Told(f, m, due)
  BY <1>1, <1>3, <1>4, NowOwed
<1>7. /\ IsFeed(g) /\ Told(g, m, due \ {<<u, "session">>})
      /\ g.readers = f.readers /\ g.last = f.last
  BY <1>1, <1>6, SessionTold
<1> HIDE DEF g
<1>8. PublicOK(f, m)
  BY <1>1, <1>2, Silenced
<1>9. PublicOK(g, m)
  BY <1>7, <1>8, SamePublic
<1>10. Unheard(m, v)
  BY <1>2 DEF Unheard
<1>11. Sound(m, v, g)
  BY <1>2, <1>5, <1>7, <1>9, <1>10, IsHushed
<1> QED
  BY <1>11 DEF m, g

\* Who has a session that starts or runs is the owner of the active one.
LEMMA ActiveFacts ==
    ASSUME NEW l, LabOK(l), NEW u, Session(l, u).status \in {"starting", "active"}
    PROVE  l.active # NoSession /\ u = l.owners[l.active.id]
<1>1. Session(l, u) = l.active /\ l.active.id # 0 /\ l.owners[l.active.id] = u
  BY NoSessionFacts DEF Session
<1> QED
  BY <1>1, NoSessionFacts

\* end_session keeps the invariant.
LEMMA EndSessionSound ==
    ASSUME FeedsInv, NEW u \in Visitors, EndSession(u)
    PROVE  FeedsInv'
<1> DEFINE lock == IF work.enders = 0 /\ work.lock = "free" THEN "user" ELSE work.lock
           w == [work EXCEPT !.enders = @ + 1]
           v == [work EXCEPT !.enders = @ + 1, !.lock = lock]
<1>1. Sound(lab, work, Feed) /\ LabOK(lab) /\ IsWork(work)
  BY DEF FeedsInv, Sound
<1>2. IsWork(v) /\ v.resets = work.resets /\ v.problem = work.problem
  <2>1. v = [w EXCEPT !.lock = lock]
    OBVIOUS
  <2>2. IsWork(w) /\ w.resets = work.resets /\ w.problem = work.problem
    BY <1>1 DEF IsWork
  <2> HIDE DEF w, lock, v
  <2> QED
    BY <2>1, <2>2 DEF IsWork
<1>3. Step(Ending(lab), v, SessionUpdated(Feed, Ending(lab), u))
      /\ Session(lab, u).status \in {"starting", "active"}
  BY DEF EndSession
<1> HIDE DEF v
<1>4. lab.active # NoSession /\ u = lab.owners[lab.active.id]
  BY <1>1, <1>3, ActiveFacts
<1>5. Sound(Ending(lab), v, SessionUpdated(Feed, Ending(lab), u))
  BY <1>1, <1>2, <1>4, EndSound
<1> QED
  BY <1>3, <1>5, StepSound

\* A timer that ends the session keeps the invariant.
LEMMA TimerSound ==
    ASSUME FeedsInv, TimerEnds
    PROVE  FeedsInv'
<1> DEFINE v == [work EXCEPT !.lock = "timer"]
           u == lab.owners[lab.active.id]
<1>1. Sound(lab, work, Feed) /\ IsWork(work)
  BY DEF FeedsInv, Sound
<1>2. IsWork(v) /\ v.resets = work.resets /\ v.problem = work.problem
  BY <1>1 DEF IsWork
<1>3. Step(Ending(lab), v, SessionUpdated(Feed, Ending(lab), u)) /\ lab.active # NoSession
  BY DEF TimerEnds
<1> HIDE DEF v
<1>5. Sound(Ending(lab), v, SessionUpdated(Feed, Ending(lab), u))
  BY <1>1, <1>2, <1>3, EndSound
<1> QED
  BY <1>3, <1>5, StepSound

\* finish_active, told to everybody.
LEMMA FinishSound ==
    ASSUME NEW l, NEW w, NEW f, LabOK(l), IsFeed(f), Told(f, l, Debt(l, w)), PublicOK(f, l),
           NEW v, IsWork(v)
    PROVE  Sound(Finished(l), v, QueueUpdated(FinishTold(f, l), Finished(l)))
<1> DEFINE m == Finished(l)
           g == FinishTold(f, l)
           h == QueueUpdated(g, m)
           u == l.owners[l.active.id]
           due == Debt(l, w) \cup (Pages \X {"queue"})
                     \cup (IF l.active = NoSession THEN {} ELSE {<<u, "session">>})
           rest == due \ (IF l.active = NoSession THEN {} ELSE {<<u, "session">>})
<1>1. /\ LabOK(m) /\ m.board = l.board /\ m.active = NoSession
      /\ \A z : l.active = NoSession \/ z # u => SameSession(l, m, z)
  BY FinishedIs
<1>2. g = IF l.active = NoSession THEN f ELSE SessionUpdated(f, m, u)
  BY DEF FinishTold
<1> HIDE DEF m, g
<1>8. Publishable(f, PublicSnapshot(m))
  BY <1>1, NoSessionFacts, DemoEnds
<1>3. \A z \in Pages : \A t \in Topics : <<z, t>> \in due \/ Snapshot(m, z)[t] = Snapshot(l, z)[t]
  BY <1>1, SnapshotIs DEF Topics, SameSession
<1>4. Debt(l, w) \subseteq due
  OBVIOUS
<1>5. rest \ (Pages \X {"queue"}) \subseteq Debt(m, v)
  <2> SUFFICES ASSUME NEW x \in Debt(l, w), x \in rest, x[2] # "queue" PROVE FALSE
    BY DEF Debt
  <2>1. x \in Pages \X Topics /\ x[2] = "session" /\ w.problem # 0 /\ w.problem = l.active.id
        /\ l.owners[w.problem] = x[1]
    BY DEF Debt
  <2>2. l.active # NoSession
    BY <2>1, NoSessionFacts
  <2>3. x = <<u, "session">>
    BY <2>1
  <2> QED
    BY <2>2, <2>3
<1>6. CASE l.active = NoSession
  <2>1. g = f /\ rest = due
    BY <1>2, <1>6
  <2> HIDE DEF due, rest
  <2> QED
    <3>1. Told(f, m, due)
      BY <1>3, <1>4, NowOwed
    <3>2. IsFeed(g) /\ Told(g, m, rest) /\ Publishable(g, PublicSnapshot(m))
      BY <1>1, <1>8, <2>1, <3>1
    <3>3. IsFeed(h) /\ Told(h, m, rest \ (Pages \X {"queue"})) /\ Published(h, PublicSnapshot(m))
      BY <3>2, QueueTold
    <3> HIDE DEF h
    <3>4. Sound(m, v, h)
      BY <1>1, <1>5, <3>3, IsSound
    <3> QED
      BY <3>4 DEF h, m, g
<1>7. CASE l.active # NoSession
  <2>1. g = SessionUpdated(f, m, u) /\ rest = due \ {<<u, "session">>}
    BY <1>2, <1>7
  <2> HIDE DEF due, rest
  <2> QED
    <3>1. Told(f, m, due)
      BY <1>3, <1>4, NowOwed
    <3>2. IsFeed(g) /\ Told(g, m, rest) /\ g.readers = f.readers /\ g.last = f.last
      BY <2>1, <3>1, SessionTold
    <3>5. Publishable(g, PublicSnapshot(m))
      BY <1>8, <3>2, SamePublic
    <3>3. IsFeed(h) /\ Told(h, m, rest \ (Pages \X {"queue"})) /\ Published(h, PublicSnapshot(m))
      BY <3>2, <3>5, QueueTold
    <3> HIDE DEF h
    <3>4. Sound(m, v, h)
      BY <1>1, <1>5, <3>3, IsSound
    <3> QED
      BY <3>4 DEF h, m, g
<1> QED
  BY <1>6, <1>7

\* An end that leaves the lock keeps the invariant.
LEMMA EndFinishedSound ==
    ASSUME FeedsInv, NEW w, IsWork(w), EndFinished(w)
    PROVE  FeedsInv'
<1> DEFINE v == [w EXCEPT !.lock = "free"]
           g == QueueUpdated(FinishTold(Feed, lab), Finished(lab))
<1>1. /\ LabOK(lab) /\ IsFeed(Feed) /\ Told(Feed, lab, Debt(lab, work)) /\ PublicOK(Feed, lab)
  BY DEF FeedsInv, Sound
<1>2. IsWork(v)
  BY DEF IsWork
<1>3. StepAndStartNext(Finished(lab), v, g)
  BY DEF EndFinished
<1> HIDE DEF v
<1>4. Sound(Finished(lab), v, g)
  BY <1>1, <1>2, FinishSound
<1> QED
  BY <1>3, <1>4, StartSound

\* The end by a user or by a timer keeps the invariant.
LEMMA EndingFinishesSound ==
    ASSUME FeedsInv, EndingFinishes \/ TimerFinishes
    PROVE  FeedsInv'
<1>1. IsWork(work)
  BY DEF FeedsInv, Sound
<1>2. CASE EndingFinishes
  <2> DEFINE w == [work EXCEPT !.enders = @ - 1]
  <2>1. IsWork(w) /\ EndFinished(w)
    BY <1>1, <1>2 DEF IsWork, EndingFinishes
  <2> HIDE DEF w
  <2> QED
    BY <2>1, EndFinishedSound
<1>3. CASE TimerFinishes
  BY <1>1, <1>3, EndFinishedSound DEF TimerFinishes
<1> QED
  BY <1>2, <1>3

\* The end of a session the agent reported lost keeps the invariant.
LEMMA ProblemFinishesSound ==
    ASSUME FeedsInv, ProblemFinishes
    PROVE  FeedsInv'
<1> DEFINE v == [work EXCEPT !.problem = 0]
           u == lab.owners[work.problem]
           then == [id |-> work.problem, status |-> "ending", deadline |-> FALSE]
           e == [Event("session", then) EXCEPT !.stale = TRUE]
           f == PublishUser(Feed, u, e)
           g == QueueUpdated(FinishTold(f, lab), Finished(lab))
<1>1. /\ LabOK(lab) /\ IsWork(work) /\ IsFeed(Feed) /\ Told(Feed, lab, Debt(lab, work))
      /\ PublicOK(Feed, lab)
  BY DEF FeedsInv, Sound
<1>2. IsWork(v)
  BY <1>1 DEF IsWork
<1>3. Step(Finished(lab), v, g)
  BY DEF ProblemFinishes
<1>4. e.topic = "session" /\ e.stale
  BY DEF Event
<1> HIDE DEF v, u, e
<1>5. /\ IsFeed(f) /\ Told(f, lab, Debt(lab, work) \ {<<u, "session">>})
      /\ f.readers = Feed.readers /\ f.last = Feed.last
  BY <1>1, <1>4, UserTold
<1> HIDE DEF f
<1>6. Told(f, lab, Debt(lab, work))
  BY <1>5, NowOwed
<1>7. PublicOK(f, lab)
  BY <1>1, <1>5, SamePublic
<1>8. Sound(Finished(lab), v, g)
  BY <1>1, <1>2, <1>5, <1>6, <1>7, FinishSound
<1> QED
  BY <1>3, <1>8, StepSound

\* Only the suspended coroutines change.
LEMMA WorkSound ==
    ASSUME NEW l, NEW w, NEW f, Sound(l, w, f), NEW v, IsWork(v), v.problem = w.problem,
           v.resets = w.resets \/ v.resets > 0
    PROVE  Sound(l, v, f)
<1>1. Debt(l, w) \subseteq Debt(l, v)
  BY DEF Debt, Unheard
<1>2. Told(f, l, Debt(l, v))
  BY <1>1, NowOwed DEF Sound
<1>3. Unheard(l, v) \/ Shows(f, PublicSnapshot(l))
  BY DEF Sound, Unheard
<1> QED
  BY <1>2, <1>3 DEF Sound

\* A start that succeeds keeps the invariant.
LEMMA StartedSound ==
    ASSUME FeedsInv, NEW id \in 1..MaxSessions, Started(id)
    PROVE  FeedsInv'
<1> DEFINE v == [work EXCEPT !.starts = @ \ {id}]
           m == Activated(lab)
           u == lab.owners[id]
           g == QueueUpdated(SessionUpdated(Feed, m, u), m)
           due == Debt(lab, work) \cup {<<u, "session">>} \cup (Pages \X {"queue"})
           rest == (due \ {<<u, "session">>}) \ (Pages \X {"queue"})
<1>1. /\ LabOK(lab) /\ IsWork(work) /\ IsFeed(Feed) /\ Told(Feed, lab, Debt(lab, work))
      /\ PublicOK(Feed, lab) /\ Sound(lab, work, Feed)
  BY DEF FeedsInv, Sound
<1>2. IsWork(v) /\ v.resets = work.resets /\ v.problem = work.problem
  BY <1>1 DEF IsWork
<1>3. CASE ~(lab.active.id = id /\ lab.active.status = "starting")
  <2>1. Step(lab, v, Feed)
    BY <1>3 DEF Started
  <2> HIDE DEF v
  <2>2. Sound(lab, v, Feed)
    BY <1>1, <1>2, WorkSound
  <2> QED
    BY <2>1, <2>2, StepSound
<1>4. CASE lab.active.id = id /\ lab.active.status = "starting"
  <2>1. Step(m, v, g)
    BY <1>4 DEF Started
  <2>2. /\ LabOK(m) /\ m.board = lab.board /\ m.owners = lab.owners /\ m.demos = lab.demos
        /\ m.active.id = lab.active.id /\ m.active.status = "active"
        /\ \A z : z # u => SameSession(lab, m, z)
    BY <1>1, <1>4, ActivatedIs
  <2> HIDE DEF m, v
  <2>3. \A z \in Pages : \A t \in Topics : <<z, t>> \in due \/ Snapshot(m, z)[t] = Snapshot(lab, z)[t]
    BY <2>2, SnapshotIs DEF Topics, SameSession
  <2>4. Debt(lab, work) \subseteq due
    OBVIOUS
  <2>5. rest \subseteq Debt(m, v)
    BY <1>2, <2>2 DEF Debt
  <2> HIDE DEF due, rest
  <2>6. Told(Feed, m, due)
    BY <1>1, <2>3, <2>4, NowOwed
  <2>7. Publishable(Feed, PublicSnapshot(m))
    BY <1>1, <1>4, <2>2, DemoStays
  <2>8. IsFeed(g) /\ Told(g, m, rest) /\ Published(g, PublicSnapshot(m))
    BY <1>1, <2>6, <2>7, SessionAndQueueTold DEF rest
  <2> HIDE DEF g
  <2>9. Sound(m, v, g)
    BY <1>2, <2>2, <2>5, <2>8, IsSound
  <2> QED
    BY <2>1, <2>9, StepSound
<1> QED
  BY <1>3, <1>4

\* A start that fails keeps the invariant.
LEMMA StartFailsSound ==
    ASSUME FeedsInv, NEW id \in 1..MaxSessions, StartFails(id)
    PROVE  FeedsInv'
<1> DEFINE v == [work EXCEPT !.starts = @ \ {id}, !.resets = @ + 1]
           m == Finished(lab)
           u == lab.owners[id]
           g == SessionUpdated(Feed, m, u)
           due == Debt(lab, work) \cup {<<u, "session">>} \cup (Pages \X {"queue"})
<1>1. /\ LabOK(lab) /\ IsWork(work) /\ IsFeed(Feed) /\ Told(Feed, lab, Debt(lab, work))
      /\ PublicOK(Feed, lab) /\ Sound(lab, work, Feed)
  BY DEF FeedsInv, Sound
<1>2. IsWork(v) /\ v.resets = work.resets + 1 /\ work.resets \in Nat /\ v.problem = work.problem
  <2> DEFINE a == [work EXCEPT !.starts = @ \ {id}]
  <2>1. v = [a EXCEPT !.resets = @ + 1]
    OBVIOUS
  <2>2. IsWork(a) /\ a.resets = work.resets /\ a.problem = work.problem
    BY <1>1 DEF IsWork
  <2> HIDE DEF a, v
  <2> QED
    BY <2>1, <2>2 DEF IsWork
<1>0. v.resets > 0
  BY <1>2
<1>3. CASE ~(lab.active.id = id /\ lab.active.status = "starting")
  <2>1. Step(lab, v, Feed)
    BY <1>3 DEF StartFails
  <2> HIDE DEF v
  <2>2. Sound(lab, v, Feed)
    BY <1>0, <1>1, <1>2, WorkSound
  <2> QED
    BY <2>1, <2>2, StepSound
<1>4. CASE lab.active.id = id /\ lab.active.status = "starting"
  <2>1. Step(m, v, g)
    BY <1>4 DEF StartFails
  <2>10. lab.active # NoSession /\ u = lab.owners[lab.active.id]
    BY <1>4, NoSessionFacts
  <2>2. /\ LabOK(m) /\ m.board = lab.board /\ m.connected = lab.connected
        /\ m.waiting = lab.waiting /\ m.active = NoSession
        /\ \A z : z # u => SameSession(lab, m, z)
    BY <1>1, <2>10, FinishedIs
  <2> HIDE DEF m, v
  <2>3. \A z \in Pages : \A t \in Topics : <<z, t>> \in due \/ Snapshot(m, z)[t] = Snapshot(lab, z)[t]
    BY <2>2, SnapshotIs DEF Topics, SameSession
  <2>4. Debt(lab, work) \subseteq due
    OBVIOUS
  <2>11. Unheard(m, v)
    BY <1>0 DEF Unheard
  <2>5. due \ {<<u, "session">>} \subseteq Debt(m, v)
    <3> SUFFICES ASSUME NEW x \in due, x # <<u, "session">> PROVE x \in Debt(m, v)
      OBVIOUS
    <3>1. x \in Pages \X Topics /\ x[2] \in {"session", "queue"}
      BY DEF Debt, Topics
    <3>2. CASE x[2] = "queue"
      BY <2>11, <3>1, <3>2 DEF Debt
    <3>3. CASE x[2] = "session"
      <4>1. x \in Debt(lab, work)
        BY <3>3
      <4>2. lab.owners[work.problem] = x[1] /\ work.problem = lab.active.id
        BY <3>3, <4>1 DEF Debt
      <4>3. x[1] = u
        BY <2>10, <4>2
      <4>4. x = <<u, "session">>
        BY <3>1, <3>3, <4>3
      <4> QED
        BY <4>4
    <3> QED
      BY <3>1, <3>2, <3>3
  <2> HIDE DEF due
  <2>6. Told(Feed, m, due)
    BY <1>1, <2>3, <2>4, NowOwed
  <2>7. /\ IsFeed(g) /\ Told(g, m, due \ {<<u, "session">>})
        /\ g.readers = Feed.readers /\ g.last = Feed.last
    BY <1>1, <2>6, SessionTold
  <2>8. m.active.status \notin {"starting", "active"}
    BY <2>2, NoSessionFacts
  <2>9. PublicOK(Feed, m)
    BY <1>1, <2>2, <2>8, Silenced
  <2> HIDE DEF g
  <2>12. PublicOK(g, m)
    BY <2>7, <2>9, SamePublic
  <2>13. Sound(m, v, g)
    BY <1>2, <2>2, <2>5, <2>7, <2>11, <2>12, IsHushed
  <2> QED
    BY <2>1, <2>13, StepSound
<1> QED
  BY <1>3, <1>4

\* The board, then the queue.
LEMMA BoardAndQueueTold ==
    ASSUME NEW l, NEW w, NEW f, Sound(l, w, f), NEW m, LabOK(m), m.demos = l.demos,
           m.active = l.active, m.waiting = l.waiting, m.owners = l.owners,
           \A u : SameSession(l, m, u)
    PROVE  /\ Sound(m, w, BoardUpdated(f, m))
           /\ \A v : IsWork(v) /\ v.problem = w.problem =>
                 Sound(m, v, QueueUpdated(BoardUpdated(f, m), m))
<1> DEFINE g == BoardUpdated(f, m)
           h == QueueUpdated(g, m)
           due == Debt(l, w) \cup (Pages \X {"board"})
<1>1. LabOK(l) /\ IsWork(w) /\ IsFeed(f) /\ Told(f, l, Debt(l, w)) /\ PublicOK(f, l)
  BY DEF Sound
<1>2. \A z \in Pages : \A t \in Topics : <<z, t>> \in due \/ Snapshot(m, z)[t] = Snapshot(l, z)[t]
  <2>1. Queue(m) = Queue(l) /\ \A z : Session(m, z) = Session(l, z)
    BY DEF Queue, SameSession
  <2> QED
    BY <2>1, SnapshotIs DEF Topics
<1>3. Debt(l, w) \subseteq due
  OBVIOUS
<1>4. due \ (Pages \X {"board"}) \subseteq Debt(m, w)
  BY DEF Debt, Unheard
<1>5. \A v : v.problem = w.problem => Debt(m, w) \ (Pages \X {"queue"}) \subseteq Debt(m, v)
  BY DEF Debt
<1> HIDE DEF due, g, h
<1>6. Told(f, m, due)
  BY <1>1, <1>2, <1>3, NowOwed
<1>7. Publishable(f, PublicSnapshot(m))
  BY <1>1, DemoStays
<1>8. /\ IsFeed(g) /\ Told(g, m, due \ (Pages \X {"board"})) /\ Published(g, PublicSnapshot(m))
  BY <1>1, <1>6, <1>7, BoardTold DEF g
<1>9. Sound(m, w, g)
  BY <1>1, <1>4, <1>8, IsSound
<1>10. Told(g, m, Debt(m, w)) /\ Publishable(g, PublicSnapshot(m))
  BY <1>8, <1>9, IsPublic DEF Sound
<1>11. /\ IsFeed(h) /\ Told(h, m, Debt(m, w) \ (Pages \X {"queue"}))
       /\ Published(h, PublicSnapshot(m))
  BY <1>8, <1>10, QueueTold DEF h
<1>12. \A v : IsWork(v) /\ v.problem = w.problem => Sound(m, v, h)
  BY <1>5, <1>11, IsSound
<1> QED
  BY <1>9, <1>12 DEF g, h

\* The answer of a reset keeps the invariant.
LEMMA ResetAnswersSound ==
    ASSUME FeedsInv, ResetAnswers
    PROVE  FeedsInv'
<1> DEFINE v == [work EXCEPT !.resets = @ - 1]
<1>1. /\ LabOK(lab) /\ IsWork(work) /\ IsFeed(Feed) /\ Told(Feed, lab, Debt(lab, work))
      /\ PublicOK(Feed, lab) /\ Sound(lab, work, Feed)
  BY DEF FeedsInv, Sound
<1>2. IsWork(v) /\ v.problem = work.problem
  <2>1. work.resets - 1 \in Nat
    BY <1>1 DEF IsWork, ResetAnswers
  <2> QED
    BY <1>1, <2>1 DEF IsWork
<1>3. CASE \E b \in Boards :
              LET l == [lab EXCEPT !.board = b]
              IN  StepAndStartNext(l, v, QueueUpdated(BoardUpdated(Feed, l), l))
  <2>1. PICK b \in Boards :
              LET l == [lab EXCEPT !.board = b]
              IN  StepAndStartNext(l, v, QueueUpdated(BoardUpdated(Feed, l), l))
    BY <1>3
  <2> DEFINE l == [lab EXCEPT !.board = b]
  <2>2. StepAndStartNext(l, v, QueueUpdated(BoardUpdated(Feed, l), l))
    BY <2>1
  <2>3. /\ LabOK(l) /\ l.active = lab.active
        /\ l.waiting = lab.waiting /\ l.owners = lab.owners /\ l.demos = lab.demos
        /\ \A u : SameSession(lab, l, u)
    BY <1>1, BoardIs
  <2> HIDE DEF l, v
  <2>4. Sound(l, v, QueueUpdated(BoardUpdated(Feed, l), l))
    BY <1>1, <1>2, <2>3, BoardAndQueueTold
  <2> QED
    BY <2>2, <2>4, StartSound
<1>4. CASE StepAndStartNext(lab, v, QueueUpdated(Feed, lab))
  <2> DEFINE g == QueueUpdated(Feed, lab)
             rest == Debt(lab, work) \ (Pages \X {"queue"})
  <2> HIDE DEF v
  <2>1. Publishable(Feed, PublicSnapshot(lab))
    BY <1>1 DEF PublicOK
  <2>2. IsFeed(g) /\ Told(g, lab, rest) /\ Published(g, PublicSnapshot(lab))
    BY <1>1, <2>1, QueueTold
  <2>3. rest \subseteq Debt(lab, v)
    BY <1>2 DEF Debt
  <2> HIDE DEF g, rest
  <2>4. Sound(lab, v, g)
    BY <1>1, <1>2, <2>2, <2>3, IsSound
  <2> QED
    BY <1>4, <2>4, StartSound DEF g
<1> QED
  BY <1>3, <1>4 DEF ResetAnswers

\* An event of the agent keeps the invariant.
LEMMA BoardEventSound ==
    ASSUME FeedsInv, NEW b \in Boards, BoardEvent(b)
    PROVE  FeedsInv'
<1> DEFINE l == SetBoard(lab, b)
           m == Ending(l)
           g == BoardUpdated(Feed, l)
           u == l.owners[l.active.id]
           due == Debt(l, work) \cup ({<<u, "session">>} \cap (Pages \X Topics))
                    \cup (Pages \X {"queue"})
<1>1. Sound(lab, work, Feed) /\ LabOK(lab) /\ IsWork(work)
  BY DEF FeedsInv, Sound
<1>2. /\ LabOK(l) /\ l.active = lab.active
      /\ l.waiting = lab.waiting /\ l.owners = lab.owners /\ l.demos = lab.demos
      /\ \A z : SameSession(lab, l, z)
  <2>1. LabOK(lab)
    BY <1>1
  <2>2. LabOK(l)
    BY <2>1, BoardIs, Zenon
  <2>5. l.active = lab.active /\ l.waiting = lab.waiting
    BY <2>1 DEF LabOK, IsLab, SetBoard
  <2>3. l.owners = lab.owners /\ l.demos = lab.demos
    BY <2>1, BoardIs, Zenon
  <2>4. \A z : SameSession(lab, l, z)
    BY <2>1, BoardIs, Zenon
  <2> QED
    BY <2>2, <2>3, <2>4, <2>5
<1>3. work.problem = 0
  BY DEF BoardEvent
<1>4. \/ /\ l.active # NoSession
         /\ \E e : Step(m, [work EXCEPT !.problem = l.active.id, !.lock = e], g)
      \/ StepAndStartNext(l, work, g)
  BY DEF BoardEvent, SetBoard
<1> HIDE DEF l, m
<1>6. Sound(l, work, g)
  BY <1>1, <1>2, BoardAndQueueTold
<1>7. CASE StepAndStartNext(l, work, g)
  BY <1>6, <1>7, StartSound
<1>8. CASE l.active # NoSession /\ \E e : Step(m, [work EXCEPT !.problem = l.active.id, !.lock = e], g)
  <2>11. PICK e : Step(m, [work EXCEPT !.problem = l.active.id, !.lock = e], g)
    BY <1>8
  <2> DEFINE v == [work EXCEPT !.problem = l.active.id, !.lock = e]
  <2>12. Step(m, v, g)
    BY <2>11
  <2>13. IsWork(v) /\ v.problem = l.active.id
    <3> DEFINE i == l.active.id
               k == [work EXCEPT !.problem = i]
    <3>1. v = [k EXCEPT !.lock = e]
      OBVIOUS
    <3> HIDE DEF i
    <3>2. IsWork(k) /\ k.problem = i
      BY <1>1 DEF IsWork
    <3> HIDE DEF k, v
    <3>3. IsWork(v) /\ v.problem = i
      BY <3>1, <3>2 DEF IsWork
    <3> QED
      BY <3>3 DEF i
  <2> HIDE DEF v
  <2>1. /\ LabOK(m) /\ m.board = l.board /\ m.connected = l.connected
        /\ m.waiting = l.waiting /\ m.owners = l.owners
        /\ m.active.id = l.active.id /\ m.active.status = "ending"
          /\ \A z : z # u => SameSession(l, m, z)
    BY <1>2, <1>8, EndingIs DEF m
  <2>2. l.active.id # 0
    BY <1>2, <1>8 DEF LabOK
  <2> HIDE DEF g, u
  <2>3. Told(g, l, Debt(l, work)) /\ PublicOK(g, l) /\ IsFeed(g)
    BY <1>6 DEF Sound
  <2>4. \A z \in Pages : \A t \in Topics : <<z, t>> \in due \/ Snapshot(m, z)[t] = Snapshot(l, z)[t]
    BY <2>1, SnapshotIs DEF Topics, SameSession
  <2>5. Unheard(m, v)
    BY <2>1 DEF Unheard
  <2>6. due \subseteq Debt(m, v)
    <3> SUFFICES ASSUME NEW x \in due PROVE x \in Debt(m, v)
      OBVIOUS
    <3>1. CASE x \in Debt(l, work) \/ x \in Pages \X {"queue"}
      BY <1>3, <2>5, <3>1 DEF Debt, Topics
    <3>2. CASE x = <<u, "session">> /\ x \in Pages \X Topics
      <4>1. x[2] = "session" /\ m.owners[v.problem] = x[1] /\ v.problem = m.active.id /\ v.problem # 0
        BY <2>1, <2>2, <2>13, <3>2 DEF u
      <4> QED
        BY <3>2, <4>1 DEF Debt
    <3> QED
      BY <3>1, <3>2
  <2>7. Debt(l, work) \subseteq due
    OBVIOUS
  <2> HIDE DEF due
  <2>8. Told(g, m, due)
    BY <2>3, <2>4, <2>7, NowOwed
  <2>9. PublicOK(g, m)
    BY <2>1, <2>3, Silenced
  <2>10. Sound(m, v, g)
    BY <2>1, <2>3, <2>5, <2>6, <2>8, <2>9, <2>13, IsHushed
  <2> QED
    BY <2>10, <2>12, StepSound
<1> QED
  BY <1>4, <1>7, <1>8

\* Losing the agent keeps the invariant.
LEMMA AgentLostSound ==
    ASSUME FeedsInv, AgentLost
    PROVE  FeedsInv'
<1> DEFINE l == [lab EXCEPT !.connected = FALSE]
           x == PublicSnapshot(l)
           g == PublishPublic(Feed, x)
<1>1. /\ LabOK(lab) /\ IsWork(work) /\ IsFeed(Feed) /\ Told(Feed, lab, Debt(lab, work))
      /\ PublicOK(Feed, lab)
  BY DEF FeedsInv, Sound
<1>2. /\ LabOK(l) /\ l.active = lab.active /\ l.board = lab.board /\ ~l.connected
      /\ l.waiting = lab.waiting /\ l.owners = lab.owners /\ \A z : SameSession(lab, l, z)
  BY <1>1, BoardIs
<1>3. Step(l, work, g)
  BY DEF AgentLost
<1> HIDE DEF l
<1>4. Publishable(Feed, x) /\ x # << >>
  BY <1>1, <1>2, DemoEnds, SnapshotFacts
<1>5. IsFeed(g) /\ g.pages = Feed.pages /\ Published(g, x)
  BY <1>1, <1>4, PublicTold DEF Publishable, Published
<1>6. Debt(lab, work) \subseteq Debt(l, work)
  BY <1>2 DEF Debt, Unheard
<1>7. \A z \in Pages : \A t \in Topics : Snapshot(l, z)[t] = Snapshot(lab, z)[t]
  <2>1. Queue(l) = Queue(lab) /\ \A z : Session(l, z) = Session(lab, z)
    BY <1>2 DEF Queue, SameSession
  <2> QED
    BY <1>2, <2>1, SnapshotIs DEF Topics
<1>8. Told(Feed, l, Debt(l, work))
  BY <1>1, <1>6, <1>7, NowOwed
<1>9. Told(g, l, Debt(l, work))
  BY <1>5, <1>8 DEF Told
<1> HIDE DEF g, x
<1>10. Sound(l, work, g)
  BY <1>1, <1>2, <1>5, <1>9, IsSound DEF x
<1> QED
  BY <1>3, <1>10, StepSound

-----------------------------------------------------------------------------
(* Pages *)

\* A step of one page keeps the invariant if that page still knows what it must.
LEMMA PageSound ==
    ASSUME FeedsInv, NEW u \in Pages, NEW p, PageOK(p), SetPage(u, p),
           UNCHANGED <<lab, work, readers, last>>,
           p.state # "closed" =>
              \A t \in Topics \ p.missed :
                 <<u, t>> \in Debt(lab, work) \/ Under(p, t) = Snapshot(lab, u)[t]
    PROVE  FeedsInv'
<1>1. /\ LabOK(lab) /\ IsWork(work) /\ IsFeed(Feed) /\ Told(Feed, lab, Debt(lab, work))
      /\ PublicOK(Feed, lab) /\ (Unheard(lab, work) \/ Shows(Feed, PublicSnapshot(lab)))
  BY DEF FeedsInv, Sound
<1> DEFINE g == [pages |-> pages', readers |-> readers, last |-> last]
<1>2. Feed' = g /\ lab' = lab /\ work' = work
  BY DEF Feed
<1>3. Feed.pages = pages /\ Feed.readers = readers /\ Feed.last = last
  BY DEF Feed
<1>4. pages = [v \in Pages |-> pages[v]]
  BY <1>1, <1>3 DEF IsFeed
<1>5. pages'[u] = p /\ (\A v \in Pages : v # u => pages'[v] = pages[v])
      /\ pages' = [v \in Pages |-> pages'[v]]
  BY <1>4 DEF SetPage
<1>6. g.pages = pages' /\ g.readers = Feed.readers /\ g.last = Feed.last
      /\ g = [pages |-> g.pages, readers |-> g.readers, last |-> g.last]
  BY <1>3
<1> HIDE DEF g
<1>7. IsFeed(g)
  BY <1>1, <1>3, <1>5, <1>6 DEF IsFeed
<1>8. Told(g, lab, Debt(lab, work))
  <2> SUFFICES ASSUME NEW v \in Pages, pages'[v].state # "closed",
                      NEW t \in Topics \ pages'[v].missed
               PROVE  <<v, t>> \in Debt(lab, work) \/ Under(pages'[v], t) = Snapshot(lab, v)[t]
    BY <1>6 DEF Told
  <2>1. CASE v = u
    BY <1>5, <2>1
  <2>2. CASE v # u
    BY <1>1, <1>3, <1>5, <2>2 DEF Told
  <2> QED
    BY <2>1, <2>2
<1>9. PublicOK(g, lab) /\ (Unheard(lab, work) \/ Shows(g, PublicSnapshot(lab)))
  BY <1>1, <1>6, SamePublic
<1>10. Sound(lab, work, g)
  BY <1>1, <1>7, <1>8, <1>9 DEF Sound
<1> QED
  BY <1>2, <1>10 DEF FeedsInv

\* What the invariant says of one page.
LEMMA PageFacts ==
    ASSUME FeedsInv, NEW u \in Pages
    PROVE  /\ PageOK(pages[u])
           /\ pages[u].state # "closed" =>
                \A t \in Topics \ pages[u].missed :
                   <<u, t>> \in Debt(lab, work) \/ Under(pages[u], t) = Snapshot(lab, u)[t]
<1>1. IsFeed(Feed) /\ Told(Feed, lab, Debt(lab, work))
  BY DEF FeedsInv, Sound
<1>2. Feed.pages = pages
  BY DEF Feed
<1> QED
  BY <1>1, <1>2 DEF IsFeed, Told

\* A page that subscribes keeps the invariant.
LEMMA SubscribesSound ==
    ASSUME FeedsInv, NEW u \in Pages, Subscribes(u)
    PROVE  FeedsInv'
<1> DEFINE o == pages[u]
           p == [o EXCEPT !.state = "subscribed"]
<1>1. SetPage(u, p) /\ UNCHANGED <<lab, work, readers, last>> /\ o.state = "opened"
  BY DEF Subscribes
<1>2. /\ PageOK(o)
      /\ o.state # "closed" =>
           \A t \in Topics \ o.missed :
              <<u, t>> \in Debt(lab, work) \/ Under(o, t) = Snapshot(lab, u)[t]
  BY PageFacts
<1> HIDE DEF o
<1>3. /\ IsPage(p) /\ p.state = "subscribed" /\ p.sub = o.sub /\ p.out = o.out
      /\ p.shown = o.shown /\ p.missed = o.missed
  BY <1>2 DEF PageOK, IsPage
<1> HIDE DEF p
<1>4. PageOK(p)
  BY <1>1, <1>2, <1>3 DEF PageOK
<1>5. \A t : Under(p, t) = Under(o, t)
  BY <1>3 DEF Under
<1> QED
  BY <1>1, <1>2, <1>3, <1>4, <1>5, PageSound

\* A page that goes away keeps the invariant.
LEMMA DisconnectsSound ==
    ASSUME FeedsInv, NEW u \in Pages, Disconnects(u)
    PROVE  FeedsInv'
<1> DEFINE p == [state |-> "closed", sub |-> << >>, out |-> << >>, shown |-> << >>, missed |-> {}]
<1>1. SetPage(u, p) /\ UNCHANGED <<lab, work, readers, last>>
  BY DEF Disconnects
<1>2. IsPage(p) /\ p.state = "closed" /\ p.sub = << >> /\ p.out = << >>
  BY DEF IsPage
<1>3. IsSeq(<< >>) /\ Len(<< >>) = 0
  <2>1. << >> \in Seq({})
    OBVIOUS
  <2> QED
    BY <2>1 DEF IsSeq
<1> HIDE DEF p
<1>4. PageOK(p)
  BY <1>2, <1>3 DEF PageOK
<1> QED
  BY <1>1, <1>2, <1>4, PageSound

\* A page that connects, and is sent the snapshot, keeps the invariant.
LEMMA ConnectsSound ==
    ASSUME FeedsInv, NEW u \in Pages, Connects(u)
    PROVE  FeedsInv'
<1> DEFINE o == pages[u]
           e == [topic |-> "initial", value |-> Snapshot(lab, u)]
           a == [o EXCEPT !.state = "opened"]
           b == [a EXCEPT !.out = <<e>>]
           p == [b EXCEPT !.missed = {}]
<1>0. o.state = "closed"
  BY DEF Connects
<1>12. p = [o EXCEPT !.state = "opened", !.out = <<e>>, !.missed = {}]
  OBVIOUS
<1>1. SetPage(u, p) /\ UNCHANGED <<lab, work, readers, last>>
  <2> HIDE DEF p
  <2> QED
    BY <1>12 DEF Connects
<1>2. PageOK(o)
  BY PageFacts
<1>3. e.topic = "initial" /\ e.value = Snapshot(lab, u) /\ IsSnapshot(e.value)
  BY DEF IsSnapshot, Snapshot
<1> HIDE DEF o, e
<1>4. /\ IsPage(a) /\ a.state = "opened" /\ a.sub = o.sub /\ a.shown = o.shown /\ a.out = o.out
  BY <1>2 DEF PageOK, IsPage
<1> HIDE DEF a
<1>5. /\ IsPage(b) /\ b.state = "opened" /\ b.sub = o.sub /\ b.out = <<e>>
  BY <1>4 DEF IsPage
<1> HIDE DEF b
<1>6. /\ IsPage(p) /\ p.state = "opened" /\ p.sub = o.sub /\ p.out = <<e>>
  BY <1>5 DEF IsPage
<1>7. p.sub = << >>
  BY <1>0, <1>2, <1>6 DEF PageOK
<1> HIDE DEF p
<1>8. /\ IsSeq(p.out) /\ IsSeq(p.sub) /\ Len(p.out) = 1 /\ Len(p.sub) = 0 /\ p.out[1] = e
      /\ p.out # << >>
  <2>1. << >> \in Seq({}) /\ Len(<< >>) = 0
    OBVIOUS
  <2>2. <<e>> \in Seq({e})
    OBVIOUS
  <2>3. Len(<<e>>) = 1 /\ <<e>>[1] = e /\ <<e>> # << >>
    OBVIOUS
  <2> DEFINE q == <<e>>
  <2> HIDE DEF q
  <2>4. IsSeq(q) /\ Len(q) = 1 /\ q[1] = e /\ q # << >>
    BY <2>2, <2>3 DEF IsSeq, q
  <2>5. IsSeq(<< >>)
    BY <2>1 DEF IsSeq
  <2>6. p.out = q
    BY <1>6 DEF q
  <2> QED
    BY <1>7, <2>1, <2>4, <2>5, <2>6
<1>9. PageOK(p)
  <2>1. \A i \in 1..Len(p.out) : p.out[i].topic = "initial" /\ IsSnapshot(p.out[i].value)
    BY <1>3, <1>8
  <2>2. \A i \in 1..Len(p.sub) : FALSE
    BY <1>8
  <2>3. p.out[1].topic = "initial"
    BY <1>3, <1>8
  <2> QED
    BY <1>6, <1>7, <1>8, <2>1, <2>2, <2>3 DEF PageOK
<1>10. IsSeq(Mail(p)) /\ Len(Mail(p)) = 1 /\ Mail(p)[1] = e
  <2>1. /\ IsSeq(Mail(p)) /\ Len(Mail(p)) = Len(p.out) + Len(p.sub)
        /\ \A i \in 1..Len(p.out) : Mail(p)[i] = p.out[i]
    BY <1>8, MailFacts
  <2> DEFINE c == Mail(p)
             a1 == p.out
             n == Len(p.sub)
  <2>2. IsSeq(c) /\ Len(c) = Len(a1) + n /\ (\A i \in 1..Len(a1) : c[i] = a1[i])
        /\ Len(a1) = 1 /\ n = 0 /\ a1[1] = e
    BY <1>8, <2>1
  <2> HIDE DEF c, a1, n
  <2>3. Len(c) = 1 /\ c[1] = e
    BY <2>2
  <2> QED
    BY <2>2, <2>3 DEF c
<1>11. ASSUME NEW t \in Topics PROVE Under(p, t) = Snapshot(lab, u)[t]
  <2>1. DOMAIN Mail(p) = 1..1
    BY <1>10, SeqFacts
  <2>2. Latest(Mail(p), t, 1)
    BY <1>3, <1>10, <2>1 DEF Latest, About
  <2>3. Under(p, t) = Value(e, t)
    BY <1>10, <2>2, UnderIs
  <2> QED
    BY <1>3, <2>3 DEF Value
<1> QED
  BY <1>1, <1>9, <1>11, PageSound

\* The oldest event moves on to the connection.
LEMMA MoveFacts ==
    ASSUME NEW q, IsSeq(q), NEW r, IsSeq(r), r # << >>
    PROVE  Append(q, Head(r)) \o Tail(r) = q \o r
<1>1. PICK S : q \in Seq(S)
  BY DEF IsSeq
<1>2. PICK T : r \in Seq(T)
  BY DEF IsSeq
<1> DEFINE U == S \cup T
           h == Head(r)
           s == Tail(r)
           a == Append(q, h)
           b == a \o s
           c == q \o r
           n == Len(q)
           k == Len(r)
<1>3. q \in Seq(U) /\ r \in Seq(U)
  BY <1>1, <1>2
<1> HIDE DEF U
<1>4. /\ h \in U /\ s \in Seq(U) /\ n \in Nat /\ k \in Nat /\ k > 0 /\ Len(s) = k - 1 /\ h = r[1]
      /\ \A i \in 1..(k - 1) : s[i] = r[i + 1]
  BY <1>3
<1> HIDE DEF h, s
<1>5. /\ a \in Seq(U) /\ Len(a) = n + 1 /\ a[n + 1] = h /\ \A i \in 1..n : a[i] = q[i]
  BY <1>3, <1>4
<1> HIDE DEF a
<1>6. /\ b \in Seq(U) /\ Len(b) = (n + 1) + (k - 1)
      /\ \A i \in 1..Len(b) : b[i] = IF i <= n + 1 THEN a[i] ELSE s[i - (n + 1)]
  <2>1. /\ b \in Seq(U) /\ Len(b) = Len(a) + Len(s)
        /\ \A i \in 1..(Len(a) + Len(s)) : b[i] = IF i <= Len(a) THEN a[i] ELSE s[i - Len(a)]
    BY <1>4, <1>5, ConcatProperties
  <2> HIDE DEF b, n, k
  <2> QED
    BY <1>4, <1>5, <2>1
<1>7. /\ c \in Seq(U) /\ Len(c) = n + k
      /\ \A i \in 1..Len(c) : c[i] = IF i <= n THEN q[i] ELSE r[i - n]
  <2>1. /\ c \in Seq(U) /\ Len(c) = Len(q) + Len(r)
        /\ \A i \in 1..(Len(q) + Len(r)) : c[i] = IF i <= Len(q) THEN q[i] ELSE r[i - Len(q)]
    BY <1>3, ConcatProperties
  <2> QED
    BY <2>1
<1> HIDE DEF b, c, n, k
<1>8. Len(b) = Len(c) /\ Len(c) \in Nat
  BY <1>4, <1>6, <1>7
<1>9. ASSUME NEW i \in 1..Len(b) PROVE b[i] = c[i]
  <2>1. i \in 1..(n + k) /\ b[i] = (IF i <= n + 1 THEN a[i] ELSE s[i - (n + 1)])
        /\ c[i] = IF i <= n THEN q[i] ELSE r[i - n]
    BY <1>4, <1>6, <1>7, <1>8
  <2>2. CASE i <= n
    BY <1>4, <1>5, <2>1, <2>2
  <2>3. CASE i = n + 1
    <3>1. i - n = 1 /\ ~(i <= n) /\ i <= n + 1
      BY <1>4, <2>3
    <3> QED
      BY <1>4, <1>5, <2>1, <2>3, <3>1
  <2>4. CASE i > n + 1
    <3> DEFINE j == i - (n + 1)
    <3>0. i \in 1..(n + k) /\ n \in Nat /\ k \in Nat /\ i > n + 1
      BY <1>4, <2>1, <2>4
    <3>1. j \in 1..(k - 1) /\ j + 1 = i - n /\ ~(i <= n) /\ ~(i <= n + 1)
      BY <3>0
    <3>2. b[i] = s[j] /\ c[i] = r[i - n]
      BY <2>1, <3>1
    <3> HIDE DEF j
    <3> QED
      BY <1>4, <3>1, <3>2
  <2> QED
    BY <1>4, <2>1, <2>2, <2>3, <2>4
<1>10. b = c
  BY <1>6, <1>7, <1>8, <1>9, SeqEqual
<1> QED
  BY <1>10 DEF a, b, c, h, s

\* Moving an event from the subscription to the socket keeps the invariant.
LEMMA ForwardsSound ==
    ASSUME FeedsInv, NEW u \in Pages, Forwards(u)
    PROVE  FeedsInv'
<1> DEFINE o == pages[u]
           h == Head(o.sub)
           s == Tail(o.sub)
           q == Append(o.out, h)
           a == [o EXCEPT !.sub = s]
           p == [a EXCEPT !.out = q]
<1>0. o.sub # << >> /\ UNCHANGED <<lab, work, readers, last>>
  BY DEF Forwards
<1>12. p = [o EXCEPT !.sub = s, !.out = q]
  OBVIOUS
<1>1. SetPage(u, p)
  <2> HIDE DEF p
  <2> QED
    BY <1>12 DEF Forwards
<1>2. /\ PageOK(o)
      /\ o.state # "closed" =>
           \A t \in Topics \ o.missed :
              <<u, t>> \in Debt(lab, work) \/ Under(o, t) = Snapshot(lab, u)[t]
  BY PageFacts
<1>3. IsSeq(o.sub) /\ IsSeq(o.out) /\ o.state # "closed"
  BY <1>0, <1>2 DEF PageOK
<1>4. /\ IsSeq(s) /\ h = o.sub[1] /\ Len(o.sub) > 0 /\ Len(o.sub) \in Nat /\ Len(s) = Len(o.sub) - 1
      /\ \A i \in 1..(Len(o.sub) - 1) : s[i] = o.sub[i + 1]
  BY <1>0, <1>3, SeqFacts
<1>5. /\ IsSeq(q) /\ Len(q) = Len(o.out) + 1 /\ q[Len(o.out) + 1] = h
      /\ \A i \in 1..Len(o.out) : q[i] = o.out[i]
  BY <1>3, AppendFacts
<1>6. q \o s = o.out \o o.sub
  BY <1>0, <1>3, MoveFacts
<1>7. Len(o.out) \in Nat
  BY <1>3, SeqFacts
<1> HIDE DEF o, h, s, q
<1>8. /\ IsPage(a) /\ a.state = o.state /\ a.sub = s /\ a.shown = o.shown /\ a.out = o.out
      /\ a.missed = o.missed
  BY <1>2 DEF PageOK, IsPage
<1> HIDE DEF a
<1>9. /\ IsPage(p) /\ p.state = o.state /\ p.sub = s /\ p.shown = o.shown /\ p.out = q
      /\ p.missed = o.missed
  BY <1>8 DEF IsPage
<1> HIDE DEF p
<1>10. PageOK(p)
  <2>1. \A i \in 1..Len(o.sub) : o.sub[i].topic \in Topics
    BY <1>2 DEF PageOK
  <2>2. ASSUME NEW i \in 1..Len(s) PROVE s[i].topic \in Topics
    <3>1. i + 1 \in 1..Len(o.sub) /\ s[i] = o.sub[i + 1]
      BY <1>4
    <3> QED
      BY <2>1, <3>1
  <2>3. h.topic \in Topics
    <3>1. 1 \in 1..Len(o.sub)
      BY <1>4
    <3> QED
      BY <1>4, <2>1, <3>1
  <2>4. ASSUME NEW i \in 1..Len(q)
        PROVE  \/ q[i].topic \in Topics
               \/ q[i].topic = "initial" /\ IsSnapshot(q[i].value)
    <3>1. i \in 1..Len(o.out) \/ i = Len(o.out) + 1
      BY <1>5, <1>7
    <3> QED
      BY <1>2, <1>5, <2>3, <3>1 DEF PageOK
  <2>5. IsSnapshot(p.shown) \/ (p.out # << >> /\ p.out[1].topic = "initial")
    <3>1. CASE IsSnapshot(o.shown)
      BY <1>9, <3>1
    <3>2. CASE o.out # << >> /\ o.out[1].topic = "initial"
      <4>1. 1 \in 1..Len(o.out)
        BY <1>3, <3>2, SeqFacts
      <4>2. q[1] = o.out[1] /\ Len(q) # 0
        BY <1>5, <1>7, <4>1
      <4>3. q # << >>
        BY <4>2
      <4> QED
        BY <1>9, <3>2, <4>2, <4>3
    <3> QED
      BY <1>2, <1>3, <3>1, <3>2 DEF PageOK
  <2> QED
    BY <1>3, <1>4, <1>5, <1>9, <2>2, <2>4, <2>5 DEF PageOK
<1>11. \A t : Under(p, t) = Under(o, t)
  BY <1>6, <1>9 DEF Under
<1> QED
  BY <1>0, <1>1, <1>2, <1>9, <1>10, <1>11, PageSound

\* What a page shows after a message.
LEMMA ShownIs ==
    ASSUME NEW x, NEW e, e.topic = "initial" \/ (e.topic \in Topics /\ IsSnapshot(x)),
           e.topic = "initial" => IsSnapshot(e.value)
    PROVE  /\ IsSnapshot(Shown(x, e))
           /\ \A t \in Topics : Shown(x, e)[t] = IF e.topic \in {t, "initial"} THEN Value(e, t)
                                                 ELSE x[t]
<1> DEFINE y == Shown(x, e)
           v == e.value
<1>1. CASE e.topic = "initial"
  BY <1>1 DEF Shown, Value
<1>2. CASE e.topic = "board"
  <2>1. y = [x EXCEPT !["board"] = v] /\ IsSnapshot(x)
    BY <1>2 DEF Shown, Topics
  <2> HIDE DEF v, y
  <2>2. y = [board |-> v, session |-> x.session, queue |-> x.queue]
    BY <2>1 DEF IsSnapshot
  <2>3. IsSnapshot(y) /\ y["board"] = v /\ y["session"] = x["session"] /\ y["queue"] = x["queue"]
    BY <2>2 DEF IsSnapshot
  <2> QED
    BY <1>2, <2>3 DEF Value, Topics, v, y
<1>3. CASE e.topic = "session"
  <2>1. y = [x EXCEPT !["session"] = v] /\ IsSnapshot(x)
    BY <1>3 DEF Shown, Topics
  <2> HIDE DEF v, y
  <2>2. y = [board |-> x.board, session |-> v, queue |-> x.queue]
    BY <2>1 DEF IsSnapshot
  <2>3. IsSnapshot(y) /\ y["session"] = v /\ y["board"] = x["board"] /\ y["queue"] = x["queue"]
    BY <2>2 DEF IsSnapshot
  <2> QED
    BY <1>3, <2>3 DEF Value, Topics, v, y
<1>4. CASE e.topic = "queue"
  <2>1. y = [x EXCEPT !["queue"] = v] /\ IsSnapshot(x)
    BY <1>4 DEF Shown, Topics
  <2> HIDE DEF v, y
  <2>2. y = [board |-> x.board, session |-> x.session, queue |-> v]
    BY <2>1 DEF IsSnapshot
  <2>3. IsSnapshot(y) /\ y["queue"] = v /\ y["board"] = x["board"] /\ y["session"] = x["session"]
    BY <2>2 DEF IsSnapshot
  <2> QED
    BY <1>4, <2>3 DEF Value, Topics, v, y
<1> QED
  BY <1>1, <1>2, <1>3, <1>4 DEF Topics

\* A message that reaches the page keeps the invariant.
LEMMA DeliversSound ==
    ASSUME FeedsInv, NEW u \in Pages, Delivers(u)
    PROVE  FeedsInv'
<1> DEFINE o == pages[u]
           h == Head(o.out)
           q == Tail(o.out)
           y == Shown(o.shown, h)
           a == [o EXCEPT !.out = q]
           p == [a EXCEPT !.shown = y]
<1>0. o.out # << >> /\ UNCHANGED <<lab, work, readers, last>>
  BY DEF Delivers
<1>12. p = [o EXCEPT !.out = q, !.shown = y]
  OBVIOUS
<1>1. SetPage(u, p)
  <2> HIDE DEF p
  <2> QED
    BY <1>12 DEF Delivers
<1>2. /\ PageOK(o)
      /\ o.state # "closed" =>
           \A t \in Topics \ o.missed :
              <<u, t>> \in Debt(lab, work) \/ Under(o, t) = Snapshot(lab, u)[t]
  BY PageFacts
<1>3. IsSeq(o.sub) /\ IsSeq(o.out) /\ o.state # "closed"
  BY <1>0, <1>2 DEF PageOK
<1>4. /\ IsSeq(q) /\ h = o.out[1] /\ Len(o.out) > 0 /\ Len(o.out) \in Nat /\ Len(q) = Len(o.out) - 1
      /\ \A i \in 1..(Len(o.out) - 1) : q[i] = o.out[i + 1]
  BY <1>0, <1>3, SeqFacts
<1> HIDE DEF o, h, q
<1>5. h.topic \in Topics \/ (h.topic = "initial" /\ IsSnapshot(h.value))
  <2>1. 1 \in 1..Len(o.out)
    BY <1>4
  <2> QED
    BY <1>2, <1>4, <2>1 DEF PageOK
<1>6. IsSnapshot(o.shown) \/ h.topic = "initial"
  BY <1>2, <1>3, <1>4 DEF PageOK
<1>13. "initial" \notin Topics
  BY DEF Topics
<1>7. /\ IsSnapshot(y)
      /\ \A t \in Topics : y[t] = IF h.topic \in {t, "initial"} THEN Value(h, t) ELSE o.shown[t]
  BY <1>5, <1>6, <1>13, ShownIs
<1> HIDE DEF y
<1>8. /\ IsPage(a) /\ a.state = o.state /\ a.sub = o.sub /\ a.out = q /\ a.missed = o.missed
  BY <1>2 DEF PageOK, IsPage
<1> HIDE DEF a
<1>9. /\ IsPage(p) /\ p.state = o.state /\ p.sub = o.sub /\ p.shown = y /\ p.out = q
      /\ p.missed = o.missed
  BY <1>8 DEF IsPage
<1> HIDE DEF p
<1>10. PageOK(p)
  <2>1. \A i \in 1..Len(o.out) : \/ o.out[i].topic \in Topics
                                 \/ o.out[i].topic = "initial" /\ IsSnapshot(o.out[i].value)
    BY <1>2 DEF PageOK
  <2>2. ASSUME NEW i \in 1..Len(q)
        PROVE  q[i].topic \in Topics \/ (q[i].topic = "initial" /\ IsSnapshot(q[i].value))
    <3>1. i + 1 \in 1..Len(o.out) /\ q[i] = o.out[i + 1]
      BY <1>4
    <3> QED
      BY <2>1, <3>1
  <2>3. \A i \in 1..Len(p.sub) : p.sub[i].topic \in Topics
    BY <1>2, <1>9 DEF PageOK
  <2> QED
    BY <1>3, <1>4, <1>7, <1>9, <2>2, <2>3 DEF PageOK
<1>11. ASSUME NEW t \in Topics PROVE Under(p, t) = Under(o, t)
  <2>1. /\ IsSeq(Mail(o)) /\ Len(Mail(o)) = Len(o.out) + Len(o.sub)
        /\ \A i \in 1..Len(o.out) : Mail(o)[i] = o.out[i]
        /\ \A i \in 1..Len(o.sub) : Mail(o)[Len(o.out) + i] = o.sub[i]
    BY <1>3, MailFacts
  <2>2. /\ IsSeq(Mail(p)) /\ Len(Mail(p)) = Len(p.out) + Len(p.sub)
        /\ \A i \in 1..Len(p.out) : Mail(p)[i] = p.out[i]
        /\ \A i \in 1..Len(p.sub) : Mail(p)[Len(p.out) + i] = p.sub[i]
    BY <1>3, <1>4, <1>9, MailFacts
  <2> DEFINE c == Mail(o)
             d == Mail(p)
             x == o.out
             b == o.sub
             n == Len(x)
             k == Len(b)
  <2>3. /\ IsSeq(c) /\ Len(c) = n + k /\ \A i \in 1..n : c[i] = x[i]
        /\ \A i \in 1..k : c[n + i] = b[i]
    BY <2>1
  <2>4. /\ IsSeq(d) /\ Len(d) = Len(q) + k /\ \A i \in 1..Len(q) : d[i] = q[i]
        /\ \A i \in 1..k : d[Len(q) + i] = b[i]
    BY <1>9, <2>2
  <2>5. /\ h = x[1] /\ n > 0 /\ n \in Nat /\ Len(q) = n - 1 /\ k \in Nat
        /\ \A i \in 1..(n - 1) : q[i] = x[i + 1]
    BY <1>3, <1>4, SeqFacts
  <2> HIDE DEF c, d, x, b, n, k
  <2>6. ASSUME NEW i \in 1..(Len(c) - 1) PROVE d[i] = c[i + 1]
    <3>1. CASE i < n
      <4>1. i \in 1..(n - 1) /\ i + 1 \in 1..n /\ i \in 1..Len(q)
        BY <2>3, <2>5, <3>1
      <4> QED
        BY <2>3, <2>4, <2>5, <4>1
    <3>2. CASE ~(i < n)
      <4> DEFINE j == i - (n - 1)
      <4>1. j \in 1..k /\ i = Len(q) + j /\ i + 1 = n + j
        BY <2>3, <2>5, <3>2
      <4> HIDE DEF j
      <4> QED
        BY <2>3, <2>4, <4>1
    <3> QED
      BY <3>1, <3>2
  <2>7. 1 \in 1..Len(c) /\ Len(d) = Len(c) - 1 /\ c[1] = h
    BY <2>3, <2>4, <2>5
  <2>8. \A i \in 1..(Len(c) - 1) : ~(i < 1)
    BY <2>3, <2>5
  <2>9. DropAt(c, d, 1)
    BY <2>3, <2>4, <2>6, <2>7, <2>8 DEF DropAt
  <2>10. Passed(c, t, 1, o.shown, p.shown)
    BY <1>7, <1>9, <2>7 DEF Passed
  <2> QED
    BY <2>3, <2>7, <2>9, <2>10, UnderDrop DEF c, d
<1> QED
  BY <1>0, <1>1, <1>2, <1>9, <1>10, <1>11, PageSound

-----------------------------------------------------------------------------
(* Readers *)

\* A step of the readers alone keeps the invariant.
LEMMA ReaderSound ==
    ASSUME FeedsInv, NEW r \in Readers, NEW x,
           x = [open |-> x.open, slot |-> x.slot, seen |-> x.seen],
           readers' = [readers EXCEPT ![r] = x], UNCHANGED <<lab, work, pages, last>>,
           x.open => \/ Got(x) = <<PublicSnapshot(lab)>>
                     \/ readers[r].open /\ Got(x) = Got(readers[r])
    PROVE  FeedsInv'
<1>1. /\ LabOK(lab) /\ IsWork(work) /\ IsFeed(Feed) /\ Told(Feed, lab, Debt(lab, work))
      /\ PublicOK(Feed, lab) /\ (Unheard(lab, work) \/ Shows(Feed, PublicSnapshot(lab)))
  BY DEF FeedsInv, Sound
<1> DEFINE g == [pages |-> pages, readers |-> readers', last |-> last]
           y == PublicSnapshot(lab)
<1>2. Feed' = g /\ lab' = lab /\ work' = work
  BY DEF Feed
<1>3. Feed.pages = pages /\ Feed.readers = readers /\ Feed.last = last
  BY DEF Feed
<1>4. readers = [v \in Readers |-> readers[v]]
  BY <1>1, <1>3 DEF IsFeed
<1>5. readers'[r] = x /\ (\A v \in Readers : v # r => readers'[v] = readers[v])
      /\ readers' = [v \in Readers |-> readers'[v]]
  BY <1>4
<1>6. g.pages = Feed.pages /\ g.readers = readers' /\ g.last = Feed.last
      /\ g = [pages |-> g.pages, readers |-> g.readers, last |-> g.last]
  BY <1>3
<1> HIDE DEF g, y
<1>7. IsFeed(g)
  BY <1>1, <1>3, <1>5, <1>6 DEF IsFeed
<1>8. Told(g, lab, Debt(lab, work))
  BY <1>1, <1>6 DEF Told
<1>9. Shows(Feed, y) => Shows(g, y)
  <2> SUFFICES ASSUME Shows(Feed, y), NEW v \in Readers, readers'[v].open
               PROVE  Got(readers'[v]) = <<y>>
    BY <1>6 DEF Shows
  <2>1. readers[v].open => Got(readers[v]) = <<y>>
    BY <1>3 DEF Shows
  <2>2. CASE v = r
    <3>1. x.open /\ readers'[v] = x
      BY <1>5, <2>2
    <3> QED
      BY <2>1, <2>2, <3>1 DEF y
  <2>3. CASE v # r
    BY <1>5, <2>1, <2>3
  <2> QED
    BY <2>2, <2>3
<1>10. PublicOK(g, lab)
  BY <1>1, <1>6, <1>9 DEF PublicOK, Publishable, y
<1>11. Sound(lab, work, g)
  BY <1>1, <1>7, <1>8, <1>9, <1>10 DEF Sound, y
<1> QED
  BY <1>2, <1>11 DEF FeedsInv

\* A reader that connects, hears or leaves keeps the invariant.
LEMMA ReaderStepsSound ==
    ASSUME FeedsInv, NEW r \in Readers, Opens(r) \/ Fetches(r) \/ Closes(r)
    PROVE  FeedsInv'
<1>1. CASE Opens(r)
  <2> DEFINE s == <<PublicSnapshot(lab)>>
             x == [open |-> TRUE, slot |-> s, seen |-> << >>]
  <2>1. readers' = [readers EXCEPT ![r] = x] /\ UNCHANGED <<lab, work, pages, last>>
    BY <1>1 DEF Opens
  <2>2. s # << >>
    OBVIOUS
  <2>3. x = [open |-> x.open, slot |-> x.slot, seen |-> x.seen] /\ x.slot = s
    OBVIOUS
  <2> HIDE DEF x, s
  <2>4. Got(x) = s
    BY <2>2, <2>3 DEF Got
  <2> QED
    BY <2>1, <2>3, <2>4, ReaderSound DEF s
<1>2. CASE Fetches(r)
  <2> DEFINE o == readers[r]
             s == o.slot
             a == [o EXCEPT !.slot = << >>]
             x == [a EXCEPT !.seen = s]
  <2>1. UNCHANGED <<lab, work, pages, last>> /\ s # << >>
    BY <1>2 DEF Fetches
  <2>2. readers' = [readers EXCEPT ![r] = x]
    BY <1>2 DEF Fetches
  <2>3. o = [open |-> o.open, slot |-> o.slot, seen |-> o.seen]
    <3>1. IsFeed(Feed) /\ Feed.readers = readers
      BY DEF FeedsInv, Sound, Feed
    <3> QED
      BY <3>1 DEF IsFeed
  <2> HIDE DEF o, s
  <2>7. a = [open |-> o.open, slot |-> << >>, seen |-> o.seen]
    BY <2>3
  <2> HIDE DEF a
  <2>4. x = [open |-> o.open, slot |-> << >>, seen |-> s]
    BY <2>7
  <2> HIDE DEF x
  <2>5. /\ x = [open |-> x.open, slot |-> x.slot, seen |-> x.seen]
        /\ x.open = o.open /\ x.slot = << >> /\ x.seen = s
    BY <2>4
  <2>6. Got(x) = Got(o)
    BY <2>1, <2>5 DEF Got, s
  <2> QED
    BY <2>1, <2>2, <2>5, <2>6, ReaderSound DEF o
<1>3. CASE Closes(r)
  <2> DEFINE x == [open |-> FALSE, slot |-> << >>, seen |-> << >>]
  <2>1. readers' = [readers EXCEPT ![r] = x] /\ UNCHANGED <<lab, work, pages, last>>
    BY <1>3 DEF Closes
  <2>2. x = [open |-> x.open, slot |-> x.slot, seen |-> x.seen] /\ ~x.open
    OBVIOUS
  <2> HIDE DEF x
  <2> QED
    BY <2>1, <2>2, ReaderSound
<1> QED
  BY <1>1, <1>2, <1>3

-----------------------------------------------------------------------------
(* The theorems *)

\* The invariant holds of the initial state.
LEMMA FeedsInit == Init => FeedsInv
<1> SUFFICES ASSUME Init PROVE FeedsInv
  OBVIOUS
<1>1. /\ lab = [board |-> "idle", connected |-> TRUE, waiting |-> << >>,
                active |-> NoSession, owners |-> << >>, demos |-> << >>]
      /\ work = [starts |-> {}, resets |-> 0, enders |-> 0, lock |-> "free", problem |-> 0]
      /\ pages = [u \in Pages |->
                    [state |-> "closed", sub |-> << >>, out |-> << >>, shown |-> << >>,
                     missed |-> {}]]
      /\ readers = [r \in Readers |-> [open |-> FALSE, slot |-> << >>, seen |-> << >>]]
      /\ last = << >>
  BY DEF Init
<1>2. IsSession(NoSession)
  BY DEF NoSession, IsSession
<1>3. LabOK(lab)
  <2>1. /\ IsLab(lab) /\ lab.active = NoSession /\ lab.owners = << >> /\ lab.waiting = << >>
    BY <1>1 DEF IsLab
  <2>2. /\ << >> \in Seq(Visitors) /\ Len(<< >>) = 0 /\ << >> \in Seq(1..0)
        /\ ToSet(<< >>) = {} /\ Once(<< >>)
    BY DEF ToSet, Once
  <2>3. 0 \in 0..0
    OBVIOUS
  <2> QED
    BY <1>2, <2>1, <2>2, <2>3, NoSessionFacts DEF LabOK
<1>4. IsWork(work)
  BY <1>1 DEF IsWork
<1>5. Feed.pages = pages /\ Feed.readers = readers /\ Feed.last = last
      /\ Feed = [pages |-> Feed.pages, readers |-> Feed.readers, last |-> Feed.last]
  BY DEF Feed
<1>6. ASSUME NEW u \in Pages PROVE PageOK(pages[u]) /\ pages[u].state = "closed"
  <2> DEFINE p == pages[u]
  <2>1. p = [state |-> "closed", sub |-> << >>, out |-> << >>, shown |-> << >>, missed |-> {}]
    BY <1>1
  <2> HIDE DEF p
  <2>2. IsPage(p) /\ p.state = "closed" /\ p.sub = << >> /\ p.out = << >>
    BY <2>1 DEF IsPage
  <2>3. IsSeq(<< >>) /\ Len(<< >>) = 0
    <3>1. << >> \in Seq({})
      OBVIOUS
    <3> QED
      BY <3>1 DEF IsSeq
  <2>4. PageOK(p)
    BY <2>2, <2>3 DEF PageOK
  <2> QED
    BY <2>2, <2>4 DEF p
<1>7. ASSUME NEW r \in Readers
      PROVE  /\ ~readers[r].open
             /\ readers[r] = [open |-> readers[r].open, slot |-> readers[r].slot,
                              seen |-> readers[r].seen]
  BY <1>1
<1>8. pages = [u \in Pages |-> pages[u]] /\ readers = [r \in Readers |-> readers[r]]
  BY <1>1
<1>9. IsFeed(Feed)
  <2>1. Feed.pages = [u \in Pages |-> Feed.pages[u]]
        /\ Feed.readers = [r \in Readers |-> Feed.readers[r]]
    BY <1>5, <1>8
  <2>2. \A u \in Pages : PageOK(Feed.pages[u])
    BY <1>5, <1>6
  <2>3. \A r \in Readers : Feed.readers[r] = [open |-> Feed.readers[r].open,
                              slot |-> Feed.readers[r].slot, seen |-> Feed.readers[r].seen]
    BY <1>5, <1>7
  <2> QED
    BY <1>5, <2>1, <2>2, <2>3 DEF IsFeed
<1>10. Told(Feed, lab, Debt(lab, work))
  BY <1>5, <1>6 DEF Told
<1>11. Shows(Feed, PublicSnapshot(lab))
  BY <1>5, <1>7 DEF Shows
<1>12. PublicOK(Feed, lab)
  BY <1>1, <1>5, <1>11 DEF PublicOK, Publishable
<1> QED
  BY <1>3, <1>4, <1>9, <1>10, <1>11, <1>12 DEF FeedsInv, Sound

\* The steps of a session, of the agent, of a page and of a reader keep it.
LEMMA FeedsStep == FeedsInv /\ [Next]_vars => FeedsInv'
<1> SUFFICES ASSUME FeedsInv, [Next]_vars PROVE FeedsInv'
  OBVIOUS
<1>1. CASE \E u \in Visitors : (\E d \in Demos : CreateSession(u, d)) \/ CancelSession(u) \/ EndSession(u)
  BY <1>1, CreateSound, CancelSound, EndSessionSound
<1>2. CASE TimerEnds \/ ResetAnswers
  BY <1>2, TimerSound, ResetAnswersSound
<1>3. CASE Finishes
  BY <1>3, EndingFinishesSound, ProblemFinishesSound DEF Finishes
<1>4. CASE \E id \in 1..MaxSessions : Proceeds(id)
  BY <1>4, StartedSound, StartFailsSound DEF Proceeds
<1>5. CASE \E b \in Boards : BoardEvent(b)
  BY <1>5, BoardEventSound
<1>6. CASE AgentLost
  BY <1>6, AgentLostSound
<1>7. CASE \E u \in Pages : \/ Connects(u) \/ Subscribes(u) \/ Forwards(u) \/ Delivers(u)
                            \/ Disconnects(u)
  BY <1>7, ConnectsSound, SubscribesSound, ForwardsSound, DeliversSound, DisconnectsSound
<1>8. CASE \E r \in Readers : Opens(r) \/ Fetches(r) \/ Closes(r)
  BY <1>8, ReaderStepsSound
<1>9. CASE UNCHANGED vars
  <2>1. lab' = lab /\ work' = work /\ Feed' = Feed
    BY <1>9 DEF vars, Feed
  <2> QED
    BY <2>1 DEF FeedsInv
<1> QED
  BY <1>1, <1>2, <1>3, <1>4, <1>5, <1>6, <1>7, <1>8, <1>9 DEF Next

\* Whatever has been published, pages know all but what they missed and what
\* they are owed, and readers know the state, unless an end is unannounced; the
\* snapshot that was published last is theirs (BoardManager._publish_*).
THEOREM FeedsInvariant == Spec => []FeedsInv
<1>1. Init => FeedsInv
  BY FeedsInit
<1>2. FeedsInv /\ [Next]_vars => FeedsInv'
  BY FeedsStep
<1> QED
  BY <1>1, <1>2, PTL DEF Spec

\* Dropping the oldest entry of a public reader and leaving out a snapshot that
\* repeats the last never leaves a reader with an old one for good
\* (BoardManager._publish_public).
THEOREM PublicAlwaysCurrent == Spec => []PublicIsCurrent
<1>1. FeedsInv => PublicIsCurrent
  <2> SUFFICES ASSUME FeedsInv, ~Unannounced, NEW r \in Readers, readers[r].open
               PROVE  Got(readers[r]) = <<PublicSnapshot(lab)>>
    BY DEF PublicIsCurrent, HasLatest, Got
  <2>1. Shows(Feed, PublicSnapshot(lab))
    BY DEF FeedsInv, Sound, Unheard, Unannounced
  <2> QED
    BY <2>1 DEF Shows, Feed
<1> QED
  BY <1>1, FeedsInvariant, PTL

\* A page ends on the latest of every topic, unless it missed it: no event
\* overtakes a newer one, a full queue keeps the newest, and every step that
\* changes what a page shows is announced to it (BoardManager._publish_user,
\* websocket of api.py).
THEOREM PagesAlwaysCurrent == Spec => []PageIsCurrent
<1>1. FeedsInv => PageIsCurrent
  <2> SUFFICES ASSUME FeedsInv, NEW u \in Pages, pages[u].state # "closed",
                      NEW t \in Topics \ (pages[u].missed \cup Owed(u))
               PROVE  Under(pages[u], t) = Snapshot(lab, u)[t]
    BY DEF PageIsCurrent
  <2>1. <<u, t>> \in Debt(lab, work) \/ Under(pages[u], t) = Snapshot(lab, u)[t]
    BY PageFacts
  <2>2. <<u, t>> \notin Debt(lab, work)
    <3> SUFFICES ASSUME <<u, t>> \in Debt(lab, work) PROVE t \in Owed(u)
      OBVIOUS
    <3> QED
      BY DEF Debt, Owed, Unheard, Unannounced
  <2> QED
    BY <2>1, <2>2
<1> QED
  BY <1>1, FeedsInvariant, PTL
=============================================================================
