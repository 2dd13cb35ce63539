-------------------------- MODULE SimulationProofs --------------------------
(***************************************************************************)
(* The n-body demo and its board keep in step over a line that loses       *)
(* bytes, for dumps of any length and any number of steps: a call of the   *)
(* monitor that returns has found the board where it wants it, and a frame *)
(* shows the step it is numbered with, if no loss is as short as the end   *)
(* of line after the data.                                                 *)
(*                                                                         *)
(* What is left of a call tells where it is: the k-th operation from the   *)
(* end is the same however the call came there (Left).  For each of them   *)
(* the invariant says what has been asked, what may have been answered,    *)
(* and in what state the board is (SyncAt, LoadAt, RunAt, DumpAt, DoneAt). *)
(* Once an exception is under way nothing more need be known: the worker   *)
(* will not come back to its loop.                                         *)
(***************************************************************************)
EXTENDS Simulation, SequenceTheorems, WellFoundedInduction, TLAPS

-----------------------------------------------------------------------------
(* The calls, from their ends *)

IsSeq(q) == \E S : q \in Seq(S)

Left(q, script) == IsSeq(q) /\ \A j \in 1..Len(q) : q[j] = script[Len(q) + 1 - j]

LoadOps(region, n) ==
    << Op("until", Request("COMPLETE", "", 0), "body"),
       Op("write", Request("payload", region, n), "body"),
       Op("until", Request("READY", "", 0), "body"),
       Op("write", Request("load", region, n), "body") >>

SyncOps == << Op("until", Request("PROMPT", "", 0), "sync"),
              Op("write", Request("help", "", 0), "sync") >>

ConstructScript == [k \in 1..6 |-> IF k <= 4 THEN LoadOps("imem", 0)[k] ELSE SyncOps[k - 4]]

DoneOps == << Op("until", Request("PROMPT", "", 0), "finally"),
              Op("until", Request("LOADING", "", 0), "finally"),
              Op("write", Request("done", "", 0), "finally") >>

DumpOps(c) == << Op("until", Request("PROMPT", "", 0), "try"),
                 Op("exact", Request("", "", 0), "try"),
                 Op("until", Request("BEGIN", "", 0), "try"),
                 Op("write", Request("dump", "", c), "try") >>

RunOps == << Op("until", Request("PROMPT", "", 0), "body"),
             Op("until", Request("DUMPING", "", 0), "body"),
             Op("write", Request("run", "", 0), "body") >>

\* The first of the dump's operations, and of those of the run.
Dumping == 3 + 4 * Chunks
Chunk(k) == Chunks - ((k - 4) \div 4)
Part(k) == 1 + ((k - 4) % 4)

StepScript(n) ==
    [k \in 1..(Dumping + 7) |->
        IF k <= 3 THEN DoneOps[k]
        ELSE IF k <= Dumping THEN DumpOps(Chunk(k))[Part(k)]
        ELSE IF k <= Dumping + 3 THEN RunOps[k - Dumping]
        ELSE LoadOps("args", n)[k - Dumping - 3]]

-----------------------------------------------------------------------------
(* What has come over the line *)

\* Losses cannot be shorter than what stands between the data and the prompt.
Noticed == Bursts \cap {1, 2} = {}

Prompts(q) == IsSeq(q) /\ \A i \in 1..Len(q) : q[i].is = "PROMPT"

\* At most one mark, and prompts.
Marked(q, mark) ==
    /\ IsSeq(q)
    /\ \A i \in 1..Len(q) :
          /\ q[i].is \in {"PROMPT", mark}
          /\ q[i].is = mark => \A j \in (i + 1)..Len(q) : q[j].is = "PROMPT"

Without(q, mark) == IsSeq(q) /\ \A i \in 1..Len(q) : q[i].is # mark

Helps(q) == IsSeq(q) /\ \A i \in 1..Len(q) : q[i].cmd = "help"

Asked(r) ==
    /\ Prompts(rx) /\ IsSeq(sent) /\ sent # << >> /\ sent[Len(sent)] = r
    /\ \A i \in 1..(Len(sent) - 1) : sent[i].cmd = "help"

Answered(mark) == sent = << >> /\ Marked(rx, mark)
Quiet == sent = << >> /\ Prompts(rx)

Prompted(q) == IsSeq(q) /\ \A i \in 1..Len(q) : q[i].is = "PROMPT" => i = Len(q)

\* The reply to a dump once its beginning has been read.
Dumped(q, c, k) ==
    /\ Prompted(q)
    /\ Noticed => \/ Len(q) <= ChunkBytes
                  \/ \A i \in 1..ChunkBytes : q[i] = Data(c, k)[i]

ReadUp(c, k) == [b \in 1..c |-> Data(b, k)]
Read(c, k) == Noticed => got = ReadUp(c, k)

-----------------------------------------------------------------------------
(* Where a call is, k operations from its end, and what that says *)

SyncAt == device = "loading" /\ Helps(sent) /\ Prompts(rx)

Has(region, n) == region # "imem" => dmem[region] = n

LoadAt(k, region, n) ==
    /\ device = "loading"
    /\ k = 4 => Helps(sent) /\ Prompts(rx)
    /\ k = 3 => Asked(Request("load", region, n)) \/ Answered("READY")
    /\ k = 2 => Quiet
    /\ k = 1 => \/ sent = <<Request("payload", region, n)>> /\ Prompts(rx)
                \/ Answered("COMPLETE") /\ Has(region, n)
    /\ k = 0 => Quiet /\ Has(region, n)

ToRun == Request("run", "", 0)
ToDump(c) == Request("dump", "", c)
ToEnd == Request("done", "", 0)

RunAt(k, from, to) ==
    /\ k = 3 => device = "loading" /\ Quiet /\ dmem.state = from
    /\ k = 2 => \/ /\ device = "loading" /\ sent = <<ToRun>> /\ Prompts(rx)
                   /\ dmem.state = from
                \/ device = "running" /\ Quiet /\ dmem.state = from
                \/ device = "dumping" /\ Answered("DUMPING") /\ dmem.state = to
                \/ device = "loading" /\ sent = << >> /\ Without(rx, "DUMPING")
    /\ k = 1 => device = "dumping" /\ Quiet /\ dmem.state = to /\ Read(0, to)

DumpAt(k, c, to) ==
    /\ device = "dumping" /\ dmem.state = to
    /\ k = 4 => Quiet /\ Read(c - 1, to)
    /\ k = 3 => /\ Read(c - 1, to)
                /\ \/ sent = <<ToDump(c)>> /\ Prompts(rx)
                   \/ /\ sent = << >> /\ IsSeq(rx)
                      /\ \A i \in 1..Len(rx) :
                            rx[i].is = "BEGIN" => Dumped(SubSeq(rx, i + 1, Len(rx)), c, to)
    /\ k = 2 => sent = << >> /\ Dumped(rx, c, to) /\ Read(c - 1, to)
    /\ k = 1 => sent = << >> /\ Prompted(rx) /\ (rx # << >> => Read(c, to))

DoneAt(k, to) ==
    /\ dmem.state = to /\ Read(Chunks, to)
    /\ k = 3 => device = "dumping" /\ Quiet
    /\ k = 2 => \/ device = "dumping" /\ sent = <<ToEnd>> /\ Prompts(rx)
                \/ device = "loading" /\ Answered("LOADING")
    /\ k \in {0, 1} => device = "loading" /\ Quiet

ConstructAt(k) ==
    /\ Left(todo, ConstructScript) /\ Len(todo) = k /\ k \in 0..6
    /\ k <= 4 => LoadAt(k, "imem", 0)
    /\ k > 4 => SyncAt

ResetAt(k) ==
    /\ Left(todo, LoadOps("state", 0)) /\ Len(todo) = k /\ k \in 0..4
    /\ LoadAt(k, "state", 0)

\* The steps asked for, the step the board is at and the one it is to get to.
StepPhase(k, n, from, to) ==
    /\ k > Dumping + 3 => LoadAt(k - Dumping - 3, "args", n) /\ dmem.state = from
    /\ k <= Dumping + 3 => dmem.args = n
    /\ k > Dumping /\ k <= Dumping + 3 => RunAt(k - Dumping, from, to)
    /\ k > 3 /\ k <= Dumping => DumpAt(Part(k), Chunk(k), to)
    /\ k <= 3 => DoneAt(k, to)

StepAt(k) ==
    /\ Left(todo, StepScript(backend.asked)) /\ Len(todo) = k /\ k \in 0..(Dumping + 7)
    /\ backend.asked \in Nat \ {0} /\ backend.count + backend.asked <= MaxSteps
    /\ StepPhase(k, backend.asked, backend.count, backend.count + backend.asked)

\* Between two calls the board has the arguments and the step of the backend.
AtRest ==
    /\ todo = << >> /\ device = "loading" /\ Quiet
    /\ dmem.state = backend.count
    /\ backend.previous # 0 => dmem.args = backend.previous

Memory ==
    /\ dmem = [args |-> dmem.args, state |-> dmem.state]
    /\ dmem.args \in Nat /\ dmem.state \in Nat

InStep ==
    worker # "ended" /\ ~raised =>
        /\ Memory
        /\ worker = "construct" => \E k \in 0..6 : ConstructAt(k)
        /\ worker \in {"first", "reset"} => \E k \in 0..4 : ResetAt(k)
        /\ worker = "step" => \E k \in 0..(Dumping + 7) : StepAt(k)
        /\ worker \in {"loop", "settle"} => AtRest

Types ==
    /\ worker \in {"construct", "first", "reset", "step", "loop", "settle", "ended"}
    /\ raised \in BOOLEAN /\ (worker \in {"loop", "settle"} => ~raised)
    /\ backend = [count |-> backend.count, previous |-> backend.previous, asked |-> backend.asked]
    /\ backend.count \in Nat /\ backend.previous \in Nat /\ backend.asked \in Nat
    /\ request = [steps |-> request.steps, reset |-> request.reset] /\ request.steps \in Nat
    /\ state = [playing |-> state.playing, speed |-> state.speed, busy |-> state.busy,
                status |-> state.status, latest |-> state.latest]
    /\ state.speed \in Nat /\ commands \in Seq(Actions)

SimulationInv == Types /\ InStep /\ (Noticed => FrameIsTrue)

-----------------------------------------------------------------------------
(* Sequences *)

\* Sequences of anything.
LEMMA SeqFacts ==
    ASSUME NEW q, IsSeq(q)
    PROVE  /\ Len(q) \in Nat /\ DOMAIN q = 1..Len(q)
           /\ (q = << >>) <=> (Len(q) = 0)
           /\ q # << >> => /\ Head(q) = q[1] /\ IsSeq(Tail(q))
                           /\ Len(Tail(q)) = Len(q) - 1
                           /\ \A i \in 1..(Len(q) - 1) : Tail(q)[i] = q[i + 1]
BY DEF IsSeq

LEMMA AppendFacts ==
    ASSUME NEW q, IsSeq(q), NEW e
    PROVE  /\ IsSeq(Append(q, e)) /\ Len(Append(q, e)) = Len(q) + 1 /\ Append(q, e) # << >>
           /\ \A i \in 1..Len(q) : Append(q, e)[i] = q[i]
           /\ Append(q, e)[Len(q) + 1] = e
<1>1. PICK S : q \in Seq(S)
  BY DEF IsSeq
<1>2. q \in Seq(S \cup {e}) /\ e \in S \cup {e}
  BY <1>1
<1>3. Append(q, e) \in Seq(S \cup {e})
  BY <1>2
<1> QED
  BY <1>2, <1>3 DEF IsSeq

LEMMA ConcatFacts ==
    ASSUME NEW q, IsSeq(q), NEW r, IsSeq(r)
    PROVE  /\ IsSeq(q \o r) /\ Len(q \o r) = Len(q) + Len(r)
           /\ \A i \in 1..Len(q) : (q \o r)[i] = q[i]
           /\ \A i \in 1..Len(r) : (q \o r)[Len(q) + i] = r[i]
           /\ \A i \in (Len(q) + 1)..(Len(q) + Len(r)) : (q \o r)[i] = r[i - Len(q)]
<1>1. PICK S : q \in Seq(S)
  BY DEF IsSeq
<1>2. PICK T : r \in Seq(T)
  BY DEF IsSeq
<1>3. q \in Seq(S \cup T) /\ r \in Seq(S \cup T)
  BY <1>1, <1>2
<1>4. q \o r \in Seq(S \cup T)
  BY <1>3
<1> QED
  BY <1>3, <1>4 DEF IsSeq

LEMMA SubFacts ==
    ASSUME NEW q, IsSeq(q), NEW a \in 1..(Len(q) + 1), NEW b \in (a - 1)..Len(q)
    PROVE  /\ IsSeq(SubSeq(q, a, b)) /\ Len(SubSeq(q, a, b)) = b - a + 1
           /\ \A i \in 1..(b - a + 1) : SubSeq(q, a, b)[i] = q[a + i - 1]
<1>1. PICK S : q \in Seq(S)
  BY DEF IsSeq
<1>2. Len(q) \in Nat /\ a \in 1..(Len(q) + 1) /\ b \in (a - 1)..Len(q)
  BY <1>1
<1>3. /\ SubSeq(q, a, b) \in Seq(S)
      /\ Len(SubSeq(q, a, b)) = IF a <= b THEN b - a + 1 ELSE 0
      /\ \A i \in 1..(b - a + 1) : SubSeq(q, a, b)[i] = q[a + i - 1]
  BY <1>1, <1>2, SubSeqProperties
<1> QED
  BY <1>2, <1>3 DEF IsSeq

\* Sequences that agree everywhere are the same.
LEMMA SameSeq ==
    ASSUME NEW q, IsSeq(q), NEW r, IsSeq(r), Len(q) = Len(r),
           \A i \in 1..Len(q) : q[i] = r[i]
    PROVE  q = r
BY DEF IsSeq

LEMMA TupleFacts ==
    /\ IsSeq(<< >>) /\ Len(<< >>) = 0
    /\ \A a : IsSeq(<<a>>) /\ Len(<<a>>) = 1 /\ <<a>>[1] = a /\ <<a>> # << >>
    /\ \A a : Head(<<a>>) = a /\ Tail(<<a>>) = << >>
    /\ \A a, b : /\ IsSeq(<<a>> \o <<b>>) /\ Len(<<a>> \o <<b>>) = 2
                 /\ (<<a>> \o <<b>>)[1] = a /\ (<<a>> \o <<b>>)[2] = b
<1>1. IsSeq(<< >>) /\ Len(<< >>) = 0
  <2>1. << >> \in Seq({})
    OBVIOUS
  <2> QED
    BY <2>1 DEF IsSeq
<1>2. ASSUME NEW a
      PROVE  IsSeq(<<a>>) /\ Len(<<a>>) = 1 /\ <<a>>[1] = a /\ <<a>> # << >>
             /\ Head(<<a>>) = a /\ Tail(<<a>>) = << >>
  <2>1. <<a>> \in Seq({a}) /\ Len(<<a>>) = 1 /\ <<a>>[1] = a
    OBVIOUS
  <2>2. Tail(<<a>>) \in Seq({a}) /\ Len(Tail(<<a>>)) = 0
    BY <2>1
  <2>3. Tail(<<a>>) = << >>
    BY <2>2
  <2>4. Head(<<a>>) = a
    OBVIOUS
  <2> QED
    BY <2>1, <2>3, <2>4 DEF IsSeq
<1>3. ASSUME NEW a, NEW b
      PROVE  /\ IsSeq(<<a>> \o <<b>>) /\ Len(<<a>> \o <<b>>) = 2
             /\ (<<a>> \o <<b>>)[1] = a /\ (<<a>> \o <<b>>)[2] = b
  BY <1>2, ConcatFacts
<1> QED
  BY <1>1, <1>2, <1>3

\* Some place is the first of its kind.
LEMMA HasFirst ==
    ASSUME NEW n \in Nat, NEW T \in SUBSET (1..n), T # {}
    PROVE  \E i \in T : \A j \in T : i <= j
<1> DEFINE R == {ss \in Nat \X Nat : ss[1] < ss[2]}
<1>1. IsWellFoundedOn(R, Nat)
  BY NatLessThanWellFounded DEF OpToRel
<1>2. T # {} /\ T \subseteq Nat
  OBVIOUS
<1> HIDE DEF R
<1>3. PICK x \in T : \A y \in T : ~(<<y, x>> \in R)
  BY <1>1, <1>2, WFMin
<1>4. \A y \in T : ~(y < x)
  BY <1>2, <1>3 DEF R
<1> QED
  BY <1>2, <1>4

\* What is left once a mark has been found.
LEMMA AfterIs ==
    ASSUME IsSeq(rx), NEW mark, Holds(mark)
    PROVE  \E i \in 1..Len(rx) : /\ rx[i].is = mark /\ \A j \in 1..(i - 1) : rx[j].is # mark
                                 /\ After(mark) = SubSeq(rx, i + 1, Len(rx))
<1> DEFINE T == {i \in 1..Len(rx) : rx[i].is = mark}
           First(i) == rx[i].is = mark /\ \A j \in 1..(i - 1) : rx[j].is # mark
           c == CHOOSE i \in 1..Len(rx) : First(i)
<1>0. Len(rx) \in Nat
  BY SeqFacts
<1>1. T # {} /\ T \in SUBSET (1..Len(rx))
  BY DEF Holds
<1>2. PICK i \in T : \A j \in T : i <= j
  BY <1>0, <1>1, HasFirst
<1>3. i \in 1..Len(rx) /\ First(i)
  BY <1>0, <1>2
<1>4. c \in 1..Len(rx) /\ First(c)
  BY <1>3
<1>5. After(mark) = SubSeq(rx, 1 + c, Len(rx))
  BY DEF After
<1> HIDE DEF c
<1>6. 1 + c = c + 1
  BY <1>0, <1>4
<1> QED
  BY <1>4, <1>5, <1>6

-----------------------------------------------------------------------------
(* The line *)

\* The reply as it arrives: whole or without a burst.
Lossy(reply, part) ==
    /\ IsSeq(part)
    /\ \/ part = reply
       \/ \E n \in Bursts, i \in 0..Len(reply) :
             /\ i + n <= Len(reply) /\ Len(part) = Len(reply) - n
             /\ \A j \in 1..Len(part) : part[j] = IF j <= i THEN reply[j] ELSE reply[j + n]

\* What is sent arrives, whole or without a burst.
LEMMA TransmitIs ==
    ASSUME IsSeq(rx), NEW reply, IsSeq(reply), Transmits(reply)
    PROVE  \E part : Lossy(reply, part) /\ rx' = rx \o part
<1>1. CASE rx' = rx \o reply
  BY <1>1 DEF Lossy
<1>2. ASSUME NEW n \in Bursts, NEW i \in 0..Len(reply), i + n <= Len(reply),
             rx' = rx \o SubSeq(reply, 1, i) \o SubSeq(reply, i + n + 1, Len(reply))
      PROVE  \E part : Lossy(reply, part) /\ rx' = rx \o part
  <2> DEFINE a == SubSeq(reply, 1, i)
             b == SubSeq(reply, i + n + 1, Len(reply))
             part == a \o b
  <2>1. n \in Nat \ {0} /\ Len(reply) \in Nat /\ i \in Nat
    BY <1>2, UartAssumption, SeqFacts
  <2>2. IsSeq(a) /\ Len(a) = i /\ \A j \in 1..i : a[j] = reply[j]
    <3>1. 1 \in 1..(Len(reply) + 1) /\ i \in (1 - 1)..Len(reply)
      BY <2>1, <1>2
    <3> QED
      BY <3>1, <2>1, SubFacts
  <2>3. IsSeq(b) /\ Len(b) = Len(reply) - i - n /\ \A j \in 1..Len(b) : b[j] = reply[i + n + j]
    <3>1. i + n + 1 \in 1..(Len(reply) + 1) /\ Len(reply) \in (i + n + 1 - 1)..Len(reply)
      BY <2>1, <1>2
    <3>2. /\ IsSeq(b) /\ Len(b) = Len(reply) - (i + n + 1) + 1
          /\ \A j \in 1..(Len(reply) - (i + n + 1) + 1) : b[j] = reply[(i + n + 1) + j - 1]
      BY <3>1, SubFacts
    <3> HIDE DEF b
    <3>3. \A j \in 1..Len(b) : (i + n + 1) + j - 1 = i + n + j
      BY <3>2, <2>1
    <3> QED
      BY <3>2, <3>3, <2>1
  <2> HIDE DEF a, b
  <2>4. /\ IsSeq(part) /\ Len(part) = i + Len(b)
        /\ \A j \in 1..i : part[j] = a[j]
        /\ \A j \in (i + 1)..(i + Len(b)) : part[j] = b[j - i]
    <3>0. IsSeq(a) /\ IsSeq(b)
      BY <2>2, <2>3
    <3>1. /\ IsSeq(part) /\ Len(part) = Len(a) + Len(b)
          /\ \A j \in 1..Len(a) : part[j] = a[j]
          /\ \A j \in (Len(a) + 1)..(Len(a) + Len(b)) : part[j] = b[j - Len(a)]
      BY <3>0, ConcatFacts
    <3> HIDE DEF part
    <3> QED
      BY <2>2, <3>1
  <2>5. rx' = rx \o part
    <3>1. PICK S : rx \in Seq(S)
      BY DEF IsSeq
    <3>2. PICK T : a \in Seq(T)
      BY <2>2 DEF IsSeq
    <3>3. PICK U : b \in Seq(U)
      BY <2>3 DEF IsSeq
    <3> DEFINE V == S \cup T \cup U
    <3>4. rx \in Seq(V) /\ a \in Seq(V) /\ b \in Seq(V)
      BY <3>1, <3>2, <3>3
    <3>5. rx' = (rx \o a) \o b
      BY <1>2 DEF a, b
    <3> HIDE DEF V
    <3> QED
      BY <3>4, <3>5, ConcatAssociative
  <2> HIDE DEF part
  <2>6. \A j \in 1..Len(part) : part[j] = IF j <= i THEN reply[j] ELSE reply[j + n]
    BY <2>1, <2>2, <2>3, <2>4
  <2>7. Lossy(reply, part)
    BY <2>1, <2>3, <2>4, <2>6, <1>2 DEF Lossy
  <2> QED
    BY <2>5, <2>7
<1> QED
  BY <1>1, <1>2 DEF Transmits

\* Nothing is added by a loss.
LEMMA LossyMarked ==
    ASSUME NEW reply, NEW part, NEW mark, Marked(reply, mark), Lossy(reply, part)
    PROVE  Marked(part, mark)
<1>1. CASE part = reply
  BY <1>1
<1>2. ASSUME NEW n \in Bursts, NEW i \in 0..Len(reply), i + n <= Len(reply),
             Len(part) = Len(reply) - n,
             \A j \in 1..Len(part) : part[j] = IF j <= i THEN reply[j] ELSE reply[j + n]
      PROVE  Marked(part, mark)
  <2>1. n \in Nat \ {0} /\ Len(reply) \in Nat /\ IsSeq(part) /\ IsSeq(reply)
    BY <1>2, UartAssumption, SeqFacts DEF Lossy, Marked
  <2>2. \A j \in 1..Len(part) : \E k \in j..Len(reply) :
           part[j] = reply[k] /\ \A m \in (j + 1)..Len(part) : \E o \in (k + 1)..Len(reply) :
                                    part[m] = reply[o]
    <3> SUFFICES ASSUME NEW j \in 1..Len(part)
                 PROVE  \E k \in j..Len(reply) :
                           part[j] = reply[k] /\ \A m \in (j + 1)..Len(part) :
                              \E o \in (k + 1)..Len(reply) : part[m] = reply[o]
      OBVIOUS
    <3> DEFINE k == IF j <= i THEN j ELSE j + n
               F(m) == IF m <= i THEN m ELSE m + n
    <3>1. k \in j..Len(reply) /\ part[j] = reply[k]
      BY <1>2, <2>1
    <3>2. ASSUME NEW m \in (j + 1)..Len(part)
          PROVE  F(m) \in (k + 1)..Len(reply) /\ part[m] = reply[F(m)]
      BY <1>2, <2>1
    <3> HIDE DEF k, F
    <3> QED
      BY <3>1, <3>2
  <2>3. ASSUME NEW j \in 1..Len(part)
        PROVE  /\ part[j].is \in {"PROMPT", mark}
               /\ part[j].is = mark => \A m \in (j + 1)..Len(part) : part[m].is = "PROMPT"
    <3>1. PICK k \in j..Len(reply) :
             part[j] = reply[k] /\ \A m \in (j + 1)..Len(part) :
                \E o \in (k + 1)..Len(reply) : part[m] = reply[o]
      BY <2>2
    <3>2. k \in 1..Len(reply)
      BY <2>1
    <3> QED
      BY <3>1, <3>2 DEF Marked
  <2> QED
    BY <2>1, <2>3 DEF Marked
<1> QED
  BY <1>1, <1>2 DEF Lossy

\* A mark comes after what prompts there were.
LEMMA Arrives ==
    ASSUME Prompts(rx), NEW reply, NEW mark, Marked(reply, mark), Transmits(reply)
    PROVE  Marked(rx', mark)
<1>1. IsSeq(rx) /\ IsSeq(reply)
  BY DEF Prompts, Marked
<1>2. PICK part : Lossy(reply, part) /\ rx' = rx \o part
  BY <1>1, TransmitIs
<1>3. Marked(part, mark) /\ IsSeq(part)
  BY <1>2, LossyMarked DEF Lossy
<1> DEFINE q == rx'
<1>4. /\ IsSeq(q) /\ Len(q) = Len(rx) + Len(part) /\ Len(rx) \in Nat /\ Len(part) \in Nat
      /\ \A i \in 1..Len(rx) : q[i] = rx[i]
      /\ \A i \in (Len(rx) + 1)..(Len(rx) + Len(part)) : q[i] = part[i - Len(rx)]
  BY <1>1, <1>2, <1>3, ConcatFacts, SeqFacts
<1> HIDE DEF q
<1>5. ASSUME NEW i \in 1..Len(q)
      PROVE  q[i].is \in {"PROMPT", mark}
  BY <1>3, <1>4 DEF Marked, Prompts
<1>6. ASSUME NEW i \in 1..Len(q), q[i].is = mark, NEW j \in (i + 1)..Len(q)
      PROVE  q[j].is = "PROMPT"
  <2>1. CASE j \in 1..Len(rx)
    BY <1>4, <2>1 DEF Prompts
  <2>2. CASE j > Len(rx) /\ i > Len(rx)
    <3>1. i - Len(rx) \in 1..Len(part) /\ j - Len(rx) \in (i - Len(rx) + 1)..Len(part)
      BY <1>4, <1>6, <2>2
    <3> QED
      BY <1>3, <1>4, <1>6, <2>2, <3>1 DEF Marked
  <2>3. CASE j > Len(rx) /\ i \in 1..Len(rx)
    <3>1. mark = "PROMPT"
      BY <1>4, <1>6, <2>3 DEF Prompts
    <3> QED
      BY <1>5, <1>6, <1>4, <3>1
  <2> QED
    BY <1>4, <2>1, <2>2, <2>3
<1> QED
  BY <1>4, <1>5, <1>6 DEF Marked, q

\* What the firmware says of itself.
LEMMA TextFacts ==
    ASSUME NEW mark
    PROVE  /\ Marked(<< >>, mark) /\ Marked(Text(mark), mark)
           /\ Marked(Text(mark) \o Text("PROMPT"), mark)
<1> DEFINE a == Unit(mark, 0, 0, 0)
           b == Unit("PROMPT", 0, 0, 0)
<1>1. a.is = mark /\ b.is = "PROMPT" /\ Text(mark) = <<a>> /\ Text("PROMPT") = <<b>>
  BY DEF Unit, Text
<1> HIDE DEF a, b
<1>2. Marked(<< >>, mark)
  BY TupleFacts DEF Marked
<1>3. Marked(<<a>>, mark)
  BY <1>1, TupleFacts DEF Marked
<1>4. Marked(<<a>> \o <<b>>, mark)
  <2> DEFINE q == <<a>> \o <<b>>
  <2>1. IsSeq(q) /\ Len(q) = 2 /\ q[1] = a /\ q[2] = b
    BY TupleFacts
  <2> HIDE DEF q
  <2>2. \A i \in 1..Len(q) : i = 1 \/ i = 2
    BY <2>1
  <2>3. \A i \in 1..Len(q) : q[i].is \in {"PROMPT", mark}
    BY <1>1, <2>1, <2>2
  <2>4. \A i \in 1..Len(q) : \A j \in (i + 1)..Len(q) : q[j].is = "PROMPT"
    BY <1>1, <2>1
  <2>5. Marked(q, mark)
    BY <2>1, <2>3, <2>4 DEF Marked
  <2> QED
    BY <2>5 DEF q
<1> QED
  BY <1>1, <1>2, <1>3, <1>4

LEMMA MarkedPrompts ==
    ASSUME NEW q
    PROVE  /\ Marked(q, "PROMPT") <=> Prompts(q)
           /\ \A mark : Prompts(q) => Marked(q, mark) \/ mark = "PROMPT"
           /\ \A mark : Marked(q, "ERROR") /\ mark \notin {"ERROR", "PROMPT"} => Without(q, mark)
BY SeqFacts DEF Marked, Prompts, Without

\* Nothing but prompts is left behind a mark.
LEMMA FoundMark ==
    ASSUME NEW mark, Marked(rx, mark), Holds(mark)
    PROVE  Prompts(After(mark))
<1>1. IsSeq(rx) /\ Len(rx) \in Nat
  BY SeqFacts DEF Marked
<1>2. PICK i \in 1..Len(rx) : rx[i].is = mark /\ After(mark) = SubSeq(rx, i + 1, Len(rx))
  BY <1>1, AfterIs
<1>3. i + 1 \in 1..(Len(rx) + 1) /\ Len(rx) \in (i + 1 - 1)..Len(rx)
  BY <1>1
<1> DEFINE q == SubSeq(rx, i + 1, Len(rx))
<1>4. /\ IsSeq(q) /\ Len(q) = Len(rx) - (i + 1) + 1
      /\ \A j \in 1..(Len(rx) - (i + 1) + 1) : q[j] = rx[(i + 1) + j - 1]
  BY <1>1, <1>3, SubFacts
<1> HIDE DEF q
<1>5. \A j \in 1..Len(q) : (i + 1) + j - 1 \in (i + 1)..Len(rx)
  BY <1>1, <1>4
<1>6. Prompts(q)
  BY <1>2, <1>4, <1>5 DEF Marked, Prompts
<1> QED
  BY <1>2, <1>6 DEF q

\* Prompts hold no other mark.
LEMMA NoMark ==
    ASSUME Prompts(rx), NEW mark, mark # "PROMPT" PROVE ~Holds(mark)
BY DEF Prompts, Holds

LEMMA NotWithout ==
    ASSUME NEW mark, Without(rx, mark) PROVE ~Holds(mark)
BY DEF Without, Holds

-----------------------------------------------------------------------------
(* What is left of a call *)

\* The next operation is the one the script names.
LEMMA LeftTail ==
    ASSUME NEW q, NEW script, Left(q, script), q # << >>
    PROVE  Left(Tail(q), script) /\ Head(q) = script[Len(q)] /\ Len(Tail(q)) = Len(q) - 1
           /\ Len(q) \in Nat \ {0}
<1>1. IsSeq(q) /\ \A j \in 1..Len(q) : q[j] = script[Len(q) + 1 - j]
  BY DEF Left
<1> DEFINE r == Tail(q)
<1>2. /\ Len(q) \in Nat \ {0} /\ Head(q) = q[1] /\ IsSeq(r) /\ Len(r) = Len(q) - 1
      /\ \A i \in 1..(Len(q) - 1) : r[i] = q[i + 1]
  BY <1>1, SeqFacts
<1> HIDE DEF r
<1>0. Len(r) \in Nat /\ Len(q) = Len(r) + 1
  BY <1>2
<1>3. ASSUME NEW j \in 1..Len(r) PROVE r[j] = script[Len(r) + 1 - j]
  <2>1. j + 1 \in 1..Len(q) /\ Len(q) + 1 - (j + 1) = Len(r) + 1 - j
    BY <1>0
  <2> QED
    BY <1>1, <1>2, <2>1
<1>4. Head(q) = script[Len(q)]
  <2>1. 1 \in 1..Len(q) /\ Len(q) + 1 - 1 = Len(q)
    BY <1>2
  <2> QED
    BY <1>1, <1>2, <2>1
<1> QED
  BY <1>2, <1>3, <1>4 DEF Left, r

\* A part of a call, of which some operations are still to follow.
LeftPart(q, script, rest) ==
    IsSeq(q) /\ \A j \in 1..Len(q) : q[j] = script[rest + Len(q) + 1 - j]

LEMMA LeftConcat ==
    ASSUME NEW q, NEW r, NEW script, NEW rest \in Nat, LeftPart(r, script, rest),
           NEW more, more = rest + Len(r), LeftPart(q, script, more)
    PROVE  LeftPart(q \o r, script, rest) /\ Len(q \o r) = Len(q) + Len(r)
<1>1. IsSeq(q) /\ IsSeq(r) /\ Len(q) \in Nat /\ Len(r) \in Nat
  BY SeqFacts DEF LeftPart
<1> DEFINE s == q \o r
<1>2. /\ IsSeq(s) /\ Len(s) = Len(q) + Len(r)
      /\ \A i \in 1..Len(q) : s[i] = q[i]
      /\ \A i \in (Len(q) + 1)..(Len(q) + Len(r)) : s[i] = r[i - Len(q)]
  BY <1>1, ConcatFacts
<1> HIDE DEF s
<1>3. ASSUME NEW j \in 1..Len(s) PROVE s[j] = script[rest + Len(s) + 1 - j]
  <2>1. CASE j <= Len(q)
    <3>1. j \in 1..Len(q) /\ (rest + Len(r)) + Len(q) + 1 - j = rest + Len(s) + 1 - j
      BY <1>1, <1>2, <2>1
    <3> QED
      BY <1>2, <3>1 DEF LeftPart
  <2>2. CASE j > Len(q)
    <3>1. /\ j - Len(q) \in 1..Len(r) /\ j \in (Len(q) + 1)..(Len(q) + Len(r))
          /\ rest + Len(r) + 1 - (j - Len(q)) = rest + Len(s) + 1 - j
      BY <1>1, <1>2, <2>2
    <3> QED
      BY <1>2, <3>1 DEF LeftPart
  <2> QED
    BY <1>1, <1>2, <2>1, <2>2
<1> QED
  BY <1>2, <1>3 DEF LeftPart, s

\* All of a call.
LEMMA LeftAll ==
    ASSUME NEW q, NEW script, LeftPart(q, script, 0) PROVE Left(q, script)
<1>1. IsSeq(q) /\ Len(q) \in Nat
  BY SeqFacts DEF LeftPart
<1>2. \A j \in 1..Len(q) : 0 + Len(q) + 1 - j = Len(q) + 1 - j
  BY <1>1
<1> QED
  BY <1>1, <1>2 DEF LeftPart, Left

\* Short calls.
LEMMA OneLeft ==
    ASSUME NEW a, NEW script, NEW rest \in Nat, a = script[rest + 1]
    PROVE  LeftPart(<<a>>, script, rest) /\ Len(<<a>>) = 1
<1>1. IsSeq(<<a>>) /\ Len(<<a>>) = 1 /\ <<a>>[1] = a
  BY TupleFacts
<1>2. \A j \in 1..1 : rest + 1 + 1 - j = rest + 1 /\ j = 1
  OBVIOUS
<1> QED
  BY <1>1, <1>2 DEF LeftPart

LEMMA TwoLeft ==
    ASSUME NEW a, NEW b, NEW script, NEW rest \in Nat,
           b = script[rest + 1], a = script[rest + 2]
    PROVE  LeftPart(<<a>> \o <<b>>, script, rest) /\ Len(<<a>> \o <<b>>) = 2
<1>1. LeftPart(<<b>>, script, rest) /\ Len(<<b>>) = 1
  BY OneLeft
<1>2. LeftPart(<<a>>, script, rest + 1) /\ Len(<<a>>) = 1
  <2>1. a = script[(rest + 1) + 1] /\ rest + 1 \in Nat
    OBVIOUS
  <2> QED
    BY <2>1, OneLeft
<1>3. rest + 1 = rest + Len(<<b>>) /\ 2 = Len(<<a>>) + Len(<<b>>)
  BY <1>1, <1>2
<1>4. /\ LeftPart(<<a>> \o <<b>>, script, rest)
      /\ Len(<<a>> \o <<b>>) = Len(<<a>>) + Len(<<b>>)
  BY <1>1, <1>2, <1>3, LeftConcat, Zenon
<1> QED
  BY <1>3, <1>4

LEMMA ThreeLeft ==
    ASSUME NEW a, NEW b, NEW c, NEW script, NEW rest \in Nat,
           c = script[rest + 1], b = script[rest + 2], a = script[rest + 3]
    PROVE  /\ LeftPart(<<a>> \o <<b>> \o <<c>>, script, rest)
           /\ Len(<<a>> \o <<b>> \o <<c>>) = 3
<1>1. LeftPart(<<c>>, script, rest) /\ Len(<<c>>) = 1
  BY OneLeft
<1>2. LeftPart(<<a>> \o <<b>>, script, rest + 1) /\ Len(<<a>> \o <<b>>) = 2
  <2>1. b = script[(rest + 1) + 1] /\ a = script[(rest + 1) + 2] /\ rest + 1 \in Nat
    OBVIOUS
  <2> QED
    BY <2>1, TwoLeft
<1>3. rest + 1 = rest + Len(<<c>>) /\ 3 = Len(<<a>> \o <<b>>) + Len(<<c>>)
  BY <1>1, <1>2
<1>4. /\ LeftPart(<<a>> \o <<b>> \o <<c>>, script, rest)
      /\ Len(<<a>> \o <<b>> \o <<c>>) = Len(<<a>> \o <<b>>) + Len(<<c>>)
  BY <1>1, <1>2, <1>3, LeftConcat, Zenon
<1> QED
  BY <1>3, <1>4

LEMMA FourLeft ==
    ASSUME NEW a, NEW b, NEW c, NEW d, NEW script, NEW rest \in Nat,
           d = script[rest + 1], c = script[rest + 2], b = script[rest + 3], a = script[rest + 4]
    PROVE  /\ LeftPart(<<a>> \o <<b>> \o <<c>> \o <<d>>, script, rest)
           /\ Len(<<a>> \o <<b>> \o <<c>> \o <<d>>) = 4
<1>1. LeftPart(<<d>>, script, rest) /\ Len(<<d>>) = 1
  BY OneLeft
<1>2. /\ LeftPart(<<a>> \o <<b>> \o <<c>>, script, rest + 1)
      /\ Len(<<a>> \o <<b>> \o <<c>>) = 3
  <2>1. /\ c = script[(rest + 1) + 1] /\ b = script[(rest + 1) + 2] /\ a = script[(rest + 1) + 3]
        /\ rest + 1 \in Nat
    OBVIOUS
  <2> QED
    BY <2>1, ThreeLeft
<1>3. rest + 1 = rest + Len(<<d>>) /\ 4 = Len(<<a>> \o <<b>> \o <<c>>) + Len(<<d>>)
  BY <1>1, <1>2
<1>4. /\ LeftPart(<<a>> \o <<b>> \o <<c>> \o <<d>>, script, rest)
      /\ Len(<<a>> \o <<b>> \o <<c>> \o <<d>>) = Len(<<a>> \o <<b>> \o <<c>>) + Len(<<d>>)
  BY <1>1, <1>2, <1>3, LeftConcat, Zenon
<1> QED
  BY <1>3, <1>4

\* Loading.
LEMMA LoadLeft ==
    ASSUME NEW region, NEW n, NEW script, NEW rest \in Nat,
           \A k \in 1..4 : script[rest + k] = LoadOps(region, n)[k]
    PROVE  LeftPart(LoadBinary(region, n), script, rest) /\ Len(LoadBinary(region, n)) = 4
<1> DEFINE a == Op("write", Request("load", region, n), "body")
           b == Op("until", Request("READY", "", 0), "body")
           c == Op("write", Request("payload", region, n), "body")
           d == Op("until", Request("COMPLETE", "", 0), "body")
<1>1. LoadBinary(region, n) = <<a>> \o <<b>> \o <<c>> \o <<d>>
  BY DEF LoadBinary, Command, Until
<1>2. d = script[rest + 1] /\ c = script[rest + 2] /\ b = script[rest + 3] /\ a = script[rest + 4]
  <2>1. /\ LoadOps(region, n)[1] = d /\ LoadOps(region, n)[2] = c
        /\ LoadOps(region, n)[3] = b /\ LoadOps(region, n)[4] = a
    BY DEF LoadOps
  <2> HIDE DEF a, b, c, d
  <2> QED
    BY <2>1
<1> HIDE DEF a, b, c, d
<1>3. /\ LeftPart(<<a>> \o <<b>> \o <<c>> \o <<d>>, script, rest)
      /\ Len(<<a>> \o <<b>> \o <<c>> \o <<d>>) = 4
  BY <1>2, FourLeft
<1> QED
  BY <1>1, <1>3, Zenon

\* The first call, also after it has asked for the prompt once more.
LEMMA ConstructLeft ==
    /\ Left(SyncPrompt \o LoadBinary("imem", 0), ConstructScript)
    /\ Len(SyncPrompt \o LoadBinary("imem", 0)) = 6
    /\ \A q : Left(q, ConstructScript) /\ Len(q) = 4 =>
                 Left(SyncPrompt \o q, ConstructScript) /\ Len(SyncPrompt \o q) = 6
<1> DEFINE a == Op("write", Request("help", "", 0), "sync")
           b == Op("until", Request("PROMPT", "", 0), "sync")
<1>1. SyncPrompt = <<a>> \o <<b>>
  BY DEF SyncPrompt, Command, Until
<1>2. b = ConstructScript[4 + 1] /\ a = ConstructScript[4 + 2]
  <2>1. SyncOps[1] = b /\ SyncOps[2] = a
    BY DEF SyncOps
  <2> HIDE DEF a, b
  <2>2. ConstructScript[5] = SyncOps[1] /\ ConstructScript[6] = SyncOps[2]
    BY DEF ConstructScript
  <2> QED
    BY <2>1, <2>2
<1> HIDE DEF a, b
<1>3. LeftPart(SyncPrompt, ConstructScript, 4) /\ Len(SyncPrompt) = 2
  BY <1>1, <1>2, TwoLeft
<1>4. ASSUME NEW q, LeftPart(q, ConstructScript, 0), Len(q) = 4
      PROVE  Left(SyncPrompt \o q, ConstructScript) /\ Len(SyncPrompt \o q) = 6
  <2>1. 4 = 0 + Len(q) /\ 0 \in Nat
    BY <1>4
  <2>2. LeftPart(SyncPrompt \o q, ConstructScript, 0) /\ Len(SyncPrompt \o q) = Len(SyncPrompt) + Len(q)
    BY <1>3, <1>4, <2>1, LeftConcat, Zenon
  <2> QED
    BY <1>3, <1>4, <2>2, LeftAll
<1>5. LeftPart(LoadBinary("imem", 0), ConstructScript, 0) /\ Len(LoadBinary("imem", 0)) = 4
  <2>1. \A k \in 1..4 : ConstructScript[0 + k] = LoadOps("imem", 0)[k]
    BY DEF ConstructScript
  <2> QED
    BY <2>1, LoadLeft
<1>6. ASSUME NEW q, Left(q, ConstructScript) PROVE LeftPart(q, ConstructScript, 0)
  <2>1. IsSeq(q) /\ Len(q) \in Nat
    BY <1>6, SeqFacts DEF Left
  <2>2. \A j \in 1..Len(q) : 0 + Len(q) + 1 - j = Len(q) + 1 - j
    BY <2>1
  <2> QED
    BY <1>6, <2>1, <2>2 DEF Left, LeftPart
<1> QED
  BY <1>4, <1>5, <1>6

\* The load of a reset.
LEMMA ResetLeft ==
    /\ Left(LoadBinary("state", 0), LoadOps("state", 0))
    /\ Len(LoadBinary("state", 0)) = 4
<1>1. \A k \in 1..4 : LoadOps("state", 0)[0 + k] = LoadOps("state", 0)[k]
  OBVIOUS
<1> QED
  BY <1>1, LoadLeft, LeftAll

\* A script's operations, as they are numbered from the end of a step.
LEMMA ScriptFacts ==
    ASSUME NEW n
    PROVE  /\ Dumping \in Nat /\ Dumping >= 7
           /\ \A k \in 1..3 : StepScript(n)[k] = DoneOps[k]
           /\ \A k \in 4..Dumping : StepScript(n)[k] = DumpOps(Chunk(k))[Part(k)]
           /\ \A k \in 1..3 : StepScript(n)[Dumping + k] = RunOps[k]
           /\ \A k \in 1..4 : StepScript(n)[(Dumping + 3) + k] = LoadOps("args", n)[k]
<1>1. Dumping \in Nat /\ Dumping >= 7
  BY UartAssumption DEF Dumping
<1> DEFINE D == Dumping
<1>2. StepScript(n) = [k \in 1..(D + 7) |->
        IF k <= 3 THEN DoneOps[k]
        ELSE IF k <= D THEN DumpOps(Chunk(k))[Part(k)]
        ELSE IF k <= D + 3 THEN RunOps[k - D]
        ELSE LoadOps("args", n)[k - D - 3]]
  BY DEF StepScript
<1> HIDE DEF D
<1>3. D \in Nat /\ D >= 7
  BY <1>1 DEF D
<1>4. \A k \in 1..3 : StepScript(n)[k] = DoneOps[k]
  BY <1>2, <1>3
<1>5. \A k \in 4..D : StepScript(n)[k] = DumpOps(Chunk(k))[Part(k)]
  <2> SUFFICES ASSUME NEW k \in 4..D PROVE StepScript(n)[k] = DumpOps(Chunk(k))[Part(k)]
    OBVIOUS
  <2>1. k \in 1..(D + 7) /\ ~(k <= 3) /\ k <= D
    BY <1>3
  <2> QED
    BY <1>2, <2>1
<1>6. \A k \in 1..3 : StepScript(n)[D + k] = RunOps[k]
  <2> SUFFICES ASSUME NEW k \in 1..3 PROVE StepScript(n)[D + k] = RunOps[k]
    OBVIOUS
  <2>1. /\ D + k \in 1..(D + 7) /\ ~(D + k <= 3) /\ ~(D + k <= D) /\ D + k <= D + 3
        /\ (D + k) - D = k
    BY <1>3
  <2> QED
    BY <1>2, <2>1
<1>7. \A k \in 1..4 : StepScript(n)[(D + 3) + k] = LoadOps("args", n)[k]
  <2> SUFFICES ASSUME NEW k \in 1..4
               PROVE  StepScript(n)[(D + 3) + k] = LoadOps("args", n)[k]
    OBVIOUS
  <2> DEFINE x == (D + 3) + k
  <2>1. /\ x \in 1..(D + 7) /\ ~(x <= 3) /\ ~(x <= D) /\ ~(x <= D + 3)
        /\ x - D - 3 = k
    BY <1>3
  <2> HIDE DEF x
  <2>2. StepScript(n)[x] = LoadOps("args", n)[k]
    BY <1>2, <2>1
  <2> QED
    BY <2>2 DEF x
<1> QED
  BY <1>3, <1>4, <1>5, <1>6, <1>7 DEF D

\* The k-th operation of the dump from its end is one of a chunk's.
LEMMA PartFacts ==
    ASSUME NEW k \in 4..Dumping
    PROVE  /\ Part(k) \in 1..4 /\ Chunk(k) \in 1..Chunks
           /\ k = 4 * (Chunks - Chunk(k)) + 3 + Part(k)
           /\ Part(k) > 1 => k - 1 \in 4..Dumping /\ Part(k - 1) = Part(k) - 1 /\ Chunk(k - 1) = Chunk(k)
           /\ Part(k) = 1 /\ k > 4 => k - 1 \in 4..Dumping /\ Part(k - 1) = 4 /\ Chunk(k - 1) = Chunk(k) + 1
           /\ k = 4 => Part(k) = 1 /\ Chunk(k) = Chunks
           /\ k = Dumping => Part(k) = 4 /\ Chunk(k) = 1
BY UartAssumption DEF Part, Chunk, Dumping

\* The dump is the middle of a step.
LEMMA DumpLeft ==
    ASSUME NEW n
    PROVE  LeftPart(DumpPositions, StepScript(n), 3) /\ Len(DumpPositions) = 4 * Chunks
<1> DEFINE q == DumpPositions
           f == StepScript(n)
<1>1. \A c : /\ DumpOps(c)[1] = DumpChunk(c)[4] /\ DumpOps(c)[2] = DumpChunk(c)[3]
             /\ DumpOps(c)[3] = DumpChunk(c)[2] /\ DumpOps(c)[4] = DumpChunk(c)[1]
  <2> SUFFICES ASSUME NEW c
               PROVE  /\ DumpOps(c)[1] = DumpChunk(c)[4] /\ DumpOps(c)[2] = DumpChunk(c)[3]
                      /\ DumpOps(c)[3] = DumpChunk(c)[2] /\ DumpOps(c)[4] = DumpChunk(c)[1]
    OBVIOUS
  <2> DEFINE w == Op("write", Request("dump", "", c), "try")
             x == Op("until", Request("BEGIN", "", 0), "try")
             y == Op("exact", Request("", "", 0), "try")
             z == Op("until", Request("PROMPT", "", 0), "try")
             g == <<z, y, x, w>>
  <2>1. DumpChunk(c) = <<w>> \o <<x>> \o <<y>> \o <<z>>
    BY DEF DumpChunk, Command, Until
  <2>2. DumpOps(c) = g
    BY DEF DumpOps
  <2> HIDE DEF w, x, y, z
  <2>3. g[0 + 1] = z /\ g[0 + 2] = y /\ g[0 + 3] = x /\ g[0 + 4] = w
    OBVIOUS
  <2> HIDE DEF g
  <2>4. LeftPart(DumpChunk(c), g, 0) /\ Len(DumpChunk(c)) = 4
    <3>1. z = g[0 + 1] /\ y = g[0 + 2] /\ x = g[0 + 3] /\ w = g[0 + 4] /\ 0 \in Nat
      BY <2>3
    <3>2. /\ LeftPart(<<w>> \o <<x>> \o <<y>> \o <<z>>, g, 0)
          /\ Len(<<w>> \o <<x>> \o <<y>> \o <<z>>) = 4
      BY <3>1, FourLeft
    <3> QED
      BY <2>1, <3>2
  <2>5. \A j \in 1..4 : DumpChunk(c)[j] = g[0 + 4 + 1 - j]
    BY <2>4 DEF LeftPart
  <2> QED
    BY <2>2, <2>5
<1>2. Chunks \in Nat \ {0}
  BY UartAssumption
<1>3. q = [i \in 1..(4 * Chunks) |-> DumpChunk((i + 3) \div 4)[1 + ((i - 1) % 4)]]
  BY DEF DumpPositions
<1> HIDE DEF q, f
<1>4. IsSeq(q) /\ Len(q) = 4 * Chunks
  <2> DEFINE S == {DumpChunk((i + 3) \div 4)[1 + ((i - 1) % 4)] : i \in 1..(4 * Chunks)}
  <2>1. q \in [1..(4 * Chunks) -> S]
    BY <1>3
  <2> HIDE DEF S
  <2>2. 4 * Chunks \in Nat
    BY <1>2
  <2>3. q \in Seq(S) /\ Len(q) = 4 * Chunks
    BY <2>1, <2>2
  <2> QED
    BY <2>3 DEF IsSeq
<1>5. ASSUME NEW i \in 1..(4 * Chunks) PROVE q[i] = f[3 + Len(q) + 1 - i]
  <2> DEFINE k == 3 + Len(q) + 1 - i
             c == (i + 3) \div 4
             p == 1 + ((i - 1) % 4)
  <2>1. k \in 4..Dumping /\ k = 4 * Chunks + 4 - i
    BY <1>2, <1>4 DEF Dumping
  <2>2. q[i] = DumpChunk(c)[p]
    BY <1>3
  <2>3. c \in Nat /\ p \in 1..4 /\ i = 4 * (c - 1) + p
    BY <1>2
  <2> HIDE DEF k, c, p
  <2>4. Part(k) \in 1..4 /\ Chunk(k) \in 1..Chunks /\ k = 4 * (Chunks - Chunk(k)) + 3 + Part(k)
    BY <2>1, PartFacts
  <2>5. Chunk(k) = c /\ Part(k) = 5 - p
    BY <1>2, <2>1, <2>3, <2>4
  <2>6. f[k] = DumpOps(c)[5 - p]
    BY <2>1, <2>5, ScriptFacts DEF f
  <2>7. p = 1 \/ p = 2 \/ p = 3 \/ p = 4
    BY <2>3
  <2>8. DumpOps(c)[5 - p] = DumpChunk(c)[p]
    BY <1>1, <2>7
  <2> QED
    BY <2>2, <2>6, <2>8 DEF k
<1>6. LeftPart(q, f, 3)
  BY <1>4, <1>5 DEF LeftPart
<1> QED
  BY <1>4, <1>6 DEF q, f

\* A step, with the arguments loaded or not.
LEMMA StepLeft ==
    ASSUME NEW n
    PROVE  /\ Left(LoadBinary("args", n) \o RunKernel \o DumpPositions \o ReadDone, StepScript(n))
           /\ Len(LoadBinary("args", n) \o RunKernel \o DumpPositions \o ReadDone) = Dumping + 7
           /\ Left(<< >> \o RunKernel \o DumpPositions \o ReadDone, StepScript(n))
           /\ Len(<< >> \o RunKernel \o DumpPositions \o ReadDone) = Dumping + 3
<1> DEFINE f == StepScript(n)
           A == LoadBinary("args", n)
           B == RunKernel
           C == DumpPositions
           D == ReadDone
<1>1. /\ Dumping \in Nat /\ Dumping = 3 + 4 * Chunks
      /\ \A k \in 1..3 : f[k] = DoneOps[k]
      /\ \A k \in 1..3 : f[Dumping + k] = RunOps[k]
      /\ \A k \in 1..4 : f[(Dumping + 3) + k] = LoadOps("args", n)[k]
  BY ScriptFacts DEF Dumping
<1> HIDE DEF f
<1>2. LeftPart(D, f, 0) /\ Len(D) = 3
  <2> DEFINE x == Op("write", Request("done", "", 0), "finally")
             y == Op("until", Request("LOADING", "", 0), "finally")
             z == Op("until", Request("PROMPT", "", 0), "finally")
  <2>1. D = <<x>> \o <<y>> \o <<z>>
    BY DEF ReadDone, Command, Until
  <2>2. DoneOps[1] = z /\ DoneOps[2] = y /\ DoneOps[3] = x
    BY DEF DoneOps
  <2> HIDE DEF x, y, z
  <2>3. z = f[0 + 1] /\ y = f[0 + 2] /\ x = f[0 + 3]
    BY <1>1, <2>2
  <2> QED
    BY <2>1, <2>3, ThreeLeft
<1>3. LeftPart(C, f, 3) /\ Len(C) = 4 * Chunks
  BY DumpLeft DEF f
<1>4. LeftPart(B, f, Dumping) /\ Len(B) = 3
  <2> DEFINE x == Op("write", Request("run", "", 0), "body")
             y == Op("until", Request("DUMPING", "", 0), "body")
             z == Op("until", Request("PROMPT", "", 0), "body")
  <2>1. B = <<x>> \o <<y>> \o <<z>>
    BY DEF RunKernel, Command, Until
  <2>2. RunOps[1] = z /\ RunOps[2] = y /\ RunOps[3] = x
    BY DEF RunOps
  <2> HIDE DEF x, y, z
  <2>3. z = f[Dumping + 1] /\ y = f[Dumping + 2] /\ x = f[Dumping + 3]
    BY <1>1, <2>2
  <2> QED
    BY <1>1, <2>1, <2>3, ThreeLeft
<1>5. LeftPart(A, f, Dumping + 3) /\ Len(A) = 4
  BY <1>1, LoadLeft
<1>6. LeftPart(<< >>, f, Dumping + 3) /\ Len(<< >>) = 0
  BY TupleFacts DEF LeftPart
<1> HIDE DEF A, B, C, D
<1>7. ASSUME NEW q, LeftPart(q, f, Dumping + 3), Len(q) \in Nat
      PROVE  /\ Left(q \o B \o C \o D, f)
             /\ Len(q \o B \o C \o D) = Len(q) + 3 + 4 * Chunks + 3
  <2>0. /\ Dumping + 3 = Dumping + Len(B) /\ Dumping = 3 + Len(C) /\ 3 = 0 + Len(D)
        /\ 3 \in Nat /\ 0 \in Nat
    BY <1>1, <1>2, <1>3, <1>4
  <2>1. LeftPart(q \o B, f, Dumping) /\ Len(q \o B) = Len(q) + Len(B)
    BY <1>1, <1>4, <1>7, <2>0, LeftConcat, Zenon
  <2> DEFINE x == q \o B
             y == x \o C
  <2> HIDE DEF x
  <2>2. LeftPart(y, f, 3) /\ Len(y) = Len(x) + Len(C)
    <3>1. Dumping = 3 + Len(C) /\ 3 \in Nat /\ LeftPart(x, f, Dumping) /\ LeftPart(C, f, 3)
      BY <1>3, <2>0, <2>1 DEF x
    <3> QED
      BY <3>1, LeftConcat
  <2> HIDE DEF y
  <2>3. LeftPart(y \o D, f, 0) /\ Len(y \o D) = Len(y) + Len(D)
    <3>1. 3 = 0 + Len(D) /\ 0 \in Nat /\ LeftPart(y, f, 3) /\ LeftPart(D, f, 0)
      BY <1>2, <2>0, <2>2
    <3> QED
      BY <3>1, LeftConcat
  <2>4. Left(y \o D, f) /\ Len(y \o D) = Len(q) + 3 + 4 * Chunks + 3
    BY <1>2, <1>3, <1>4, <1>7, <2>1, <2>2, <2>3, LeftAll DEF x
  <2> QED
    BY <2>4 DEF x, y
<1>8. 4 + 3 + 4 * Chunks + 3 = Dumping + 7 /\ 0 + 3 + 4 * Chunks + 3 = Dumping + 3
  BY <1>1, UartAssumption
<1>9. Left(A \o B \o C \o D, f) /\ Len(A \o B \o C \o D) = Dumping + 7
  <2>1. Len(A) \in Nat
    BY <1>5
  <2>2. Left(A \o B \o C \o D, f) /\ Len(A \o B \o C \o D) = Len(A) + 3 + 4 * Chunks + 3
    BY <1>5, <1>7, <2>1, Zenon
  <2>3. Len(A) + 3 + 4 * Chunks + 3 = Dumping + 7
    BY <1>5, <1>8
  <2> QED
    BY <2>2, <2>3, Zenon
<1>10. Left(<< >> \o B \o C \o D, f) /\ Len(<< >> \o B \o C \o D) = Dumping + 3
  <2>1. Len(<< >>) \in Nat
    BY <1>6
  <2>2. Left(<< >> \o B \o C \o D, f) /\ Len(<< >> \o B \o C \o D) = Len(<< >>) + 3 + 4 * Chunks + 3
    BY <1>6, <1>7, <2>1, Zenon
  <2>3. Len(<< >>) + 3 + 4 * Chunks + 3 = Dumping + 3
    BY <1>6, <1>8
  <2> QED
    BY <2>2, <2>3, Zenon
<1> QED
  BY <1>9, <1>10 DEF A, B, C, D, f

-----------------------------------------------------------------------------
(* One operation of the monitor *)

Effect(op) ==
    \/ /\ op.do = "write" /\ sent' = Append(sent, op.what)
       /\ rx' = IF op.part = "sync" THEN << >> ELSE rx
       /\ got' = got
    \/ /\ op.do = "until" /\ Holds(op.what.cmd) /\ rx' = After(op.what.cmd) /\ sent' = sent
       /\ got' = IF op.what.cmd = "DUMPING" THEN << >> ELSE got
    \/ /\ op.do = "exact" /\ Len(rx) >= ChunkBytes /\ sent' = sent
       /\ got' = Append(got, SubSeq(rx, 1, ChunkBytes))
       /\ rx' = SubSeq(rx, ChunkBytes + 1, Len(rx))

\* It is done, or asked for once more, or an exception is under way.
LEMMA ClientSteps ==
    ASSUME Client, NEW script, Left(todo, script), NEW k, k = Len(todo)
    PROVE  /\ UNCHANGED <<device, dmem>>
           /\ k \in Nat \ {0}
           /\ \/ /\ Left(todo', script) /\ Len(todo') = k - 1 /\ raised' = raised
                 /\ Effect(script[k])
              \/ /\ script[k].part = "sync" /\ script[k].do # "write"
                 /\ todo' = SyncPrompt \o Tail(todo)
                 /\ Left(Tail(todo), script) /\ Len(Tail(todo)) = k - 1
                 /\ UNCHANGED <<raised, got, sent, rx>>
              \/ raised' = TRUE
<1>1. todo # << >> => /\ Left(Tail(todo), script) /\ NextOp = script[k]
                      /\ Len(Tail(todo)) = k - 1 /\ k \in Nat \ {0}
  BY LeftTail DEF NextOp
<1> HIDE DEF NextOp
<1>2. CASE Writes
  BY <1>1, <1>2 DEF Writes, Waiting, Effect
<1>3. CASE Finds
  BY <1>1, <1>3 DEF Finds, Waiting, Effect
<1>4. CASE Refused
  BY <1>1, <1>4 DEF Refused, Waiting, Raises
<1>5. CASE ReadsExact
  BY <1>1, <1>5 DEF ReadsExact, Waiting, Effect
<1>6. CASE TimesOut
  <2>1. todo # << >> /\ NextOp.do # "write"
    BY <1>6 DEF TimesOut, Starved, Waiting
  <2> QED
    BY <1>1, <1>6, <2>1 DEF TimesOut, Raises
<1> QED
  BY <1>2, <1>3, <1>4, <1>5, <1>6 DEF Client

OpIs(op, do, cmd, part) == op.do = do /\ op.what.cmd = cmd /\ op.part = part

\* The operations of the scripts.
LEMMA OpFacts ==
    /\ \A do, cmd, region, n, part : OpIs(Op(do, Request(cmd, region, n), part), do, cmd, part)
    /\ \A region, n :
          /\ LoadOps(region, n)[4] = Op("write", Request("load", region, n), "body")
          /\ LoadOps(region, n)[3] = Op("until", Request("READY", "", 0), "body")
          /\ LoadOps(region, n)[2] = Op("write", Request("payload", region, n), "body")
          /\ LoadOps(region, n)[1] = Op("until", Request("COMPLETE", "", 0), "body")
    /\ SyncOps[2] = Op("write", Request("help", "", 0), "sync")
    /\ SyncOps[1] = Op("until", Request("PROMPT", "", 0), "sync")
    /\ RunOps[3] = Op("write", Request("run", "", 0), "body")
    /\ RunOps[2] = Op("until", Request("DUMPING", "", 0), "body")
    /\ RunOps[1] = Op("until", Request("PROMPT", "", 0), "body")
    /\ \A c : /\ DumpOps(c)[4] = Op("write", Request("dump", "", c), "try")
              /\ DumpOps(c)[3] = Op("until", Request("BEGIN", "", 0), "try")
              /\ DumpOps(c)[2] = Op("exact", Request("", "", 0), "try")
              /\ DumpOps(c)[1] = Op("until", Request("PROMPT", "", 0), "try")
    /\ DoneOps[3] = Op("write", Request("done", "", 0), "finally")
    /\ DoneOps[2] = Op("until", Request("LOADING", "", 0), "finally")
    /\ DoneOps[1] = Op("until", Request("PROMPT", "", 0), "finally")
BY DEF OpIs, Op, Request, LoadOps, SyncOps, RunOps, DumpOps, DoneOps

\* What a write, and what a wait for a mark, does to the line.
LEMMA WriteEffect ==
    ASSUME NEW what, NEW part, part # "sync", Effect(Op("write", what, part))
    PROVE  sent' = Append(sent, what) /\ rx' = rx /\ got' = got
BY DEF Effect, Op

LEMMA FindEffect ==
    ASSUME NEW mark, NEW part, Effect(Op("until", Request(mark, "", 0), part))
    PROVE  /\ Holds(mark) /\ rx' = After(mark) /\ sent' = sent
           /\ got' = IF mark = "DUMPING" THEN << >> ELSE got
<1> DEFINE op == Op("until", Request(mark, "", 0), part)
<1>1. op.do = "until" /\ op.what.cmd = mark
  BY DEF Op, Request
<1>2. Effect(op)
  OBVIOUS
<1> HIDE DEF op
<1> QED
  BY <1>1, <1>2 DEF Effect

LEMMA UntilEffect ==
    ASSUME NEW mark, NEW part, mark # "DUMPING", Effect(Op("until", Request(mark, "", 0), part))
    PROVE  Holds(mark) /\ rx' = After(mark) /\ sent' = sent /\ got' = got
BY FindEffect

-----------------------------------------------------------------------------
(* One step of the board *)

\* A board that is asked nothing says nothing, unless it is running.
LEMMA BoardQuiet ==
    ASSUME Board, sent = << >> PROVE device = "running"
BY DEF Board, Answers, KernelEnds, KernelHangs

\* It answers the oldest request.
LEMMA BoardAnswers ==
    ASSUME Board, device # "running", IsSeq(sent)
    PROVE  /\ sent # << >> /\ sent' = Tail(sent) /\ Transmits(Reply(sent[1]))
           /\ device' = CASE sent[1].cmd = "run" /\ device = "loading" -> "running"
                          [] sent[1].cmd = "done" /\ device = "dumping" -> "loading"
                          [] OTHER -> device
           /\ dmem' = IF sent[1].cmd = "payload" /\ sent[1].region # "imem"
                      THEN [dmem EXCEPT ![sent[1].region] = sent[1].n] ELSE dmem
<1>1. Answers
  BY DEF Board, KernelEnds, KernelHangs
<1>2. sent # << >> => Head(sent) = sent[1]
  BY SeqFacts
<1> QED
  BY <1>1, <1>2 DEF Answers

\* The board does not touch the call.
LEMMA BoardKeeps ==
    ASSUME Board PROVE UNCHANGED <<todo, raised, attempt, got>>
BY DEF Board, Answers, KernelEnds, KernelHangs

\* What the firmware answers.
LEMMA ReplyFacts ==
    ASSUME NEW r
    PROVE  /\ r.cmd = "help" => Reply(r) = Text("PROMPT")
           /\ r.cmd = "load" /\ device = "loading" => Reply(r) = Text("READY")
           /\ r.cmd = "payload" => Reply(r) = Text("COMPLETE") \o Text("PROMPT")
           /\ r.cmd = "run" /\ device = "loading" => Reply(r) = << >>
           /\ r.cmd = "done" /\ device = "dumping" => Reply(r) = Text("LOADING") \o Text("PROMPT")
           /\ r.cmd = "dump" => Reply(r) = Text("BEGIN") \o Data(r.n, dmem.state)
                                           \o Text("CR") \o Text("LF") \o Text("PROMPT")
<1>1. r.cmd = "help" => Reply(r) = Text("PROMPT")
  BY DEF Reply
<1>2. r.cmd = "load" /\ device = "loading" => Reply(r) = Text("READY")
  BY DEF Reply
<1>3. r.cmd = "payload" => Reply(r) = Text("COMPLETE") \o Text("PROMPT")
  BY DEF Reply
<1>4. r.cmd = "run" /\ device = "loading" => Reply(r) = << >>
  BY DEF Reply
<1>5. r.cmd = "done" /\ device = "dumping" => Reply(r) = Text("LOADING") \o Text("PROMPT")
  BY DEF Reply
<1>6. r.cmd = "dump" => Reply(r) = Text("BEGIN") \o Data(r.n, dmem.state)
                                   \o Text("CR") \o Text("LF") \o Text("PROMPT")
  BY DEF Reply
<1> QED
  BY <1>1, <1>2, <1>3, <1>4, <1>5, <1>6

\* A prompt among prompts.
LEMMA PromptArrives ==
    ASSUME Prompts(rx), Transmits(Text("PROMPT")) \/ Transmits(<< >>) PROVE Prompts(rx')
<1>1. Marked(Text("PROMPT"), "PROMPT") /\ Marked(<< >>, "PROMPT")
  BY TextFacts
<1>2. Marked(rx', "PROMPT")
  BY <1>1, Arrives
<1> QED
  BY <1>2, MarkedPrompts

\* Finding a prompt among prompts, or the mark among them.
LEMMA FoundPrompt ==
    ASSUME Prompts(rx), Holds("PROMPT") PROVE Prompts(After("PROMPT"))
<1>1. Marked(rx, "PROMPT")
  BY MarkedPrompts
<1> QED
  BY <1>1, FoundMark

-----------------------------------------------------------------------------
(* Finding the prompt *)

\* Requests for the prompt.
LEMMA HelpsFacts ==
    /\ Helps(<< >>) /\ Prompts(<< >>)
    /\ \A q, r : Helps(q) /\ r.cmd = "help" => Helps(Append(q, r))
    /\ \A q : Helps(q) /\ q # << >> => q[1].cmd = "help" /\ Helps(Tail(q))
<1>1. Helps(<< >>) /\ Prompts(<< >>)
  BY TupleFacts DEF Helps, Prompts
<1>2. ASSUME NEW q, NEW r, Helps(q), r.cmd = "help" PROVE Helps(Append(q, r))
  <2>1. IsSeq(q) /\ Len(q) \in Nat
    BY <1>2, SeqFacts DEF Helps
  <2> DEFINE s == Append(q, r)
  <2>2. /\ IsSeq(s) /\ Len(s) = Len(q) + 1 /\ \A i \in 1..Len(q) : s[i] = q[i]
        /\ s[Len(q) + 1] = r
    BY <2>1, AppendFacts
  <2> HIDE DEF s
  <2>3. \A i \in 1..Len(s) : i \in 1..Len(q) \/ i = Len(q) + 1
    BY <2>1, <2>2
  <2>4. Helps(s)
    BY <1>2, <2>2, <2>3 DEF Helps
  <2> QED
    BY <2>4 DEF s
<1>3. ASSUME NEW q, Helps(q), q # << >> PROVE q[1].cmd = "help" /\ Helps(Tail(q))
  <2> DEFINE t == Tail(q)
  <2>1. /\ Len(q) \in Nat \ {0} /\ IsSeq(t) /\ Len(t) = Len(q) - 1
        /\ \A i \in 1..(Len(q) - 1) : t[i] = q[i + 1]
    BY <1>3, SeqFacts DEF Helps
  <2> HIDE DEF t
  <2>2. \A i \in 1..Len(t) : i + 1 \in 1..Len(q) /\ t[i] = q[i + 1]
    BY <2>1
  <2>3. Helps(t) /\ q[1].cmd = "help"
    BY <1>3, <2>1, <2>2 DEF Helps
  <2> QED
    BY <2>3 DEF t
<1> QED
  BY <1>1, <1>2, <1>3

\* Asking for the prompt, by the monitor and by the board.
LEMMA SyncClient ==
    ASSUME SyncAt, device' = device, NEW k \in {1, 2}, Effect(SyncOps[k])
    PROVE  SyncAt'
<1>1. CASE k = 2
  <2>1. sent' = Append(sent, Request("help", "", 0)) /\ rx' = << >>
    <3>1. Effect(Op("write", Request("help", "", 0), "sync"))
      BY <1>1, OpFacts
    <3> QED
      BY <3>1 DEF Effect, Op
  <2>2. Request("help", "", 0).cmd = "help"
    BY DEF Request
  <2> QED
    BY <2>1, <2>2, HelpsFacts DEF SyncAt
<1>2. CASE k = 1
  <2>1. Effect(Op("until", Request("PROMPT", "", 0), "sync"))
    BY <1>2, OpFacts
  <2>2. Holds("PROMPT") /\ rx' = After("PROMPT") /\ sent' = sent
    BY <2>1, UntilEffect
  <2> QED
    BY <2>2, FoundPrompt DEF SyncAt
<1> QED
  BY <1>1, <1>2

LEMMA SyncBoard ==
    ASSUME SyncAt, Board PROVE SyncAt' /\ dmem' = dmem
<1>1. device = "loading" /\ IsSeq(sent) /\ Helps(sent) /\ Prompts(rx)
  BY DEF SyncAt, Helps
<1>2. /\ sent # << >> /\ sent' = Tail(sent) /\ Transmits(Reply(sent[1]))
      /\ sent[1].cmd = "help" => device' = device /\ dmem' = dmem
  BY <1>1, BoardAnswers
<1>3. sent[1].cmd = "help" /\ Helps(sent')
  BY <1>1, <1>2, HelpsFacts
<1>4. Prompts(rx')
  BY <1>1, <1>2, <1>3, ReplyFacts, PromptArrives
<1> QED
  BY <1>1, <1>2, <1>3, <1>4 DEF SyncAt

-----------------------------------------------------------------------------
(* Loading *)

\* A request behind requests for the prompt, as it is asked and as it is served.
LEMMA AsksMore ==
    ASSUME Helps(sent), Prompts(rx), NEW r, sent' = Append(sent, r), rx' = rx
    PROVE  Asked(r)'
<1>1. IsSeq(sent) /\ Len(sent) \in Nat
  BY SeqFacts DEF Helps
<1> DEFINE s == sent'
<1>2. /\ IsSeq(s) /\ Len(s) = Len(sent) + 1 /\ s # << >>
      /\ \A i \in 1..Len(sent) : s[i] = sent[i]
      /\ s[Len(sent) + 1] = r
  BY <1>1, AppendFacts
<1> HIDE DEF s
<1>3. \A i \in 1..(Len(s) - 1) : i \in 1..Len(sent) /\ s[i].cmd = "help"
  BY <1>1, <1>2 DEF Helps
<1>4. s[Len(s)] = r
  BY <1>1, <1>2
<1>5. /\ Prompts(rx') /\ IsSeq(s) /\ s # << >> /\ s[Len(s)] = r
      /\ \A i \in 1..(Len(s) - 1) : s[i].cmd = "help"
  BY <1>2, <1>3, <1>4
<1> QED
  BY <1>5 DEF Asked, s

LEMMA AskedFacts ==
    ASSUME NEW r, Asked(r)
    PROVE  /\ Prompts(rx) /\ IsSeq(sent) /\ sent # << >>
           /\ \/ sent[1] = r /\ Tail(sent) = << >>
              \/ /\ sent[1].cmd = "help"
                 /\ \A t : t = Tail(sent) => /\ IsSeq(t) /\ t # << >> /\ t[Len(t)] = r
                                             /\ \A i \in 1..(Len(t) - 1) : t[i].cmd = "help"
<1>1. /\ Prompts(rx) /\ IsSeq(sent) /\ sent # << >> /\ sent[Len(sent)] = r
      /\ \A i \in 1..(Len(sent) - 1) : sent[i].cmd = "help"
  BY DEF Asked
<1> DEFINE t == Tail(sent)
<1>2. /\ Len(sent) \in Nat \ {0} /\ IsSeq(t) /\ Len(t) = Len(sent) - 1
      /\ \A i \in 1..(Len(sent) - 1) : t[i] = sent[i + 1]
      /\ (t = << >>) <=> (Len(t) = 0)
  <2>1. Len(sent) \in Nat \ {0} /\ IsSeq(t) /\ Len(t) = Len(sent) - 1
        /\ \A i \in 1..(Len(sent) - 1) : t[i] = sent[i + 1]
    BY <1>1, SeqFacts
  <2>2. (t = << >>) <=> (Len(t) = 0)
    BY <2>1, SeqFacts
  <2> QED
    BY <2>1, <2>2
<1> HIDE DEF t
<1>3. CASE Len(sent) = 1
  <2>1. t = << >> /\ sent[1] = r
    BY <1>1, <1>2, <1>3
  <2> QED
    BY <1>1, <2>1 DEF t
<1>4. CASE Len(sent) # 1
  <2>1. 1 \in 1..(Len(sent) - 1) /\ t # << >> /\ Len(t) \in 1..(Len(sent) - 1) /\ Len(t) + 1 = Len(sent)
    BY <1>2, <1>4
  <2>2. sent[1].cmd = "help" /\ t[Len(t)] = r
    BY <1>1, <1>2, <2>1
  <2>3. \A i \in 1..(Len(t) - 1) : i + 1 \in 1..(Len(sent) - 1) /\ t[i] = sent[i + 1]
    BY <1>2, <2>1
  <2>4. \A i \in 1..(Len(t) - 1) : t[i].cmd = "help"
    BY <1>1, <2>3
  <2> QED
    BY <1>1, <1>2, <2>1, <2>2, <2>4 DEF t
<1> QED
  BY <1>3, <1>4

\* A command is the only one on its way, if the board was quiet.
LEMMA AsksOne ==
    ASSUME Quiet, NEW r, sent' = Append(sent, r), rx' = rx
    PROVE  sent' = <<r>> /\ Prompts(rx')
BY DEF Quiet

\* A single request.
LEMMA OneAnswered ==
    ASSUME NEW r, sent = <<r>>
    PROVE  IsSeq(sent) /\ sent[1] = r /\ Tail(sent) = << >>
BY TupleFacts

\* Each operation of a load leads to the next.
LEMMA LoadClient ==
    ASSUME NEW k \in 1..4, NEW region, NEW n, LoadAt(k, region, n), Effect(LoadOps(region, n)[k]),
           UNCHANGED <<device, dmem>>
    PROVE  LoadAt(k - 1, region, n)' /\ got' = got
<1>1. CASE k = 4
  <2>1. Effect(Op("write", Request("load", region, n), "body"))
    BY <1>1, OpFacts
  <2>2. sent' = Append(sent, Request("load", region, n)) /\ rx' = rx /\ got' = got
    BY <2>1, WriteEffect
  <2>3. Asked(Request("load", region, n))'
    BY <1>1, <2>2, AsksMore DEF LoadAt
  <2> QED
    BY <1>1, <2>2, <2>3 DEF LoadAt
<1>2. CASE k = 3
  <2>1. Effect(Op("until", Request("READY", "", 0), "body"))
    BY <1>2, OpFacts
  <2>2. Holds("READY") /\ rx' = After("READY") /\ sent' = sent /\ got' = got
    BY <2>1, UntilEffect
  <2>3. ~Asked(Request("load", region, n))
    BY <2>2, NoMark DEF Asked
  <2>4. Answered("READY")
    BY <1>2, <2>3 DEF LoadAt
  <2>5. Quiet'
    BY <2>2, <2>4, FoundMark DEF Answered, Quiet
  <2> QED
    BY <1>2, <2>2, <2>5 DEF LoadAt
<1>3. CASE k = 2
  <2>1. Effect(Op("write", Request("payload", region, n), "body"))
    BY <1>3, OpFacts
  <2>2. sent' = Append(sent, Request("payload", region, n)) /\ rx' = rx /\ got' = got
    BY <2>1, WriteEffect
  <2>3. sent' = <<Request("payload", region, n)>> /\ Prompts(rx')
    BY <1>3, <2>2, AsksOne DEF LoadAt
  <2> DEFINE r == Request("payload", region, n)
  <2>4. device' = "loading" /\ sent' = <<r>> /\ Prompts(rx') /\ k - 1 = 1
    BY <1>3, <2>3 DEF LoadAt
  <2>5. LoadAt(1, region, n)'
    <3> HIDE DEF r
    <3>1. (1 = 4) = FALSE /\ (1 = 3) = FALSE /\ (1 = 2) = FALSE /\ (1 = 0) = FALSE
      OBVIOUS
    <3>2. sent' = <<Request("payload", region, n)>>
      BY <2>4 DEF r
    <3> QED
      BY <2>4, <3>1, <3>2 DEF LoadAt
  <2> QED
    BY <1>3, <2>2, <2>5
<1>4. CASE k = 1
  <2>1. Effect(Op("until", Request("COMPLETE", "", 0), "body"))
    BY <1>4, OpFacts
  <2>2. Holds("COMPLETE") /\ rx' = After("COMPLETE") /\ sent' = sent /\ got' = got
    BY <2>1, UntilEffect
  <2>3. ~Prompts(rx)
    BY <2>2, NoMark
  <2>4. Answered("COMPLETE") /\ Has(region, n)
    BY <1>4, <2>3 DEF LoadAt
  <2>5. Quiet'
    BY <2>2, <2>4, FoundMark DEF Answered, Quiet
  <2> QED
    BY <1>4, <2>2, <2>4, <2>5 DEF LoadAt, Has
<1> QED
  BY <1>1, <1>2, <1>3, <1>4

\* Only the payload changes the memory, and only its own region.
LEMMA LoadBoard ==
    ASSUME NEW k \in 0..4, NEW region \in {"imem", "args", "state"}, NEW n \in Nat,
           LoadAt(k, region, n), Memory, Board
    PROVE  /\ LoadAt(k, region, n)' /\ Memory'
           /\ region # "state" => dmem'.state = dmem.state
           /\ region # "args" => dmem'.args = dmem.args
<1>0. device = "loading"
  BY DEF LoadAt
<1>1. ~(sent = << >>)
  BY <1>0, BoardQuiet
<1>2. CASE k = 4
  <2>1. SyncAt
    BY <1>2 DEF LoadAt, SyncAt
  <2>2. SyncAt' /\ dmem' = dmem
    BY <2>1, SyncBoard
  <2> QED
    BY <1>2, <2>2 DEF LoadAt, SyncAt, Memory
<1>3. CASE k = 3
  <2> DEFINE r == Request("load", region, n)
  <2>0. r.cmd = "load"
    BY DEF Request
  <2>1. Asked(r)
    BY <1>1, <1>3 DEF LoadAt, Answered
  <2> HIDE DEF r
  <2>2. /\ Prompts(rx) /\ IsSeq(sent)
        /\ \/ sent[1] = r /\ Tail(sent) = << >>
           \/ /\ sent[1].cmd = "help"
              /\ \A t : t = Tail(sent) => /\ IsSeq(t) /\ t # << >> /\ t[Len(t)] = r
                                          /\ \A i \in 1..(Len(t) - 1) : t[i].cmd = "help"
    BY <2>1, AskedFacts
  <2>3. /\ sent' = Tail(sent) /\ Transmits(Reply(sent[1]))
        /\ sent[1].cmd \in {"help", "load"} => device' = device /\ dmem' = dmem
    BY <1>0, <2>2, BoardAnswers
  <2>4. device' = device /\ dmem' = dmem
    BY <2>0, <2>2, <2>3
  <2>5. CASE sent[1] = r /\ Tail(sent) = << >>
    <3>1. Transmits(Text("READY"))
      BY <1>0, <2>0, <2>3, <2>5, ReplyFacts
    <3>2. Marked(rx', "READY")
      BY <2>2, <3>1, TextFacts, Arrives
    <3> QED
      BY <1>3, <2>3, <2>4, <2>5, <3>2, <1>0 DEF LoadAt, Answered, Memory
  <2>6. CASE /\ sent[1].cmd = "help"
             /\ \A t : t = Tail(sent) => /\ IsSeq(t) /\ t # << >> /\ t[Len(t)] = r
                                         /\ \A i \in 1..(Len(t) - 1) : t[i].cmd = "help"
    <3>1. Transmits(Text("PROMPT"))
      BY <2>3, <2>6, ReplyFacts
    <3>2. Prompts(rx')
      BY <2>2, <3>1, PromptArrives
    <3>3. Asked(r)'
      BY <2>3, <2>6, <3>2 DEF Asked
    <3> QED
      BY <1>0, <1>3, <2>4, <3>3 DEF LoadAt, Memory, r
  <2> QED
    BY <2>2, <2>5, <2>6
<1>4. CASE k = 1
  <2> DEFINE r == Request("payload", region, n)
  <2>0. r.cmd = "payload" /\ r.region = region /\ r.n = n
    BY DEF Request
  <2>1. sent = <<r>> /\ Prompts(rx)
    BY <1>1, <1>4 DEF LoadAt, Answered
  <2> HIDE DEF r
  <2>2. IsSeq(sent) /\ sent[1] = r /\ Tail(sent) = << >>
    BY <2>1, OneAnswered
  <2>3. /\ sent' = << >> /\ Transmits(Reply(r)) /\ device' = device
        /\ dmem' = IF region # "imem" THEN [dmem EXCEPT ![region] = n] ELSE dmem
    <3>1. /\ sent' = Tail(sent) /\ Transmits(Reply(sent[1]))
          /\ device' = CASE sent[1].cmd = "run" /\ device = "loading" -> "running"
                         [] sent[1].cmd = "done" /\ device = "dumping" -> "loading"
                         [] OTHER -> device
          /\ dmem' = IF sent[1].cmd = "payload" /\ sent[1].region # "imem"
                     THEN [dmem EXCEPT ![sent[1].region] = sent[1].n] ELSE dmem
      BY <1>0, <2>2, BoardAnswers
    <3>2. device' = device
      BY <2>0, <2>2, <3>1
    <3> QED
      BY <2>0, <2>2, <3>1, <3>2
  <2>4. Marked(rx', "COMPLETE")
    <3>1. Transmits(Text("COMPLETE") \o Text("PROMPT"))
      BY <2>0, <2>3, ReplyFacts
    <3> QED
      BY <2>1, <3>1, TextFacts, Arrives
  <2>5. /\ Memory' /\ Has(region, n)'
        /\ region # "state" => dmem'.state = dmem.state
        /\ region # "args" => dmem'.args = dmem.args
    BY <2>3 DEF Memory, Has
  <2> QED
    BY <1>0, <1>4, <2>3, <2>4, <2>5 DEF LoadAt, Answered
<1>5. CASE k \in {0, 2}
  BY <1>1, <1>5 DEF LoadAt, Quiet
<1> QED
  BY <1>2, <1>3, <1>4, <1>5

-----------------------------------------------------------------------------
(* Running *)

\* After the answer the line is quiet.
LEMMA QuietFound ==
    ASSUME Quiet, Holds("PROMPT"), rx' = After("PROMPT"), sent' = sent PROVE Quiet'
BY FoundPrompt DEF Quiet

LEMMA AnsweredFound ==
    ASSUME NEW mark, Answered(mark), Holds(mark), rx' = After(mark), sent' = sent PROVE Quiet'
BY FoundMark DEF Answered, Quiet

LEMMA NothingRead ==
    ASSUME NEW k PROVE ReadUp(0, k) = << >>
<1> DEFINE q == ReadUp(0, k)
<1>1. q = [b \in 1..0 |-> Data(b, k)]
  BY DEF ReadUp
<1> HIDE DEF q
<1>2. IsSeq(q) /\ Len(q) = 0
  <2>1. q \in [1..0 -> {}]
    BY <1>1
  <2>2. q \in Seq({}) /\ Len(q) = 0
    BY <2>1
  <2> QED
    BY <2>2 DEF IsSeq
<1> QED
  BY <1>2, SeqFacts DEF q

\* Each operation of a run leads to the next, and the last one to the dump.
LEMMA RunClient ==
    ASSUME NEW k \in 1..3, NEW from, NEW to, RunAt(k, from, to), Effect(RunOps[k]),
           UNCHANGED <<device, dmem>>
    PROVE  (k > 1 => RunAt(k - 1, from, to)') /\ (k = 1 => DumpAt(4, 1, to)')
<1>1. CASE k = 3
  <2> DEFINE r == ToRun
  <2>1. Effect(Op("write", r, "body"))
    BY <1>1, OpFacts DEF ToRun
  <2>2. sent' = Append(sent, r) /\ rx' = rx
    BY <2>1, WriteEffect
  <2>3. sent' = <<r>> /\ Prompts(rx')
    BY <1>1, <2>2, AsksOne DEF RunAt
  <2>4. device' = "loading" /\ dmem'.state = from
    BY <1>1 DEF RunAt
  <2>5. RunAt(2, from, to)'
    BY <2>3, <2>4 DEF RunAt
  <2> QED
    BY <1>1, <2>5
<1>2. CASE k = 2
  <2>1. Effect(Op("until", Request("DUMPING", "", 0), "body"))
    BY <1>2, OpFacts
  <2>2. Holds("DUMPING") /\ rx' = After("DUMPING") /\ sent' = sent /\ got' = << >>
    BY <2>1, FindEffect
  <2>3. ~Prompts(rx) /\ ~Without(rx, "DUMPING")
    BY <2>2, NoMark, NotWithout
  <2>4. device = "dumping" /\ Answered("DUMPING") /\ dmem.state = to
    BY <1>2, <2>3 DEF RunAt, Quiet
  <2>5. Quiet'
    BY <2>2, <2>4, AnsweredFound
  <2>6. Read(0, to)'
    BY <2>2, NothingRead DEF Read
  <2>7. RunAt(1, from, to)'
    BY <2>4, <2>5, <2>6 DEF RunAt
  <2> QED
    BY <1>2, <2>7
<1>3. CASE k = 1
  <2>1. Effect(Op("until", Request("PROMPT", "", 0), "body"))
    BY <1>3, OpFacts
  <2>2. Holds("PROMPT") /\ rx' = After("PROMPT") /\ sent' = sent /\ got' = got
    BY <2>1, UntilEffect
  <2>3. device = "dumping" /\ Quiet /\ dmem.state = to /\ Read(0, to)
    BY <1>3 DEF RunAt
  <2>4. Quiet'
    BY <2>2, <2>3, QuietFound
  <2>5. Read(1 - 1, to)'
    BY <2>2, <2>3 DEF Read
  <2>6. DumpAt(4, 1, to)'
    BY <2>3, <2>4, <2>5 DEF DumpAt
  <2> QED
    BY <1>3, <2>6
<1> QED
  BY <1>1, <1>2, <1>3

\* The kernel ends where its arguments take it, or gives up.
LEMMA RunBoard ==
    ASSUME NEW k \in 1..3, NEW from, NEW to, to = from + dmem.args, RunAt(k, from, to),
           Memory, Board
    PROVE  RunAt(k, from, to)' /\ Memory' /\ dmem'.args = dmem.args
<1>0. ~(device # "running" /\ sent = << >>)
  BY BoardQuiet
<1>1. k = 2
  BY <1>0 DEF RunAt, Quiet
<1>2. CASE /\ device = "loading" /\ sent = <<ToRun>> /\ Prompts(rx)
           /\ dmem.state = from
  <2> DEFINE r == ToRun
  <2>0. r.cmd = "run"
    BY DEF Request, ToRun
  <2>1. sent = <<r>>
    BY <1>2
  <2> HIDE DEF r
  <2>2. IsSeq(sent) /\ sent[1] = r /\ Tail(sent) = << >>
    BY <2>1, OneAnswered
  <2>3. sent' = << >> /\ Transmits(Reply(r)) /\ device' = "running" /\ dmem' = dmem
    BY <1>2, <2>0, <2>2, BoardAnswers
  <2>4. Prompts(rx')
    BY <1>2, <2>0, <2>3, ReplyFacts, PromptArrives
  <2> QED
    BY <1>1, <1>2, <2>3, <2>4 DEF RunAt, Quiet, Memory
<1>3. CASE device = "running" /\ Quiet /\ dmem.state = from
  <2>1. CASE KernelEnds
    <3>1. Marked(rx', "DUMPING")
      BY <1>3, <2>1, TextFacts, Arrives DEF KernelEnds, Quiet
    <3>2. device' = "dumping" /\ sent' = << >> /\ dmem' = [dmem EXCEPT !.state = @ + dmem.args]
      BY <1>3, <2>1 DEF KernelEnds, Quiet
    <3>3. dmem'.state = to /\ dmem'.args = dmem.args /\ Memory'
      BY <1>3, <3>2 DEF Memory
    <3> QED
      BY <1>1, <3>1, <3>2, <3>3 DEF RunAt, Answered
  <2>2. CASE KernelHangs
    <3>1. Marked(rx', "ERROR")
      BY <1>3, <2>2, TextFacts, Arrives DEF KernelHangs, Quiet
    <3>2. Without(rx', "DUMPING")
      <4>1. "DUMPING" \notin {"ERROR", "PROMPT"}
        OBVIOUS
      <4> QED
        BY <3>1, <4>1, MarkedPrompts
    <3>3. device' = "loading" /\ sent' = << >> /\ dmem' = dmem
      BY <1>3, <2>2 DEF KernelHangs, Quiet
    <3> QED
      BY <1>1, <3>2, <3>3 DEF RunAt, Memory
  <2> QED
    BY <1>3, <2>1, <2>2 DEF Board, Answers
<1> QED
  BY <1>0, <1>1, <1>2, <1>3 DEF RunAt, Answered

-----------------------------------------------------------------------------
(* Going back to loading *)

\* Each operation at the end of a dump leads to the next.
LEMMA DoneClient ==
    ASSUME NEW k \in 1..3, NEW to, DoneAt(k, to), Effect(DoneOps[k]), UNCHANGED <<device, dmem>>
    PROVE  DoneAt(k - 1, to)'
<1>0. dmem'.state = to /\ Read(Chunks, to)
  BY DEF DoneAt
<1>1. CASE k = 3
  <2> DEFINE r == ToEnd
  <2>1. Effect(Op("write", r, "finally"))
    BY <1>1, OpFacts DEF ToEnd
  <2>2. sent' = Append(sent, r) /\ rx' = rx /\ got' = got
    BY <2>1, WriteEffect
  <2>3. sent' = <<r>> /\ Prompts(rx')
    BY <1>1, <2>2, AsksOne DEF DoneAt
  <2>4. device' = "dumping" /\ Read(Chunks, to)'
    BY <1>0, <1>1, <2>2 DEF DoneAt, Read
  <2>5. DoneAt(2, to)'
    BY <1>0, <2>3, <2>4 DEF DoneAt
  <2> QED
    BY <1>1, <2>5
<1>2. CASE k = 2
  <2>1. Effect(Op("until", Request("LOADING", "", 0), "finally"))
    BY <1>2, OpFacts
  <2>2. Holds("LOADING") /\ rx' = After("LOADING") /\ sent' = sent /\ got' = got
    BY <2>1, UntilEffect
  <2>3. ~Prompts(rx)
    BY <2>2, NoMark
  <2>4. device = "loading" /\ Answered("LOADING")
    BY <1>2, <2>3 DEF DoneAt
  <2>5. Quiet' /\ Read(Chunks, to)'
    BY <1>0, <2>2, <2>4, AnsweredFound DEF Read
  <2>6. DoneAt(1, to)'
    BY <1>0, <2>4, <2>5 DEF DoneAt
  <2> QED
    BY <1>2, <2>6
<1>3. CASE k = 1
  <2>1. Effect(Op("until", Request("PROMPT", "", 0), "finally"))
    BY <1>3, OpFacts
  <2>2. Holds("PROMPT") /\ rx' = After("PROMPT") /\ sent' = sent /\ got' = got
    BY <2>1, UntilEffect
  <2>3. device = "loading" /\ Quiet
    BY <1>3 DEF DoneAt
  <2>4. Quiet' /\ Read(Chunks, to)'
    BY <1>0, <2>2, <2>3, QuietFound DEF Read
  <2>5. DoneAt(0, to)'
    BY <1>0, <2>3, <2>4 DEF DoneAt
  <2> QED
    BY <1>3, <2>5
<1> QED
  BY <1>1, <1>2, <1>3

\* The board goes back to loading.
LEMMA DoneBoard ==
    ASSUME NEW k \in 0..3, NEW to, DoneAt(k, to), Memory, Board
    PROVE  DoneAt(k, to)' /\ dmem' = dmem
<1>0. ~(device # "running" /\ sent = << >>)
  BY BoardQuiet
<1>1. k = 2 /\ device = "dumping" /\ sent = <<ToEnd>> /\ Prompts(rx)
  BY <1>0 DEF DoneAt, Quiet, Answered
<1> DEFINE r == ToEnd
<1>2. r.cmd = "done" /\ sent = <<r>>
  BY <1>1 DEF Request, ToEnd
<1> HIDE DEF r
<1>3. IsSeq(sent) /\ sent[1] = r /\ Tail(sent) = << >>
  BY <1>2, OneAnswered
<1>4. sent' = << >> /\ Transmits(Reply(r)) /\ device' = "loading" /\ dmem' = dmem
  BY <1>1, <1>2, <1>3, BoardAnswers
<1>5. Marked(rx', "LOADING")
  <2>1. Transmits(Text("LOADING") \o Text("PROMPT"))
    BY <1>1, <1>2, <1>4, ReplyFacts
  <2> QED
    BY <1>1, <2>1, TextFacts, Arrives
<1>6. dmem'.state = to /\ Read(Chunks, to)'
  BY <1>4, BoardKeeps DEF DoneAt, Read
<1> QED
  BY <1>1, <1>4, <1>5, <1>6 DEF DoneAt, Answered

-----------------------------------------------------------------------------
(* Dumping *)

\* One more chunk.
LEMMA ReadMore ==
    ASSUME NEW c \in Nat \ {0}, NEW k
    PROVE  Append(ReadUp(c - 1, k), Data(c, k)) = ReadUp(c, k)
<1> DEFINE p == ReadUp(c - 1, k)
           q == ReadUp(c, k)
           D(b) == Data(b, k)
           S == {D(b) : b \in 1..c}
<1>1. p = [b \in 1..(c - 1) |-> D(b)] /\ q = [b \in 1..c |-> D(b)]
  BY DEF ReadUp
<1> HIDE DEF p, q, D
<1>2. p \in Seq(S) /\ Len(p) = c - 1 /\ q \in Seq(S) /\ Len(q) = c
  <2>1. p \in [1..(c - 1) -> S] /\ q \in [1..c -> S] /\ c - 1 \in Nat /\ c \in Nat
    BY <1>1
  <2> HIDE DEF S
  <2> QED
    BY <2>1
<1> DEFINE s == Append(p, D(c))
<1>3. IsSeq(p) /\ IsSeq(q)
  BY <1>2 DEF IsSeq
<1>4. IsSeq(s) /\ Len(s) = c /\ (\A i \in 1..(c - 1) : s[i] = p[i]) /\ s[c] = D(c)
  <2>1. /\ IsSeq(s) /\ Len(s) = Len(p) + 1 /\ (\A i \in 1..Len(p) : s[i] = p[i])
        /\ s[Len(p) + 1] = D(c)
    BY <1>3, AppendFacts
  <2>2. Len(p) = c - 1 /\ Len(p) + 1 = c
    BY <1>2
  <2> HIDE DEF s
  <2> QED
    BY <2>1, <2>2
<1> HIDE DEF s
<1>5. \A i \in 1..c : s[i] = q[i]
  BY <1>1, <1>4
<1>6. s = q
  BY <1>2, <1>3, <1>4, <1>5, SameSeq
<1> QED
  BY <1>6 DEF s, p, q, D

\* The data of a chunk, read in one piece.
LEMMA ReadChunk ==
    ASSUME IsSeq(rx), ChunkBytes <= Len(rx), NEW c, NEW k,
           \A i \in 1..ChunkBytes : rx[i] = Data(c, k)[i]
    PROVE  SubSeq(rx, 1, ChunkBytes) = Data(c, k)
<1> DEFINE q == SubSeq(rx, 1, ChunkBytes)
           d == Data(c, k)
<1>0. ChunkBytes \in Nat \ {0} /\ Len(rx) \in Nat
  BY UartAssumption, SeqFacts
<1>1. IsSeq(q) /\ Len(q) = ChunkBytes /\ \A i \in 1..ChunkBytes : q[i] = rx[i]
  <2>1. 1 \in 1..(Len(rx) + 1) /\ ChunkBytes \in (1 - 1)..Len(rx)
    BY <1>0
  <2>2. /\ IsSeq(q) /\ Len(q) = ChunkBytes - 1 + 1
        /\ \A i \in 1..(ChunkBytes - 1 + 1) : q[i] = rx[1 + i - 1]
    BY <2>1, SubFacts
  <2> HIDE DEF q
  <2>3. ChunkBytes - 1 + 1 = ChunkBytes /\ \A i \in 1..ChunkBytes : 1 + i - 1 = i
    BY <1>0
  <2> QED
    BY <2>2, <2>3
<1>2. IsSeq(d) /\ Len(d) = ChunkBytes
  <2> DEFINE S == {Unit("byte", c, i, k) : i \in 1..ChunkBytes}
  <2>1. d \in [1..ChunkBytes -> S]
    BY DEF Data
  <2> HIDE DEF S, d
  <2>2. d \in Seq(S) /\ Len(d) = ChunkBytes
    BY <1>0, <2>1
  <2> QED
    BY <2>2 DEF IsSeq
<1> HIDE DEF q, d
<1>3. \A i \in 1..Len(q) : q[i] = d[i]
  BY <1>1 DEF d
<1>4. q = d
  BY <1>1, <1>2, <1>3, SameSeq
<1> QED
  BY <1>4 DEF q, d

\* Each operation on a chunk leads to the next, the last one to the next chunk or
\* to the end of the dump.
LEMMA DumpClient ==
    ASSUME NEW k \in 1..4, NEW c \in 1..Chunks, NEW to, DumpAt(k, c, to), Effect(DumpOps(c)[k]),
           UNCHANGED <<device, dmem>>
    PROVE  /\ k > 1 => DumpAt(k - 1, c, to)'
           /\ k = 1 /\ c < Chunks => DumpAt(4, c + 1, to)'
           /\ k = 1 /\ c = Chunks => DoneAt(3, to)'
<1>0. device' = "dumping" /\ dmem'.state = to /\ c \in Nat \ {0} /\ ChunkBytes \in Nat \ {0}
  BY UartAssumption DEF DumpAt
<1>1. CASE k = 4
  <2> DEFINE r == ToDump(c)
  <2>1. Effect(Op("write", r, "try"))
    BY <1>1, OpFacts DEF ToDump
  <2>2. sent' = Append(sent, r) /\ rx' = rx /\ got' = got
    BY <2>1, WriteEffect
  <2>3. sent' = <<r>> /\ Prompts(rx')
    BY <1>1, <2>2, AsksOne DEF DumpAt
  <2>4. Read(c - 1, to)'
    BY <1>1, <2>2 DEF DumpAt, Read
  <2>5. DumpAt(3, c, to)'
    BY <1>0, <2>3, <2>4 DEF DumpAt
  <2> QED
    BY <1>1, <2>5
<1>2. CASE k = 3
  <2>1. Effect(Op("until", Request("BEGIN", "", 0), "try"))
    BY <1>2, OpFacts
  <2>2. Holds("BEGIN") /\ rx' = After("BEGIN") /\ sent' = sent /\ got' = got
    BY <2>1, UntilEffect
  <2>3. ~Prompts(rx)
    BY <2>2, NoMark
  <2>4. /\ sent = << >> /\ IsSeq(rx)
        /\ \A i \in 1..Len(rx) :
              rx[i].is = "BEGIN" => Dumped(SubSeq(rx, i + 1, Len(rx)), c, to)
    BY <1>2, <2>3 DEF DumpAt
  <2>5. Dumped(rx', c, to)
    <3>1. PICK i \in 1..Len(rx) : rx[i].is = "BEGIN" /\ After("BEGIN") = SubSeq(rx, i + 1, Len(rx))
      BY <2>2, <2>4, AfterIs
    <3> QED
      BY <2>2, <2>4, <3>1
  <2>6. Read(c - 1, to)'
    BY <1>2, <2>2 DEF DumpAt, Read
  <2>7. DumpAt(2, c, to)'
    BY <1>0, <2>2, <2>4, <2>5, <2>6 DEF DumpAt
  <2> QED
    BY <1>2, <2>7
<1>3. CASE k = 2
  <2>1. /\ Len(rx) >= ChunkBytes /\ sent' = sent
        /\ got' = Append(got, SubSeq(rx, 1, ChunkBytes))
        /\ rx' = SubSeq(rx, ChunkBytes + 1, Len(rx))
    <3> DEFINE op == Op("exact", Request("", "", 0), "try")
    <3>1. Effect(op)
      BY <1>3, OpFacts
    <3>2. op.do = "exact"
      BY DEF Op
    <3> HIDE DEF op
    <3> QED
      BY <3>1, <3>2 DEF Effect
  <2>2. sent = << >> /\ Dumped(rx, c, to) /\ Read(c - 1, to)
    BY <1>3 DEF DumpAt
  <2>3. IsSeq(rx) /\ Len(rx) \in Nat
    BY <2>2, SeqFacts DEF Dumped, Prompted
  <2> DEFINE q == rx'
  <2>4. /\ IsSeq(q) /\ Len(q) = Len(rx) - ChunkBytes
        /\ \A i \in 1..Len(q) : q[i] = rx[ChunkBytes + i]
    <3>1. ChunkBytes + 1 \in 1..(Len(rx) + 1) /\ Len(rx) \in (ChunkBytes + 1 - 1)..Len(rx)
      BY <1>0, <2>1, <2>3
    <3>2. /\ IsSeq(q) /\ Len(q) = Len(rx) - (ChunkBytes + 1) + 1
          /\ \A i \in 1..(Len(rx) - (ChunkBytes + 1) + 1) : q[i] = rx[ChunkBytes + 1 + i - 1]
      BY <2>1, <2>3, <3>1, SubFacts
    <3> HIDE DEF q
    <3>3. \A i \in 1..Len(q) : ChunkBytes + 1 + i - 1 = ChunkBytes + i
      BY <1>0, <2>3, <3>2
    <3> QED
      BY <1>0, <2>3, <3>2, <3>3
  <2> HIDE DEF q
  <2>5. ASSUME NEW i \in 1..Len(q), q[i].is = "PROMPT" PROVE i = Len(q)
    <3>1. ChunkBytes + i \in 1..Len(rx) /\ rx[ChunkBytes + i].is = "PROMPT"
      BY <1>0, <2>3, <2>4, <2>5
    <3> QED
      BY <1>0, <2>2, <2>3, <2>4, <3>1 DEF Dumped, Prompted
  <2>6. ASSUME q # << >> PROVE Read(c, to)'
    <3>1. CASE Noticed
      <4>1. ~(Len(rx) <= ChunkBytes)
        BY <1>0, <2>3, <2>4, <2>6, SeqFacts
      <4>2. SubSeq(rx, 1, ChunkBytes) = Data(c, to)
        BY <2>1, <2>2, <2>3, <3>1, <4>1, ReadChunk DEF Dumped
      <4>3. got = ReadUp(c - 1, to)
        BY <2>2, <3>1 DEF Read
      <4>4. got' = ReadUp(c, to)
        BY <1>0, <2>1, <4>2, <4>3, ReadMore
      <4> QED
        BY <4>4 DEF Read
    <3> QED
      BY <3>1 DEF Read
  <2>7. DumpAt(1, c, to)'
    <3>1. Prompted(q)
      BY <2>4, <2>5 DEF Prompted
    <3> QED
      BY <1>0, <2>1, <2>2, <2>6, <3>1 DEF DumpAt, q
  <2> QED
    BY <1>3, <2>7
<1>4. CASE k = 1
  <2>1. Effect(Op("until", Request("PROMPT", "", 0), "try"))
    BY <1>4, OpFacts
  <2>2. Holds("PROMPT") /\ rx' = After("PROMPT") /\ sent' = sent /\ got' = got
    BY <2>1, UntilEffect
  <2>3. /\ sent = << >> /\ IsSeq(rx) /\ Prompted(rx) /\ (rx # << >> => Read(c, to))
    BY <1>4 DEF DumpAt, Prompted
  <2>4. PICK i \in 1..Len(rx) : rx[i].is = "PROMPT" /\ After("PROMPT") = SubSeq(rx, i + 1, Len(rx))
    BY <2>2, <2>3, AfterIs
  <2>5. i = Len(rx) /\ Read(c, to) /\ Len(rx) \in Nat
    BY <2>3, <2>4, SeqFacts DEF Prompted
  <2>6. Prompts(rx')
    <3> DEFINE a == Len(rx) + 1
    <3>1. a \in 1..(Len(rx) + 1) /\ Len(rx) \in (a - 1)..Len(rx) /\ Len(rx) - a + 1 = 0
      BY <2>5
    <3>2. rx' = SubSeq(rx, a, Len(rx))
      BY <2>2, <2>4, <2>5
    <3> HIDE DEF a
    <3>3. IsSeq(rx') /\ Len(rx') = 0
      BY <2>3, <3>1, <3>2, SubFacts
    <3> QED
      BY <3>3 DEF Prompts
  <2>7. Quiet' /\ Read(c, to)'
    BY <2>2, <2>3, <2>5, <2>6 DEF Quiet, Read
  <2>8. c < Chunks => DumpAt(4, c + 1, to)'
    <3>1. (c + 1) - 1 = c
      BY <1>0
    <3>2. Read((c + 1) - 1, to)'
      BY <2>7, <3>1
    <3> QED
      BY <1>0, <2>7, <3>2 DEF DumpAt
  <2>9. c = Chunks => DoneAt(3, to)'
    BY <1>0, <2>7 DEF DoneAt
  <2> QED
    BY <1>4, <2>8, <2>9
<1> QED
  BY <1>1, <1>2, <1>3, <1>4

LEMMA OneMore ==
    ASSUME NEW q, IsSeq(q), NEW e
    PROVE  /\ IsSeq(q \o <<e>>) /\ Len(q \o <<e>>) = Len(q) + 1 /\ (q \o <<e>>)[Len(q) + 1] = e
           /\ \A i \in 1..Len(q) : (q \o <<e>>)[i] = q[i]
<1> DEFINE t == <<e>>
           r == q \o t
<1>1. IsSeq(t) /\ Len(t) = 1 /\ t[1] = e
  BY TupleFacts
<1> HIDE DEF t
<1>2. /\ IsSeq(r) /\ Len(r) = Len(q) + Len(t)
      /\ \A i \in 1..Len(q) : r[i] = q[i]
      /\ \A i \in 1..Len(t) : r[Len(q) + i] = t[i]
  <2>1. IsSeq(q) /\ IsSeq(t)
    BY <1>1
  <2> QED
    BY <2>1, ConcatFacts
<1> HIDE DEF r
<1>3. /\ IsSeq(r) /\ Len(r) = Len(q) + 1 /\ r[Len(q) + 1] = e
      /\ \A i \in 1..Len(q) : r[i] = q[i]
  BY <1>1, <1>2, SeqFacts
<1> QED
  BY <1>3 DEF r, t

\* What the firmware sends of a chunk.
IsDump(reply, c, k) ==
    /\ IsSeq(reply) /\ Len(reply) = ChunkBytes + 4
    /\ \A i \in 1..ChunkBytes : reply[i + 1] = Data(c, k)[i]
    /\ reply[1].is = "BEGIN"
    /\ \A i \in 2..(ChunkBytes + 3) : reply[i].is \notin {"BEGIN", "PROMPT"}
    /\ reply[ChunkBytes + 4].is = "PROMPT"

LEMMA DumpReply ==
    ASSUME NEW c, NEW k, NEW reply,
           reply = Text("BEGIN") \o Data(c, k) \o Text("CR") \o Text("LF") \o Text("PROMPT")
    PROVE  IsDump(reply, c, k)
<1> DEFINE B == ChunkBytes
           d == Data(c, k)
           e0 == Unit("BEGIN", 0, 0, 0)
           e1 == Unit("CR", 0, 0, 0)
           e2 == Unit("LF", 0, 0, 0)
           e3 == Unit("PROMPT", 0, 0, 0)
           q1 == <<e0>> \o d
           q2 == q1 \o <<e1>>
           q3 == q2 \o <<e2>>
           q4 == q3 \o <<e3>>
<1>1. /\ e0.is = "BEGIN" /\ e1.is = "CR" /\ e2.is = "LF" /\ e3.is = "PROMPT"
  BY DEF Unit
<1>2. reply = q4
  BY DEF Text
<1>3. B \in Nat \ {0}
  BY UartAssumption
<1>4. IsSeq(d) /\ Len(d) = B /\ \A i \in 1..B : d[i].is = "byte"
  <2> DEFINE S == {Unit("byte", c, i, k) : i \in 1..B}
  <2>1. d \in [1..B -> S] /\ \A i \in 1..B : d[i].is = "byte"
    BY DEF Data, Unit
  <2> HIDE DEF S, d, B
  <2>2. d \in Seq(S) /\ Len(d) = B
    BY <1>3, <2>1
  <2> QED
    BY <2>1, <2>2 DEF IsSeq
<1> HIDE DEF B, d, e0, e1, e2, e3, q4
<1>5. \A a : IsSeq(<<a>>) /\ Len(<<a>>) = 1 /\ <<a>>[1] = a
  BY TupleFacts
<1>6. IsSeq(q1) /\ Len(q1) = B + 1 /\ q1[1] = e0 /\ \A i \in 1..B : q1[i + 1] = d[i]
  <2>1. /\ IsSeq(q1) /\ Len(q1) = Len(<<e0>>) + Len(d)
        /\ \A i \in 1..Len(<<e0>>) : q1[i] = <<e0>>[i]
        /\ \A i \in 1..Len(d) : q1[Len(<<e0>>) + i] = d[i]
    <3>1. IsSeq(<<e0>>) /\ IsSeq(d)
      BY <1>4, <1>5
    <3> QED
      BY <3>1, ConcatFacts
  <2> HIDE DEF q1
  <2>2. Len(<<e0>>) = 1 /\ \A i \in 1..B : 1 + i = i + 1
    BY <1>3, <1>5
  <2>3. \A i \in 1..B : q1[1 + i] = d[i]
    BY <1>4, <2>1, <2>2
  <2>4. \A i \in 1..B : q1[i + 1] = d[i]
    BY <2>2, <2>3
  <2>5. q1[1] = e0
    BY <1>5, <2>1, <2>2
  <2>6. Len(q1) = B + 1
    BY <1>3, <1>4, <2>1, <2>2
  <2> QED
    BY <2>1, <2>4, <2>5, <2>6
<1> HIDE DEF q1, q2, q3
<1>8. /\ IsSeq(q2) /\ Len(q2) = B + 2 /\ q2[B + 2] = e1 /\ \A i \in 1..(B + 1) : q2[i] = q1[i]
  <2>1. /\ IsSeq(q2) /\ Len(q2) = Len(q1) + 1 /\ q2[Len(q1) + 1] = e1
        /\ \A i \in 1..Len(q1) : q2[i] = q1[i]
    <3>1. IsSeq(q1)
      BY <1>6
    <3> QED
      BY <3>1, OneMore DEF q2
  <2> QED
    BY <1>3, <1>6, <2>1
<1>9. /\ IsSeq(q3) /\ Len(q3) = B + 3 /\ q3[B + 3] = e2 /\ \A i \in 1..(B + 2) : q3[i] = q2[i]
  <2>1. /\ IsSeq(q3) /\ Len(q3) = Len(q2) + 1 /\ q3[Len(q2) + 1] = e2
        /\ \A i \in 1..Len(q2) : q3[i] = q2[i]
    <3>1. IsSeq(q2)
      BY <1>8
    <3> QED
      BY <3>1, OneMore DEF q3
  <2> QED
    BY <1>3, <1>8, <2>1
<1>10. /\ IsSeq(q4) /\ Len(q4) = B + 4 /\ q4[B + 4] = e3 /\ \A i \in 1..(B + 3) : q4[i] = q3[i]
  <2>1. /\ IsSeq(q4) /\ Len(q4) = Len(q3) + 1 /\ q4[Len(q3) + 1] = e3
        /\ \A i \in 1..Len(q3) : q4[i] = q3[i]
    <3>1. IsSeq(q3)
      BY <1>9
    <3> QED
      BY <3>1, OneMore DEF q4
  <2> QED
    BY <1>3, <1>9, <2>1
<1>11. \A i \in 1..(B + 1) : q4[i] = q1[i]
  BY <1>3, <1>8, <1>9, <1>10
<1>12. \A i \in 1..B : q4[i + 1] = d[i]
  <2> SUFFICES ASSUME NEW i \in 1..B PROVE q4[i + 1] = d[i]
    OBVIOUS
  <2>1. i + 1 \in 1..(B + 1)
    BY <1>3
  <2> QED
    BY <1>6, <1>11, <2>1
<1>13. ASSUME NEW i \in 2..(B + 3) PROVE q4[i].is \notin {"BEGIN", "PROMPT"}
  <2>1. CASE i <= B + 1
    <3>1. i - 1 \in 1..B /\ (i - 1) + 1 = i
      BY <1>3, <2>1
    <3> QED
      BY <1>4, <1>12, <3>1
  <2>2. CASE i = B + 2
    BY <1>1, <1>3, <1>8, <1>9, <1>10, <2>2
  <2>3. CASE i = B + 3
    BY <1>1, <1>3, <1>9, <1>10, <2>3
  <2> QED
    BY <1>3, <2>1, <2>2, <2>3
<1>14. q4[1].is = "BEGIN"
  <2>1. 1 \in 1..(B + 1)
    BY <1>3
  <2> QED
    BY <1>1, <1>6, <1>11, <2>1
<1> QED
  BY <1>1, <1>2, <1>10, <1>12, <1>13, <1>14 DEF IsDump, B, d

\* What of it comes after its beginning: all of it, or too little.
LEMMA DumpPart ==
    ASSUME NEW c, NEW k, NEW reply, IsDump(reply, c, k), NEW part, Lossy(reply, part),
           NEW j \in 1..Len(part), part[j].is = "BEGIN"
    PROVE  Dumped(SubSeq(part, j + 1, Len(part)), c, k)
<1> DEFINE B == ChunkBytes
           d == Data(c, k)
<1>1. /\ IsSeq(reply) /\ Len(reply) = B + 4 /\ B \in Nat \ {0}
      /\ \A i \in 1..B : reply[i + 1] = d[i]
      /\ reply[1].is = "BEGIN"
      /\ \A i \in 2..(B + 3) : reply[i].is \notin {"BEGIN", "PROMPT"}
      /\ reply[B + 4].is = "PROMPT"
  BY UartAssumption DEF IsDump
<1>2. IsSeq(part) /\ Len(part) \in Nat
  BY SeqFacts DEF Lossy
<1> DEFINE q == SubSeq(part, j + 1, Len(part))
<1>3. /\ IsSeq(q) /\ Len(q) = Len(part) - j /\ \A m \in 1..Len(q) : q[m] = part[j + m]
  <2>1. j + 1 \in 1..(Len(part) + 1) /\ Len(part) \in (j + 1 - 1)..Len(part)
    BY <1>2
  <2>2. /\ IsSeq(q) /\ Len(q) = Len(part) - (j + 1) + 1
        /\ \A m \in 1..(Len(part) - (j + 1) + 1) : q[m] = part[(j + 1) + m - 1]
    BY <1>2, <2>1, SubFacts
  <2> HIDE DEF q
  <2>3. \A m \in 1..Len(q) : (j + 1) + m - 1 = j + m
    BY <1>2, <2>2
  <2> QED
    BY <1>2, <2>2, <2>3
<1> HIDE DEF B, d, q
<1>4. CASE part = reply
  <2>1. j = 1
    BY <1>1, <1>4
  <2>2. \A m \in 1..Len(q) : q[m].is = "PROMPT" => m = Len(q)
    BY <1>1, <1>3, <1>4, <2>1
  <2>3. \A i \in 1..B : q[i] = d[i]
    <3> SUFFICES ASSUME NEW i \in 1..B PROVE q[i] = d[i]
      OBVIOUS
    <3>1. i \in 1..Len(q) /\ j + i = i + 1
      BY <1>1, <1>3, <1>4, <2>1
    <3> QED
      BY <1>1, <1>3, <1>4, <3>1
  <2> QED
    BY <1>3, <2>2, <2>3 DEF Dumped, Prompted, q, B, d
<1>5. ASSUME NEW n \in Bursts, NEW i \in 0..Len(reply), i + n <= Len(reply),
             Len(part) = Len(reply) - n,
             \A m \in 1..Len(part) : part[m] = IF m <= i THEN reply[m] ELSE reply[m + n]
      PROVE  Dumped(q, c, k)
  <2>1. n \in Nat \ {0} /\ (Noticed => n >= 3)
    BY <1>5, UartAssumption DEF Noticed
  <2>2. j = 1
    <3>1. CASE j <= i
      BY <1>1, <1>5, <3>1
    <3>2. CASE j > i
      <4>1. part[j] = reply[j + n] /\ j + n \in 2..(B + 4)
        BY <1>1, <1>5, <2>1, <3>2
      <4>2. part[j].is # "BEGIN"
        BY <1>1, <4>1
      <4> QED
        BY <4>2
    <3> QED
      BY <1>5, <3>1, <3>2
  <2>3. ASSUME NEW m \in 1..Len(q), q[m].is = "PROMPT" PROVE m = Len(q)
    <3>1. q[m] = part[1 + m] /\ 1 + m \in 1..Len(part)
      BY <1>2, <1>3, <2>2
    <3>2. CASE 1 + m <= i
      <4>1. 1 + m \in 2..(B + 3) /\ part[1 + m] = reply[1 + m]
        BY <1>1, <1>5, <2>1, <3>1, <3>2
      <4> QED
        BY <1>1, <2>3, <3>1, <4>1
    <3>3. CASE ~(1 + m <= i)
      <4>1. part[1 + m] = reply[1 + m + n] /\ 1 + m + n \in 2..(B + 4)
        BY <1>1, <1>5, <2>1, <3>1, <3>3
      <4>2. 1 + m + n = B + 4
        BY <1>1, <2>3, <3>1, <4>1
      <4>3. Len(q) = Len(part) - 1 /\ Len(part) = Len(reply) - n /\ Len(reply) = B + 4
        BY <1>1, <1>3, <1>5, <2>2
      <4>4. m \in Int /\ n \in Nat /\ B \in Nat
        BY <1>1, <2>1
      <4> QED
        BY <4>2, <4>3, <4>4
    <3> QED
      BY <3>2, <3>3
  <2>4. Noticed => Len(q) <= B
    BY <1>1, <1>3, <1>5, <2>1, <2>2
  <2> QED
    BY <1>3, <2>3, <2>4 DEF Dumped, Prompted, B
<1> QED
  BY <1>4, <1>5 DEF Lossy, q

\* Nothing before it reads as its beginning.
LEMMA DumpArrives ==
    ASSUME Prompts(rx), NEW c, NEW k, NEW reply, IsDump(reply, c, k), Transmits(reply)
    PROVE  /\ IsSeq(rx')
           /\ \A i \in 1..Len(rx') :
                 rx'[i].is = "BEGIN" => Dumped(SubSeq(rx', i + 1, Len(rx')), c, k)
<1>0. IsSeq(rx) /\ IsSeq(reply)
  BY DEF Prompts, IsDump
<1>1. PICK part : Lossy(reply, part) /\ rx' = rx \o part
  BY <1>0, TransmitIs
<1>2. IsSeq(part)
  BY <1>1 DEF Lossy
<1> DEFINE q == rx'
<1>3. /\ IsSeq(q) /\ Len(q) = Len(rx) + Len(part) /\ Len(rx) \in Nat /\ Len(part) \in Nat
      /\ \A i \in 1..Len(rx) : q[i] = rx[i]
      /\ \A i \in (Len(rx) + 1)..(Len(rx) + Len(part)) : q[i] = part[i - Len(rx)]
  BY <1>0, <1>1, <1>2, ConcatFacts, SeqFacts
<1> HIDE DEF q
<1>4. ASSUME NEW i \in 1..Len(q), q[i].is = "BEGIN"
      PROVE  Dumped(SubSeq(q, i + 1, Len(q)), c, k)
  <2>1. ~(i \in 1..Len(rx))
    BY <1>3, <1>4 DEF Prompts
  <2> DEFINE j == i - Len(rx)
             s == SubSeq(q, i + 1, Len(q))
             t == SubSeq(part, j + 1, Len(part))
  <2>2. j \in 1..Len(part) /\ i = Len(rx) + j /\ q[i] = part[j] /\ part[j].is = "BEGIN"
    BY <1>3, <1>4, <2>1
  <2>3. Dumped(t, c, k)
    BY <1>1, <2>2, DumpPart
  <2> HIDE DEF j
  <2>4. /\ IsSeq(s) /\ Len(s) = Len(part) - j
        /\ \A m \in 1..(Len(part) - j) : s[m] = q[i + m]
    <3>1. i + 1 \in 1..(Len(q) + 1) /\ Len(q) \in (i + 1 - 1)..Len(q)
      BY <1>3, <1>4
    <3>2. /\ IsSeq(s) /\ Len(s) = Len(q) - (i + 1) + 1
          /\ \A m \in 1..(Len(q) - (i + 1) + 1) : s[m] = q[(i + 1) + m - 1]
      BY <1>3, <3>1, SubFacts
    <3> HIDE DEF s
    <3>3. Len(q) - (i + 1) + 1 = Len(part) - j /\ \A m \in 1..(Len(part) - j) : (i + 1) + m - 1 = i + m
      BY <1>3, <2>2
    <3> QED
      BY <3>2, <3>3
  <2>5. /\ IsSeq(t) /\ Len(t) = Len(part) - j
        /\ \A m \in 1..(Len(part) - j) : t[m] = part[j + m]
    <3>1. j + 1 \in 1..(Len(part) + 1) /\ Len(part) \in (j + 1 - 1)..Len(part)
      BY <1>3, <2>2
    <3>2. /\ IsSeq(t) /\ Len(t) = Len(part) - (j + 1) + 1
          /\ \A m \in 1..(Len(part) - (j + 1) + 1) : t[m] = part[(j + 1) + m - 1]
      BY <1>2, <3>1, SubFacts
    <3> HIDE DEF t
    <3>3. Len(part) - (j + 1) + 1 = Len(part) - j /\ \A m \in 1..(Len(part) - j) : (j + 1) + m - 1 = j + m
      BY <1>3, <2>2
    <3> QED
      BY <3>2, <3>3
  <2> HIDE DEF s, t
  <2>6. \A m \in 1..Len(s) : s[m] = t[m]
    <3> SUFFICES ASSUME NEW m \in 1..Len(s) PROVE s[m] = t[m]
      OBVIOUS
    <3>1. /\ m \in 1..(Len(part) - j) /\ i + m \in (Len(rx) + 1)..(Len(rx) + Len(part))
          /\ (i + m) - Len(rx) = j + m
      <4>1. Len(s) = Len(part) - j /\ Len(part) \in Nat /\ Len(rx) \in Nat
        BY <1>3, <2>4
      <4>2. j \in 1..Len(part) /\ i = Len(rx) + j
        BY <2>2
      <4>3. m \in 1..(Len(part) - j)
        BY <4>1
      <4> QED
        BY <4>1, <4>2, <4>3
    <3>2. s[m] = q[i + m] /\ t[m] = part[j + m] /\ q[i + m] = part[(i + m) - Len(rx)]
      BY <1>3, <2>4, <2>5, <3>1
    <3> QED
      BY <3>1, <3>2
  <2>7. s = t
    BY <2>4, <2>5, <2>6, SameSeq
  <2> QED
    BY <2>3, <2>7 DEF s
<1> QED
  BY <1>3, <1>4 DEF q

\* The board sends a chunk.
LEMMA DumpBoard ==
    ASSUME NEW k \in 1..4, NEW c \in 1..Chunks, NEW to, DumpAt(k, c, to), Memory, Board
    PROVE  DumpAt(k, c, to)' /\ dmem' = dmem
<1>0. ~(sent = << >>) /\ device = "dumping" /\ dmem.state = to
  BY BoardQuiet DEF DumpAt
<1>1. k = 3 /\ sent = <<ToDump(c)>> /\ Prompts(rx) /\ Read(c - 1, to)
  BY <1>0 DEF DumpAt, Quiet
<1> DEFINE r == ToDump(c)
           reply == Text("BEGIN") \o Data(c, to) \o Text("CR") \o Text("LF") \o Text("PROMPT")
<1>2. r.cmd = "dump" /\ r.n = c /\ sent = <<r>>
  BY <1>1 DEF Request, ToDump
<1> HIDE DEF r
<1>3. IsSeq(sent) /\ sent[1] = r /\ Tail(sent) = << >>
  BY <1>2, OneAnswered
<1>4. sent' = << >> /\ Transmits(Reply(r)) /\ device' = device /\ dmem' = dmem
  BY <1>0, <1>2, <1>3, BoardAnswers
<1>5. Reply(r) = reply
  BY <1>0, <1>2, ReplyFacts
<1>6. /\ IsSeq(rx')
      /\ \A i \in 1..Len(rx') :
            rx'[i].is = "BEGIN" => Dumped(SubSeq(rx', i + 1, Len(rx')), c, to)
  <2>1. Transmits(reply)
    BY <1>4, <1>5
  <2> HIDE DEF reply
  <2>2. IsDump(reply, c, to)
    BY DumpReply DEF reply
  <2> QED
    BY <1>1, <2>1, <2>2, DumpArrives
<1>7. Read(c - 1, to)'
  BY <1>1, BoardKeeps DEF Read
<1> QED
  BY <1>0, <1>1, <1>4, <1>6, <1>7 DEF DumpAt

-----------------------------------------------------------------------------
(* A step of the simulation, from its end *)

\* Each operation of a step leads to the next.
LEMMA StepClient ==
    ASSUME NEW n, NEW k \in 1..(Dumping + 7), NEW from, NEW to, StepPhase(k, n, from, to),
           Effect(StepScript(n)[k]), UNCHANGED <<device, dmem>>
    PROVE  StepPhase(k - 1, n, from, to)'
<1> DEFINE D == Dumping
           f == StepScript(n)
<1>0. /\ D \in Nat /\ D >= 7
      /\ \A i \in 1..3 : f[i] = DoneOps[i]
      /\ \A i \in 4..D : f[i] = DumpOps(Chunk(i))[Part(i)]
      /\ \A i \in 1..3 : f[D + i] = RunOps[i]
      /\ \A i \in 1..4 : f[(D + 3) + i] = LoadOps("args", n)[i]
  BY ScriptFacts
<1>a. Effect(f[k]) /\ k \in 1..(D + 7) /\ UNCHANGED <<device, dmem>>
  OBVIOUS
<1>b. /\ k > D + 3 => LoadAt(k - D - 3, "args", n) /\ dmem.state = from
      /\ k <= D + 3 => dmem.args = n
      /\ k > D /\ k <= D + 3 => RunAt(k - D, from, to)
      /\ k > 3 /\ k <= D => DumpAt(Part(k), Chunk(k), to)
      /\ k <= 3 => DoneAt(k, to)
  BY DEF StepPhase
<1> SUFFICES /\ k - 1 > D + 3 => LoadAt(k - 1 - D - 3, "args", n)' /\ dmem'.state = from
             /\ k - 1 <= D + 3 => dmem'.args = n
             /\ k - 1 > D /\ k - 1 <= D + 3 => RunAt(k - 1 - D, from, to)'
             /\ k - 1 > 3 /\ k - 1 <= D => DumpAt(Part(k - 1), Chunk(k - 1), to)'
             /\ k - 1 <= 3 => DoneAt(k - 1, to)'
  BY DEF StepPhase
<1>c. \A i \in 4..D : /\ Part(i) \in 1..4 /\ Chunk(i) \in 1..Chunks
                      /\ Part(i) > 1 => i - 1 \in 4..D /\ Part(i - 1) = Part(i) - 1
                                        /\ Chunk(i - 1) = Chunk(i)
                      /\ Part(i) = 1 /\ i > 4 => i - 1 \in 4..D /\ Part(i - 1) = 4
                                                /\ Chunk(i - 1) = Chunk(i) + 1
                      /\ i = 4 => Part(i) = 1 /\ Chunk(i) = Chunks
                      /\ i = D => Part(i) = 4 /\ Chunk(i) = 1
  BY PartFacts
<1> HIDE DEF D, f
<1>1. CASE k > D + 3
  <2> DEFINE j == k - D - 3
  <2>1. j \in 1..4 /\ k = (D + 3) + j /\ k - 1 - D - 3 = j - 1
    BY <1>0, <1>a, <1>1
  <2>2. LoadAt(j, "args", n) /\ Effect(LoadOps("args", n)[j]) /\ dmem.state = from
    <3> HIDE DEF j
    <3>1. f[k] = LoadOps("args", n)[j]
      BY <1>0, <2>1
    <3> QED
      BY <1>a, <1>b, <1>1, <3>1 DEF j
  <2> HIDE DEF j
  <2>3. LoadAt(j - 1, "args", n)'
    BY <1>a, <2>1, <2>2, LoadClient
  <2>4. j = 1 => RunAt(3, from, to)' /\ dmem'.args = n
    BY <1>a, <2>2, <2>3 DEF LoadAt, RunAt, Has
  <2>5. CASE j = 1
    <3>1. k - 1 = D + 3 /\ k - 1 - D = 3
      BY <1>0, <2>1, <2>5
    <3> QED
      BY <1>0, <2>4, <2>5, <3>1
  <2>6. CASE j > 1
    BY <1>0, <1>a, <2>1, <2>2, <2>3, <2>6
  <2> QED
    BY <2>1, <2>5, <2>6
<1>2. CASE k > D /\ k <= D + 3
  <2> DEFINE j == k - D
  <2>1. j \in 1..3 /\ k = D + j /\ k - 1 - D = j - 1
    BY <1>0, <1>a, <1>2
  <2>2. RunAt(j, from, to) /\ Effect(RunOps[j]) /\ dmem.args = n
    <3> HIDE DEF j
    <3>1. f[k] = RunOps[j]
      BY <1>0, <2>1
    <3> QED
      BY <1>a, <1>b, <1>2, <3>1 DEF j
  <2> HIDE DEF j
  <2>3. (j > 1 => RunAt(j - 1, from, to)') /\ (j = 1 => DumpAt(4, 1, to)')
    BY <1>a, <2>1, <2>2, RunClient
  <2>4. CASE j = 1
    <3>1. k - 1 = D /\ Part(D) = 4 /\ Chunk(D) = 1
      BY <1>0, <1>c, <2>1, <2>4
    <3> QED
      BY <1>0, <1>a, <2>2, <2>3, <2>4, <3>1
  <2>5. CASE j > 1
    BY <1>0, <1>a, <2>1, <2>2, <2>3, <2>5
  <2> QED
    BY <2>1, <2>4, <2>5
<1>3. CASE k > 3 /\ k <= D
  <2> DEFINE p == Part(k)
             c == Chunk(k)
  <2>1. /\ p \in 1..4 /\ c \in 1..Chunks
        /\ p > 1 => k - 1 \in 4..D /\ Part(k - 1) = p - 1 /\ Chunk(k - 1) = c
        /\ p = 1 /\ k > 4 => k - 1 \in 4..D /\ Part(k - 1) = 4 /\ Chunk(k - 1) = c + 1
        /\ k = 4 => p = 1 /\ c = Chunks
    BY <1>0, <1>a, <1>3, <1>c
  <2>2. DumpAt(p, c, to) /\ Effect(DumpOps(c)[p]) /\ dmem.args = n
    <3>1. f[k] = DumpOps(c)[p]
      BY <1>0, <1>a, <1>3
    <3> QED
      BY <1>0, <1>a, <1>b, <1>3, <3>1
  <2> HIDE DEF p, c
  <2>3. /\ p > 1 => DumpAt(p - 1, c, to)'
        /\ p = 1 /\ c < Chunks => DumpAt(4, c + 1, to)'
        /\ p = 1 /\ c = Chunks => DoneAt(3, to)'
    BY <1>a, <2>1, <2>2, DumpClient
  <2>4. CASE p > 1
    BY <1>0, <1>a, <2>1, <2>2, <2>3, <2>4
  <2>5. CASE p = 1 /\ k > 4
    <3>1. k - 1 \in 4..D /\ Part(k - 1) = 4 /\ Chunk(k - 1) = c + 1 /\ c + 1 \in 1..Chunks
      BY <1>0, <1>c, <2>1, <2>5
    <3>2. DumpAt(4, c + 1, to)'
      BY UartAssumption, <2>1, <2>3, <2>5, <3>1
    <3> QED
      BY <1>0, <1>a, <2>2, <2>5, <3>1, <3>2
  <2>6. CASE k = 4
    BY <1>0, <1>a, <2>1, <2>2, <2>3, <2>6
  <2> QED
    BY <1>0, <1>a, <1>3, <2>1, <2>4, <2>5, <2>6
<1>4. CASE k <= 3
  <2>1. k \in 1..3 /\ DoneAt(k, to) /\ Effect(DoneOps[k]) /\ dmem.args = n
    BY <1>0, <1>a, <1>b, <1>4
  <2>2. DoneAt(k - 1, to)'
    BY <1>a, <2>1, DoneClient
  <2> QED
    BY <1>0, <1>a, <2>1, <2>2
<1> QED
  BY <1>0, <1>a, <1>1, <1>2, <1>3, <1>4

\* The board does its part.
LEMMA StepBoard ==
    ASSUME NEW n \in Nat, NEW k \in 0..(Dumping + 7), NEW from, NEW to, to = from + n,
           StepPhase(k, n, from, to), Memory, Board
    PROVE  StepPhase(k, n, from, to)' /\ Memory'
<1> DEFINE D == Dumping
<1>0. D \in Nat /\ D >= 7 /\ k \in 0..(D + 7)
  BY ScriptFacts
<1>b. /\ k > D + 3 => LoadAt(k - D - 3, "args", n) /\ dmem.state = from
      /\ k <= D + 3 => dmem.args = n
      /\ k > D /\ k <= D + 3 => RunAt(k - D, from, to)
      /\ k > 3 /\ k <= D => DumpAt(Part(k), Chunk(k), to)
      /\ k <= 3 => DoneAt(k, to)
  BY DEF StepPhase
<1> SUFFICES /\ k > D + 3 => LoadAt(k - D - 3, "args", n)' /\ dmem'.state = from
             /\ k <= D + 3 => dmem'.args = n
             /\ k > D /\ k <= D + 3 => RunAt(k - D, from, to)'
             /\ k > 3 /\ k <= D => DumpAt(Part(k), Chunk(k), to)'
             /\ k <= 3 => DoneAt(k, to)'
             /\ Memory'
  BY DEF StepPhase
<1>c. \A i \in 4..D : Part(i) \in 1..4 /\ Chunk(i) \in 1..Chunks
  BY PartFacts
<1> HIDE DEF D
<1>1. CASE k > D + 3
  <2> DEFINE j == k - D - 3
  <2>1. j \in 0..4 /\ LoadAt(j, "args", n) /\ dmem.state = from
    BY <1>0, <1>b, <1>1
  <2> HIDE DEF j
  <2>2. LoadAt(j, "args", n)' /\ Memory' /\ dmem'.state = dmem.state
    BY <2>1, LoadBoard
  <2> QED
    BY <1>0, <1>1, <2>1, <2>2 DEF j
<1>2. CASE k > D /\ k <= D + 3
  <2> DEFINE j == k - D
  <2>1. j \in 1..3 /\ RunAt(j, from, to) /\ dmem.args = n
    BY <1>0, <1>b, <1>2
  <2> HIDE DEF j
  <2>2. RunAt(j, from, to)' /\ Memory' /\ dmem'.args = dmem.args
    BY <2>1, RunBoard
  <2> QED
    BY <1>0, <1>2, <2>1, <2>2 DEF j
<1>3. CASE k > 3 /\ k <= D
  <2>1. Part(k) \in 1..4 /\ Chunk(k) \in 1..Chunks /\ DumpAt(Part(k), Chunk(k), to) /\ dmem.args = n
    BY <1>0, <1>b, <1>c, <1>3
  <2>2. DumpAt(Part(k), Chunk(k), to)' /\ dmem' = dmem
    BY <2>1, DumpBoard
  <2> QED
    BY <1>0, <1>3, <2>1, <2>2 DEF Memory
<1>4. CASE k <= 3
  <2>1. k \in 0..3 /\ DoneAt(k, to) /\ dmem.args = n
    BY <1>0, <1>b, <1>4
  <2>2. DoneAt(k, to)' /\ dmem' = dmem
    BY <2>1, DoneBoard
  <2> QED
    BY <1>0, <1>4, <2>1, <2>2 DEF Memory
<1> QED
  BY <1>0, <1>1, <1>2, <1>3, <1>4

-----------------------------------------------------------------------------
(* The calls of the worker *)

\* Only the request for the prompt is asked twice.
LEMMA PartsOfOps ==
    /\ \A region, n : /\ LoadOps(region, n)[1].part = "body" /\ LoadOps(region, n)[2].part = "body"
                      /\ LoadOps(region, n)[3].part = "body" /\ LoadOps(region, n)[4].part = "body"
    /\ RunOps[1].part = "body" /\ RunOps[2].part = "body" /\ RunOps[3].part = "body"
    /\ \A c : /\ DumpOps(c)[1].part = "try" /\ DumpOps(c)[2].part = "try"
              /\ DumpOps(c)[3].part = "try" /\ DumpOps(c)[4].part = "try"
    /\ DoneOps[1].part = "finally" /\ DoneOps[2].part = "finally" /\ DoneOps[3].part = "finally"
    /\ SyncOps[2].do = "write"
BY DEF Op, LoadOps, SyncOps, RunOps, DumpOps, DoneOps

LEMMA LoadNotSync ==
    ASSUME NEW region, NEW n, NEW k \in 1..4 PROVE LoadOps(region, n)[k].part # "sync"
<1>1. k = 1 \/ k = 2 \/ k = 3 \/ k = 4
  OBVIOUS
<1> QED
  BY <1>1, PartsOfOps

LEMMA ConstructOps ==
    /\ \A k \in 1..4 : ConstructScript[k] = LoadOps("imem", 0)[k]
    /\ ConstructScript[5] = SyncOps[1] /\ ConstructScript[6] = SyncOps[2]
BY DEF ConstructScript

LEMMA StepNotSync ==
    ASSUME NEW n, NEW k \in 1..(Dumping + 7) PROVE StepScript(n)[k].part # "sync"
<1> DEFINE D == Dumping
           f == StepScript(n)
<1>0. /\ D \in Nat /\ D >= 7 /\ k \in 1..(D + 7)
      /\ \A i \in 1..3 : f[i] = DoneOps[i]
      /\ \A i \in 4..D : f[i] = DumpOps(Chunk(i))[Part(i)]
      /\ \A i \in 1..3 : f[D + i] = RunOps[i]
      /\ \A i \in 1..4 : f[(D + 3) + i] = LoadOps("args", n)[i]
  BY ScriptFacts
<1>a. \A i \in 4..D : Part(i) \in 1..4
  BY PartFacts
<1> SUFFICES f[k].part # "sync"
  OBVIOUS
<1> HIDE DEF D, f
<1>b. \A i : /\ i \in 1..3 => i = 1 \/ i = 2 \/ i = 3
             /\ i \in 1..4 => i = 1 \/ i = 2 \/ i = 3 \/ i = 4
  OBVIOUS
<1>1. CASE k <= 3
  <2>1. \A i \in 1..3 : DoneOps[i].part # "sync"
    BY <1>b, PartsOfOps
  <2> QED
    BY <1>0, <1>1, <2>1
<1>2. CASE k \in 4..D
  <2>1. \A c : \A i \in 1..4 : DumpOps(c)[i].part # "sync"
    BY <1>b, PartsOfOps
  <2> QED
    BY <1>0, <1>a, <1>2, <2>1
<1>3. CASE k > D /\ k <= D + 3
  <2>1. \A i \in 1..3 : RunOps[i].part # "sync"
    BY <1>b, PartsOfOps
  <2>2. k - D \in 1..3 /\ D + (k - D) = k
    BY <1>0, <1>3
  <2> QED
    BY <1>0, <2>1, <2>2
<1>4. CASE k > D + 3
  <2>1. k - (D + 3) \in 1..4 /\ (D + 3) + (k - (D + 3)) = k
    BY <1>0, <1>4
  <2> QED
    BY <1>0, <2>1, LoadNotSync
<1> QED
  BY <1>0, <1>1, <1>2, <1>3, <1>4

\* The calls, as the monitor works them off.
LEMMA ConstructClient ==
    ASSUME NEW k, ConstructAt(k), Client
    PROVE  raised' = TRUE \/ (raised' = raised /\ \E j \in 0..6 : ConstructAt(j)')
<1> DEFINE f == ConstructScript
<1>1. /\ Left(todo, f) /\ k = Len(todo) /\ k \in 0..6
      /\ k <= 4 => LoadAt(k, "imem", 0)
      /\ k > 4 => SyncAt
  BY DEF ConstructAt
<1>2. /\ UNCHANGED <<device, dmem>>
      /\ k \in Nat \ {0}
      /\ \/ /\ Left(todo', f) /\ Len(todo') = k - 1 /\ raised' = raised
            /\ Effect(f[k])
         \/ /\ f[k].part = "sync" /\ f[k].do # "write"
            /\ todo' = SyncPrompt \o Tail(todo)
            /\ Left(Tail(todo), f) /\ Len(Tail(todo)) = k - 1
            /\ UNCHANGED <<raised, got, sent, rx>>
         \/ raised' = TRUE
  BY <1>1, ClientSteps
<1> HIDE DEF f
<1>a. k = 1 \/ k = 2 \/ k = 3 \/ k = 4 \/ k = 5 \/ k = 6
  BY <1>1, <1>2
<1>3. CASE Left(todo', f) /\ Len(todo') = k - 1 /\ raised' = raised /\ Effect(f[k])
  <2>1. CASE k \in 1..4
    <3>1. f[k] = LoadOps("imem", 0)[k]
      BY <2>1, ConstructOps DEF f
    <3>2. LoadAt(k, "imem", 0) /\ Effect(LoadOps("imem", 0)[k])
      <4>1. k <= 4
        BY <2>1
      <4> QED
        BY <1>1, <1>3, <3>1, <4>1, Zenon
    <3>3. LoadAt(k - 1, "imem", 0)'
      BY <1>2, <2>1, <3>2, LoadClient
    <3>4. ConstructAt(k - 1)'
      BY <1>3, <2>1, <3>3 DEF ConstructAt, f
    <3> QED
      BY <1>3, <2>1, <3>4
  <2>2. CASE k = 5
    <3>1. SyncAt /\ Effect(SyncOps[1])
      <4>1. f[5] = SyncOps[1]
        BY ConstructOps DEF f
      <4> QED
        BY <1>1, <1>3, <2>2, <4>1
    <3>2. SyncAt'
      BY <1>2, <3>1, SyncClient
    <3>3. LoadAt(4, "imem", 0)'
      BY <3>2 DEF SyncAt, LoadAt
    <3>4. ConstructAt(4)'
      BY <1>3, <2>2, <3>3 DEF ConstructAt, f
    <3> QED
      BY <1>3, <3>4
  <2>3. CASE k = 6
    <3>1. SyncAt /\ Effect(SyncOps[2])
      <4>1. f[6] = SyncOps[2]
        BY ConstructOps DEF f
      <4> QED
        BY <1>1, <1>3, <2>3, <4>1
    <3>2. SyncAt'
      BY <1>2, <3>1, SyncClient
    <3>3. ConstructAt(5)'
      BY <1>3, <2>3, <3>2 DEF ConstructAt, f
    <3> QED
      BY <1>3, <3>3
  <2>4. k \in 1..4 \/ k = 5 \/ k = 6
    BY <1>a
  <2> QED
    BY <2>1, <2>2, <2>3, <2>4, Zenon
<1>4. CASE /\ f[k].part = "sync" /\ f[k].do # "write"
           /\ todo' = SyncPrompt \o Tail(todo)
           /\ Left(Tail(todo), f) /\ Len(Tail(todo)) = k - 1
           /\ UNCHANGED <<raised, got, sent, rx>>
  <2>0. f[k].part = "sync" /\ f[k].do # "write"
    BY <1>4
  <2>1. k = 5
    <3>1. ~(k \in 1..4)
      <4>1. ASSUME k \in 1..4 PROVE FALSE
        <5>1. f[k] = LoadOps("imem", 0)[k]
          BY <4>1, ConstructOps DEF f
        <5>2. LoadOps("imem", 0)[k].part # "sync"
          BY <4>1, LoadNotSync
        <5> QED
          BY <2>0, <5>1, <5>2
      <4> QED
        BY <4>1
    <3>2. k # 6
      <4>1. f[6] = SyncOps[2]
        BY ConstructOps DEF f
      <4> QED
        BY <2>0, <4>1, PartsOfOps
    <3> QED
      BY <1>a, <3>1, <3>2
  <2>2. Left(todo', f) /\ Len(todo') = 6
    <3> DEFINE t == Tail(todo)
    <3>1. Left(t, ConstructScript) /\ Len(t) = 4 /\ todo' = SyncPrompt \o t
      BY <1>4, <2>1 DEF f
    <3> HIDE DEF t
    <3>2. Left(SyncPrompt \o t, ConstructScript) /\ Len(SyncPrompt \o t) = 6
      BY <3>1, ConstructLeft, Zenon
    <3> QED
      BY <3>1, <3>2, Zenon DEF f
  <2>3. SyncAt'
    <3>1. UNCHANGED <<device, sent, rx>> /\ SyncAt
      BY <1>1, <1>2, <1>4, <2>1
    <3> QED
      BY <3>1 DEF SyncAt
  <2>4. ConstructAt(6)'
    BY <2>2, <2>3 DEF ConstructAt, f
  <2>5. raised' = raised
    BY <1>4
  <2> QED
    BY <2>4, <2>5
<1> QED
  BY <1>2, <1>3, <1>4

LEMMA ResetClient ==
    ASSUME NEW k, ResetAt(k), Client
    PROVE  raised' = TRUE \/ (raised' = raised /\ \E j \in 0..4 : ResetAt(j)')
<1> DEFINE f == LoadOps("state", 0)
<1>1. Left(todo, f) /\ k = Len(todo) /\ k \in 0..4 /\ LoadAt(k, "state", 0)
  BY DEF ResetAt
<1>2. /\ UNCHANGED <<device, dmem>>
      /\ k \in Nat \ {0}
      /\ \/ /\ Left(todo', f) /\ Len(todo') = k - 1 /\ raised' = raised
            /\ Effect(f[k])
         \/ f[k].part = "sync"
         \/ raised' = TRUE
  <2> HIDE DEF f
  <2> QED
    BY <1>1, ClientSteps
<1>3. k \in 1..4
  BY <1>1, <1>2
<1>4. f[k].part # "sync"
  BY <1>3, LoadNotSync
<1>5. CASE Left(todo', f) /\ Len(todo') = k - 1 /\ raised' = raised /\ Effect(f[k])
  <2>1. LoadAt(k - 1, "state", 0)'
    BY <1>1, <1>2, <1>3, <1>5, LoadClient
  <2> HIDE DEF f
  <2>2. ResetAt(k - 1)'
    BY <1>3, <1>5, <2>1 DEF ResetAt, f
  <2> QED
    BY <1>3, <1>5, <2>2
<1> HIDE DEF f
<1> QED
  BY <1>2, <1>4, <1>5

LEMMA RoundClient ==
    ASSUME NEW k, StepAt(k), Client, backend' = backend
    PROVE  raised' = TRUE \/ (raised' = raised /\ \E j \in 0..(Dumping + 7) : StepAt(j)')
<1> SUFFICES ASSUME NEW n, n = backend.asked, NEW from, from = backend.count
             PROVE  raised' = TRUE \/ (raised' = raised /\ \E j \in 0..(Dumping + 7) : StepAt(j)')
  OBVIOUS
<1> DEFINE f == StepScript(n)
           to == from + n
<1>0. Dumping \in Nat
  BY ScriptFacts
<1>1. /\ Left(todo, f) /\ k = Len(todo) /\ k \in 0..(Dumping + 7)
      /\ n \in Nat \ {0} /\ from + n <= MaxSteps
      /\ StepPhase(k, n, from, to)
  BY DEF StepAt
<1>2. /\ UNCHANGED <<device, dmem>>
      /\ k \in Nat \ {0}
      /\ \/ /\ Left(todo', f) /\ Len(todo') = k - 1 /\ raised' = raised
            /\ Effect(f[k])
         \/ f[k].part = "sync"
         \/ raised' = TRUE
  <2> HIDE DEF f
  <2> QED
    BY <1>1, ClientSteps
<1>3. k \in 1..(Dumping + 7)
  BY <1>0, <1>1, <1>2
<1>4. f[k].part # "sync"
  BY <1>3, StepNotSync
<1>5. CASE Left(todo', f) /\ Len(todo') = k - 1 /\ raised' = raised /\ Effect(f[k])
  <2> HIDE DEF to
  <2>1. StepPhase(k - 1, n, from, to)'
    BY <1>1, <1>2, <1>3, <1>5, StepClient
  <2> HIDE DEF f
  <2>2. k - 1 \in 0..(Dumping + 7)
    BY <1>0, <1>3
  <2>3. backend'.asked = n /\ backend'.count = from
    OBVIOUS
  <2>4. StepAt(k - 1)'
    BY <1>1, <1>5, <2>1, <2>2, <2>3 DEF StepAt, f, to
  <2> QED
    BY <1>5, <2>2, <2>4
<1> HIDE DEF f
<1> QED
  BY <1>2, <1>4, <1>5

\* The calls, as the board answers.
LEMMA ConstructBoard ==
    ASSUME NEW k, ConstructAt(k), Memory, Board PROVE ConstructAt(k)' /\ Memory'
<1> DEFINE f == ConstructScript
<1>1. /\ Left(todo, f) /\ Len(todo) = k /\ k \in 0..6
      /\ k <= 4 => LoadAt(k, "imem", 0)
      /\ k > 4 => SyncAt
  BY DEF ConstructAt
<1> HIDE DEF f
<1>2. todo' = todo
  BY BoardKeeps
<1>3. CASE k <= 4
  <2>1. k \in 0..4 /\ LoadAt(k, "imem", 0)
    BY <1>1, <1>3
  <2>2. LoadAt(k, "imem", 0)' /\ Memory'
    BY <2>1, LoadBoard
  <2> QED
    BY <1>1, <1>2, <2>1, <2>2 DEF ConstructAt, f
<1>4. CASE k > 4
  <2>1. SyncAt' /\ dmem' = dmem
    BY <1>1, <1>4, SyncBoard
  <2>2. Memory'
    BY <2>1 DEF Memory
  <2> QED
    BY <1>1, <1>2, <1>4, <2>1, <2>2 DEF ConstructAt, f
<1> QED
  BY <1>1, <1>3, <1>4

LEMMA ResetBoard ==
    ASSUME NEW k, ResetAt(k), Memory, Board PROVE ResetAt(k)' /\ Memory'
<1> DEFINE f == LoadOps("state", 0)
<1>1. Left(todo, f) /\ Len(todo) = k /\ k \in 0..4 /\ LoadAt(k, "state", 0)
  BY DEF ResetAt
<1> HIDE DEF f
<1>2. todo' = todo
  BY BoardKeeps
<1>3. LoadAt(k, "state", 0)' /\ Memory'
  BY <1>1, LoadBoard
<1> QED
  BY <1>1, <1>2, <1>3 DEF ResetAt, f

LEMMA RoundBoard ==
    ASSUME NEW k, StepAt(k), Memory, Board, backend' = backend PROVE StepAt(k)' /\ Memory'
<1> SUFFICES ASSUME NEW n, n = backend.asked, NEW from, from = backend.count
             PROVE  StepAt(k)' /\ Memory'
  OBVIOUS
<1> DEFINE f == StepScript(n)
           to == from + n
<1>1. /\ Left(todo, f) /\ Len(todo) = k /\ k \in 0..(Dumping + 7)
      /\ n \in Nat \ {0} /\ from + n <= MaxSteps
      /\ StepPhase(k, n, from, to)
  BY DEF StepAt
<1> HIDE DEF f
<1>2. todo' = todo
  BY BoardKeeps
<1>3. StepPhase(k, n, from, to)' /\ Memory'
  <2>1. n \in Nat
    BY <1>1
  <2> QED
    BY <1>1, <2>1, StepBoard
<1>4. backend'.asked = n /\ backend'.count = from
  OBVIOUS
<1> QED
  BY <1>1, <1>2, <1>3, <1>4 DEF StepAt, f

-----------------------------------------------------------------------------
(* The steps of the worker and its threads *)

\* The client works off its call.
LEMMA ClientInStep ==
    ASSUME Types, InStep, Client, UNCHANGED server PROVE Types' /\ InStep'
<1>1. /\ UNCHANGED <<process, worker, backend, commands, request, state>>
  BY DEF server
<1>2. todo # << >> /\ UNCHANGED <<device, dmem>> /\ raised' \in {raised, TRUE}
  BY DEF Client, Writes, Finds, Refused, ReadsExact, TimesOut, Starved, Waiting, Raises
<1>3. worker \notin {"loop", "settle", "ended"} \/ raised \/ worker = "ended"
  BY <1>2 DEF InStep, AtRest
<1>4. Types'
  <2>1. raised' \in BOOLEAN /\ (worker' \in {"loop", "settle"} => ~raised')
    BY <1>1, <1>2, <1>3 DEF Types
  <2> QED
    BY <1>1, <2>1 DEF Types
<1>5. ASSUME worker' # "ended", ~raised' PROVE InStep'
  <2>0. ~raised
    BY <1>2, <1>5, Zenon
  <2>1. worker # "ended" /\ ~raised
    BY <1>1, <1>5, <2>0
  <2>2. Memory'
    BY <1>2, <2>1 DEF InStep, Memory
  <2>3. worker \in {"construct", "first", "reset", "step"}
    BY <1>3, <2>1 DEF Types
  <2>4. CASE worker = "construct"
    <3>1. PICK k \in 0..6 : ConstructAt(k)
      BY <2>1, <2>4 DEF InStep
    <3>2. \E j \in 0..6 : ConstructAt(j)'
      BY <1>5, <3>1, ConstructClient
    <3> QED
      BY <1>1, <2>2, <2>4, <3>2 DEF InStep
  <2>5. CASE worker \in {"first", "reset"}
    <3>1. PICK k \in 0..4 : ResetAt(k)
      BY <2>1, <2>5 DEF InStep
    <3>2. \E j \in 0..4 : ResetAt(j)'
      BY <1>5, <3>1, ResetClient
    <3> QED
      BY <1>1, <2>2, <2>5, <3>2 DEF InStep
  <2>6. CASE worker = "step"
    <3>1. PICK k \in 0..(Dumping + 7) : StepAt(k)
      BY <2>1, <2>6 DEF InStep
    <3>2. \E j \in 0..(Dumping + 7) : StepAt(j)'
      BY <1>1, <1>5, <3>1, RoundClient
    <3> QED
      BY <1>1, <2>2, <2>6, <3>2 DEF InStep
  <2> QED
    BY <2>3, <2>4, <2>5, <2>6
<1>6. worker' = "ended" \/ raised' => InStep'
  BY DEF InStep
<1> QED
  BY <1>4, <1>5, <1>6

\* The board takes its part in it.
LEMMA BoardInStep ==
    ASSUME Types, InStep, Board, UNCHANGED server PROVE Types' /\ InStep'
<1>1. /\ UNCHANGED <<process, worker, backend, commands, request, state>>
      /\ UNCHANGED <<todo, raised, attempt, got>>
  BY BoardKeeps DEF server
<1>2. Types'
  BY <1>1 DEF Types
<1>3. ASSUME worker' # "ended", ~raised' PROVE InStep'
  <2>1. worker # "ended" /\ ~raised /\ Memory
    BY <1>1, <1>3 DEF InStep
  <2>2. worker \notin {"loop", "settle"}
    BY <2>1, BoardQuiet DEF InStep, AtRest, Quiet
  <2>3. worker \in {"construct", "first", "reset", "step"}
    BY <2>1, <2>2 DEF Types
  <2>4. CASE worker = "construct"
    <3>1. PICK k \in 0..6 : ConstructAt(k)
      BY <2>1, <2>4 DEF InStep
    <3>2. ConstructAt(k)' /\ Memory'
      BY <2>1, <3>1, ConstructBoard
    <3> QED
      BY <1>1, <2>4, <3>2 DEF InStep
  <2>5. CASE worker \in {"first", "reset"}
    <3>1. PICK k \in 0..4 : ResetAt(k)
      BY <2>1, <2>5 DEF InStep
    <3>2. ResetAt(k)' /\ Memory'
      BY <2>1, <3>1, ResetBoard
    <3> QED
      BY <1>1, <2>5, <3>2 DEF InStep
  <2>6. CASE worker = "step"
    <3>1. PICK k \in 0..(Dumping + 7) : StepAt(k)
      BY <2>1, <2>6 DEF InStep
    <3>2. StepAt(k)' /\ Memory'
      BY <1>1, <2>1, <3>1, RoundBoard
    <3> QED
      BY <1>1, <2>6, <3>2 DEF InStep
  <2> QED
    BY <2>3, <2>4, <2>5, <2>6
<1>4. worker' = "ended" \/ raised' => InStep'
  BY DEF InStep
<1> QED
  BY <1>2, <1>3, <1>4

\* The worker finds the board loading and with nothing to answer.
LEMMA CallBegins ==
    ASSUME Types, InStep, worker = "construct" \/ worker = "loop", ~raised, todo = << >>
    PROVE  /\ Memory /\ device = "loading" /\ Quiet /\ Helps(sent) /\ Prompts(rx)
           /\ worker = "loop" => AtRest
<1>1. CASE worker = "construct"
  <2>1. PICK k \in 0..6 : ConstructAt(k) /\ Memory
    BY <1>1 DEF InStep
  <2>2. k = 0
    <3>1. Len(todo) = 0
      BY TupleFacts
    <3> QED
      BY <2>1, <3>1 DEF ConstructAt
  <2>3. LoadAt(0, "imem", 0)
    BY <2>1, <2>2 DEF ConstructAt
  <2>4. device = "loading" /\ Quiet
    BY <2>3 DEF LoadAt
  <2> QED
    BY <1>1, <2>1, <2>4, HelpsFacts DEF Quiet
<1>2. CASE worker = "loop"
  <2>1. AtRest /\ Memory
    BY <1>2 DEF InStep
  <2> QED
    BY <2>1, HelpsFacts DEF AtRest, Quiet
<1> QED
  BY <1>1, <1>2

\* The calls, as they begin.
LEMMA ResetBegins ==
    ASSUME device = "loading", Helps(sent), Prompts(rx), Memory, Calls(LoadBinary("state", 0))
    PROVE  ResetAt(4)' /\ Memory' /\ raised' = raised
<1>1. UNCHANGED <<raised, sent, rx, device, dmem>> /\ todo' = LoadBinary("state", 0)
  BY DEF Calls, line
<1> DEFINE q == LoadBinary("state", 0)
<1>2. Left(q, LoadOps("state", 0)) /\ Len(q) = 4
  BY ResetLeft
<1> HIDE DEF q
<1>3. todo' = q
  BY <1>1 DEF q
<1>4. LoadAt(4, "state", 0)' /\ Memory'
  BY <1>1 DEF LoadAt, Memory
<1> QED
  BY <1>1, <1>2, <1>3, <1>4 DEF ResetAt

LEMMA StepBegins ==
    ASSUME Types, Memory, AtRest, NEW n \in Nat \ {0}, backend.count + n <= MaxSteps,
           backend' = [backend EXCEPT !.asked = n],
           Calls(LoadKernelArgs(n) \o RunKernel \o DumpPositions \o ReadDone)
    PROVE  Memory' /\ raised' = raised /\ \E k \in 0..(Dumping + 7) : StepAt(k)'
<1>1. /\ UNCHANGED <<raised, sent, rx, device, dmem>>
      /\ todo' = LoadKernelArgs(n) \o RunKernel \o DumpPositions \o ReadDone
  BY DEF Calls, line
<1>2. /\ device = "loading" /\ Quiet /\ dmem.state = backend.count
      /\ backend.previous # 0 => dmem.args = backend.previous
      /\ Helps(sent) /\ Prompts(rx)
  BY HelpsFacts DEF AtRest, Quiet
<1>3. backend'.asked = n /\ backend'.count = backend.count /\ Memory'
  BY <1>1 DEF Types, Memory
<1> SUFFICES ASSUME NEW from, from = backend.count
             PROVE  \E k \in 0..(Dumping + 7) : StepAt(k)'
  BY <1>1, <1>3
<1> DEFINE f == StepScript(n)
           to == from + n
<1>4. Dumping \in Nat /\ Dumping >= 7 /\ Dumping + 3 > 3
  BY ScriptFacts
<1>5. CASE n = backend.previous
  <2>1. todo' = << >> \o RunKernel \o DumpPositions \o ReadDone
    BY <1>1, <1>5 DEF LoadKernelArgs
  <2>2. Left(todo', f) /\ Len(todo') = Dumping + 3
    BY <2>1, StepLeft
  <2> HIDE DEF f
  <2>3. dmem.args = n /\ dmem.state = from
    BY <1>2, <1>5
  <2>4. RunAt(3, from, to)'
    <3>1. Quiet'
      BY <1>1, <1>2 DEF Quiet
    <3> HIDE DEF to
    <3> QED
      BY <1>1, <1>2, <2>3, <3>1 DEF RunAt
  <2> DEFINE k == Dumping + 3
  <2>5. k - Dumping = 3 /\ ~(k > Dumping + 3) /\ ~(k <= 3) /\ ~(k <= Dumping) /\ k \in 0..(Dumping + 7)
    BY <1>4
  <2> HIDE DEF k, to
  <2>6. StepPhase(k, n, from, to)'
    BY <1>1, <2>3, <2>4, <2>5 DEF StepPhase
  <2>7. StepAt(k)'
    BY <1>3, <2>2, <2>5, <2>6 DEF StepAt, f, k, to
  <2> QED
    BY <2>5, <2>7
<1>6. CASE n # backend.previous
  <2>1. todo' = LoadBinary("args", n) \o RunKernel \o DumpPositions \o ReadDone
    BY <1>1, <1>6 DEF LoadKernelArgs
  <2>2. Left(todo', f) /\ Len(todo') = Dumping + 7
    BY <2>1, StepLeft
  <2> HIDE DEF f
  <2>3. LoadAt(4, "args", n)' /\ dmem'.state = from
    BY <1>1, <1>2 DEF LoadAt
  <2> DEFINE k == Dumping + 7
  <2>5. /\ k - Dumping - 3 = 4 /\ k > Dumping + 3 /\ ~(k <= 3) /\ ~(k <= Dumping)
        /\ ~(k <= Dumping + 3) /\ k \in 0..(Dumping + 7)
    BY <1>4
  <2> HIDE DEF k, to
  <2>6. StepPhase(k, n, from, to)'
    BY <2>3, <2>5 DEF StepPhase
  <2>7. StepAt(k)'
    BY <1>3, <2>2, <2>5, <2>6 DEF StepAt, f, k, to
  <2> QED
    BY <2>5, <2>7
<1> QED
  BY <1>5, <1>6

\* A dump shows one step at most.
LEMMA ShownIs ==
    ASSUME NEW k \in 0..MaxSteps PROVE Shown(Positions(k)) = k
<1> DEFINE P(j) == Positions(j)
           c == CHOOSE j \in 0..MaxSteps : P(k) = P(j)
<1>1. c \in 0..MaxSteps /\ P(k) = P(c)
  BY Zenon
<1>2. \A j : P(j)[1][1].state = j
  <2>1. 1 \in 1..Chunks /\ 1 \in 1..ChunkBytes
    BY UartAssumption
  <2> QED
    BY <2>1 DEF Positions, Data, Unit
<1>3. Shown(P(k)) = c
  BY DEF Shown
<1> HIDE DEF P, c
<1>4. c = k
  BY <1>1, <1>2
<1> QED
  BY <1>3, <1>4 DEF P

\* A step that returns without an exception.
LEMMA StepReturns ==
    ASSUME Types, InStep, worker = "step", ~raised, todo = << >>
    PROVE  /\ Memory /\ device = "loading" /\ Quiet
           /\ dmem.state = backend.count + backend.asked /\ dmem.args = backend.asked
           /\ Noticed => Shown(got) = backend.count + backend.asked
<1>1. PICK k \in 0..(Dumping + 7) : StepAt(k) /\ Memory
  BY DEF InStep
<1>2. k = 0
  <2>1. Len(todo) = 0
    BY TupleFacts
  <2> QED
    BY <1>1, <2>1 DEF StepAt
<1>3. Dumping \in Nat /\ Dumping >= 7
  BY ScriptFacts
<1> DEFINE to == backend.count + backend.asked
<1>4. DoneAt(0, to) /\ dmem.args = backend.asked /\ to \in 0..MaxSteps
  <2>1. StepPhase(0, backend.asked, backend.count, to) /\ to <= MaxSteps
    BY <1>1, <1>2 DEF StepAt
  <2>2. to \in 0..MaxSteps
    BY <2>1, SimulationAssumption DEF Types
  <2> HIDE DEF to
  <2> QED
    BY <1>3, <2>1, <2>2 DEF StepPhase
<1> HIDE DEF to
<1>5. device = "loading" /\ Quiet /\ dmem.state = to /\ Read(Chunks, to)
  BY <1>4 DEF DoneAt
<1>6. ReadUp(Chunks, to) = Positions(to)
  BY DEF ReadUp, Positions
<1>7. Noticed => Shown(got) = to
  BY <1>4, <1>5, <1>6, ShownIs DEF Read
<1> QED
  BY <1>1, <1>4, <1>5, <1>7 DEF to

\* The invariant is inductive.
LEMMA SimulationInit ==
    Init => SimulationInv
<1> SUFFICES ASSUME Init PROVE SimulationInv
  OBVIOUS
<1>1. /\ worker = "construct" /\ raised = FALSE
      /\ backend = [count |-> 0, previous |-> 0, asked |-> 0]
      /\ commands = << >> /\ request = NoRequest /\ state = Initializing
      /\ sent = << >> /\ device = "loading" /\ dmem = [args |-> 0, state |-> 0]
      /\ todo = SyncPrompt \o LoadBinary("imem", 0)
      /\ rx \in {<< >>, Text("PROMPT")}
  BY DEF Init, UartInit
<1>2. Types
  <2>1. commands \in Seq(Actions)
    BY <1>1
  <2> QED
    BY <1>1, <2>1 DEF Types, NoRequest, Initializing
<1>3. FrameIsTrue
  BY <1>1 DEF FrameIsTrue, Initializing, NoFrame
<1>4. ConstructAt(6)
  <2> DEFINE q == SyncPrompt \o LoadBinary("imem", 0)
  <2>1. Left(q, ConstructScript) /\ Len(q) = 6
    BY ConstructLeft
  <2> HIDE DEF q
  <2>2. todo = q
    BY <1>1 DEF q
  <2>3. Prompts(Text("PROMPT")) /\ Prompts(<< >>)
    BY TextFacts, MarkedPrompts
  <2>4. SyncAt
    BY <1>1, <2>3, HelpsFacts DEF SyncAt
  <2> QED
    BY <2>1, <2>2, <2>4 DEF ConstructAt
<1>5. Memory
  BY <1>1 DEF Memory
<1>6. InStep
  BY <1>1, <1>4, <1>5 DEF InStep
<1> QED
  BY <1>2, <1>3, <1>6 DEF SimulationInv

LEMMA SimulationStep ==
    SimulationInv /\ [Next]_vars => SimulationInv'
<1> SUFFICES ASSUME SimulationInv, [Next]_vars PROVE SimulationInv'
  OBVIOUS
<1>0. Types /\ InStep /\ (Noticed => FrameIsTrue)
  BY DEF SimulationInv
<1>a. ASSUME worker' = "ended" PROVE InStep'
  BY <1>a DEF InStep
<1>b. ASSUME UNCHANGED <<todo, sent, rx, device, dmem, raised>>, backend' = backend, got' = got,
             worker' = worker
      PROVE  InStep'
  BY <1>0, <1>b DEF InStep, Memory, ConstructAt, ResetAt, StepAt, AtRest, StepPhase, LoadAt, RunAt,
         DumpAt, DoneAt, SyncAt, Quiet, Asked, Answered, Read, Has
<1>1. CASE Constructed
  <2>1. /\ worker = "construct" /\ ~raised /\ todo = << >> /\ worker' = "first"
        /\ Calls(LoadBinary("state", 0))
        /\ UNCHANGED <<process, backend, commands, request, state>>
    BY <1>1 DEF Constructed, Returned
  <2>2. Memory /\ device = "loading" /\ Helps(sent) /\ Prompts(rx)
    BY <1>0, <2>1, CallBegins
  <2>3. ResetAt(4)' /\ Memory' /\ raised' = raised
    BY <2>1, <2>2, ResetBegins
  <2>4. InStep'
    BY <2>1, <2>3 DEF InStep
  <2>5. Types' /\ (Noticed => FrameIsTrue')
    BY <1>0, <2>1, <2>3 DEF Types, FrameIsTrue
  <2> QED
    BY <2>4, <2>5 DEF SimulationInv
<1>2. CASE ConstructFails \/ FirstResetFails
  <2>1. /\ worker' = "ended"
        /\ UNCHANGED <<raised, backend, commands, request, state>>
    BY <1>2 DEF ConstructFails, FirstResetFails, uart
  <2> QED
    BY <1>0, <1>a, <2>1 DEF SimulationInv, Types, FrameIsTrue
<1>3. CASE Applies
  <2>1. /\ worker = "loop" /\ commands # << >>
        /\ \E speed \in 1..MaxSpeed : state' = Controlled(state, Head(commands), speed)
        /\ request' = Requested(request, Head(commands))
        /\ commands' = Tail(commands)
        /\ UNCHANGED <<todo, raised, attempt, got, sent, rx, device, dmem, losses>>
        /\ UNCHANGED <<process, worker, backend>>
    BY <1>3 DEF Applies, uart
  <2> DEFINE action == Head(commands)
  <2>2. action \in Actions /\ commands' \in Seq(Actions)
    BY <1>0, <2>1 DEF Types
  <2>3. action \in {"toggle_play", "play", "pause", "step_one", "step_speed",
                    "reset_simulation", "speed_up", "speed_down", "set_speed",
                    "fps_up", "fps_down", "set_fps", "unknown"}
    BY <2>2, SimulationAssumption
  <2> HIDE DEF action
  <2>4. /\ state' = [playing |-> state'.playing, speed |-> state'.speed, busy |-> state'.busy,
                     status |-> state'.status, latest |-> state'.latest]
        /\ state'.speed \in Nat /\ state'.latest = state.latest
    <3>1. PICK speed \in 1..MaxSpeed : state' = Controlled(state, action, speed)
      BY <2>1 DEF action
    <3>2. /\ state = [playing |-> state.playing, speed |-> state.speed, busy |-> state.busy,
                      status |-> state.status, latest |-> state.latest]
          /\ state.speed \in Nat /\ MaxSpeed \in Nat
      BY <1>0, SimulationAssumption DEF Types
    <3>3. CASE action = "toggle_play"
      BY <3>1, <3>2, <3>3 DEF Controlled
    <3>4. CASE action = "play"
      BY <3>1, <3>2, <3>4 DEF Controlled
    <3>5. CASE action \in {"pause", "step_one", "step_speed", "reset_simulation"}
      <4>1. state' = [state EXCEPT !.playing = FALSE]
        BY <3>1, <3>5 DEF Controlled
      <4> QED
        BY <3>2, <4>1
    <3>6. CASE action = "speed_up"
      <4>1. state' = [state EXCEPT !.speed = IF 2 * @ > MaxSpeed THEN MaxSpeed ELSE 2 * @]
        BY <3>1, <3>6 DEF Controlled
      <4> QED
        BY <3>2, <4>1
    <3>7. CASE action = "speed_down"
      <4>1. state' = [state EXCEPT !.speed = IF @ \div 2 < 1 THEN 1 ELSE @ \div 2]
        BY <3>1, <3>7 DEF Controlled
      <4> QED
        BY <3>2, <4>1
    <3>8. CASE action \in {"set_speed", "unknown"}
      <4>1. state' \in {[state EXCEPT !.speed = speed], [state EXCEPT !.status = "ignored"]}
        BY <3>1, <3>8 DEF Controlled
      <4> QED
        BY <3>2, <4>1
    <3>9. CASE action \in {"fps_up", "fps_down", "set_fps"}
      BY <3>1, <3>2, <3>9 DEF Controlled
    <3> QED
      BY <2>3, <3>3, <3>4, <3>5, <3>6, <3>7, <3>8, <3>9
  <2>5. request' = [steps |-> request'.steps, reset |-> request'.reset] /\ request'.steps \in Nat
    <3>1. request' = Requested(request, action)
      BY <2>1 DEF action
    <3> QED
      BY <1>0, <2>3, <3>1 DEF Types, Requested
  <2>6. Types'
    BY <1>0, <2>1, <2>2, <2>4, <2>5 DEF Types
  <2>7. InStep'
    BY <1>b, <2>1
  <2> QED
    BY <1>0, <2>4, <2>6, <2>7 DEF SimulationInv, FrameIsTrue
<1>4. CASE BeginsReset
  <2>1. /\ worker = "loop" /\ request' = NoRequest /\ worker' = "reset"
        /\ state' = Busy("resetting") /\ Calls(LoadBinary("state", 0))
        /\ UNCHANGED <<process, backend, commands>>
    BY <1>4 DEF BeginsReset
  <2>2. ~raised /\ AtRest /\ todo = << >>
    BY <1>0, <2>1 DEF Types, InStep, AtRest
  <2>3. Memory /\ device = "loading" /\ Helps(sent) /\ Prompts(rx)
    BY <1>0, <2>1, <2>2, CallBegins
  <2>4. ResetAt(4)' /\ Memory' /\ raised' = raised
    BY <2>1, <2>3, ResetBegins
  <2>5. InStep'
    BY <2>1, <2>4 DEF InStep
  <2>6. Types' /\ (Noticed => FrameIsTrue')
    BY <1>0, <2>1, <2>4 DEF Types, FrameIsTrue, Busy, NoRequest
  <2> QED
    BY <2>5, <2>6 DEF SimulationInv
<1>5. CASE BeginsStep
  <2> DEFINE n == Steps
  <2>1. /\ worker = "loop" /\ n > 0 /\ backend.count + n <= MaxSteps
        /\ request' = NoRequest /\ worker' = "step" /\ state' = Busy("running")
        /\ backend' = [backend EXCEPT !.asked = n]
        /\ Calls(LoadKernelArgs(n) \o RunKernel \o DumpPositions \o ReadDone)
        /\ UNCHANGED <<process, commands>>
    BY <1>5 DEF BeginsStep
  <2>2. n \in Nat \ {0}
    BY <1>0, <2>1 DEF Types, Steps
  <2> HIDE DEF n
  <2>3. ~raised /\ AtRest /\ Memory
    BY <1>0, <2>1 DEF Types, InStep
  <2>4. Memory' /\ raised' = raised /\ \E k \in 0..(Dumping + 7) : StepAt(k)'
    <3> SUFFICES ASSUME NEW m, m = n
                 PROVE  Memory' /\ raised' = raised /\ \E k \in 0..(Dumping + 7) : StepAt(k)'
      OBVIOUS
    <3>1. /\ m \in Nat \ {0} /\ backend.count + m <= MaxSteps
          /\ backend' = [backend EXCEPT !.asked = m]
          /\ Calls(LoadKernelArgs(m) \o RunKernel \o DumpPositions \o ReadDone)
      BY <2>1, <2>2
    <3> QED
      BY <1>0, <2>3, <3>1, StepBegins
  <2>5. InStep'
    BY <2>1, <2>4 DEF InStep
  <2>6. Types' /\ (Noticed => FrameIsTrue')
    BY <1>0, <2>1, <2>2, <2>4 DEF Types, FrameIsTrue, Busy, NoRequest
  <2> QED
    BY <2>5, <2>6 DEF SimulationInv
<1>6. CASE EndsReset
  <2>1. /\ worker \in {"first", "reset"} /\ todo = << >> /\ ~raised
        /\ backend' = [count |-> 0, previous |-> 0, asked |-> 0]
        /\ state' = [state EXCEPT !.latest = [step |-> 0, shown |-> 0]]
        /\ worker' = "settle"
        /\ UNCHANGED <<todo, raised, attempt, got, sent, rx, device, dmem, losses>>
        /\ UNCHANGED <<process, commands, request>>
    BY <1>6 DEF EndsReset, Returned, uart
  <2>2. PICK k \in 0..4 : ResetAt(k) /\ Memory
    BY <1>0, <2>1 DEF InStep, Types
  <2>3. k = 0
    <3>1. Len(todo) = 0
      BY <2>1, TupleFacts
    <3> QED
      BY <2>2, <3>1 DEF ResetAt
  <2>4. device = "loading" /\ Quiet /\ dmem.state = 0
    BY <2>2, <2>3 DEF ResetAt, LoadAt, Has
  <2>5. AtRest' /\ Memory'
    BY <2>1, <2>2, <2>4 DEF AtRest, Quiet, Memory
  <2>6. InStep'
    BY <2>1, <2>5 DEF InStep
  <2>7. Types' /\ FrameIsTrue'
    BY <1>0, <2>1 DEF Types, FrameIsTrue
  <2> QED
    BY <2>6, <2>7 DEF SimulationInv
<1>7. CASE EndsStep
  <2> DEFINE to == backend.count + backend.asked
  <2>1. /\ worker = "step" /\ todo = << >> /\ ~raised
        /\ backend' = [count |-> to, previous |-> backend.asked, asked |-> 0]
        /\ state' = [state EXCEPT !.latest = [step |-> to, shown |-> Shown(got)]]
        /\ worker' = "settle" /\ got' = << >>
        /\ UNCHANGED <<todo, raised, attempt, sent, rx, device, dmem, losses>>
        /\ UNCHANGED <<process, commands, request>>
    BY <1>7 DEF EndsStep, Returned, line
  <2>2. /\ Memory /\ device = "loading" /\ Quiet
        /\ dmem.state = to /\ dmem.args = backend.asked
        /\ Noticed => Shown(got) = to
    BY <1>0, <2>1, StepReturns
  <2>3. to \in Nat
    BY <1>0 DEF Types
  <2> HIDE DEF to
  <2>4. AtRest' /\ Memory'
    BY <2>1, <2>2 DEF AtRest, Quiet, Memory
  <2>5. InStep'
    BY <2>1, <2>4 DEF InStep
  <2>6. Types' /\ (Noticed => FrameIsTrue')
    BY <1>0, <2>1, <2>2, <2>3 DEF Types, FrameIsTrue
  <2> QED
    BY <2>5, <2>6 DEF SimulationInv
<1>8. CASE Settles
  <2>1. /\ worker = "settle" /\ worker' = "loop"
        /\ state' = [state EXCEPT !.busy = FALSE, !.status = "ready"]
        /\ UNCHANGED <<todo, raised, attempt, got, sent, rx, device, dmem, losses>>
        /\ UNCHANGED <<process, backend, commands, request>>
    BY <1>8 DEF Settles, uart
  <2>2. ~raised /\ AtRest /\ Memory
    BY <1>0, <2>1 DEF Types, InStep
  <2>3. AtRest' /\ Memory'
    BY <2>1, <2>2 DEF AtRest, Quiet, Memory
  <2>4. InStep'
    BY <2>1, <2>3 DEF InStep
  <2>5. Types' /\ (Noticed => FrameIsTrue')
    BY <1>0, <2>1, <2>2 DEF Types, FrameIsTrue
  <2> QED
    BY <2>4, <2>5 DEF SimulationInv
<1>9. CASE WorkerFails
  <2>1. /\ worker' = "ended"
        /\ state' = [state EXCEPT !.busy = FALSE, !.playing = FALSE, !.status = "ERROR"]
        /\ UNCHANGED <<raised, backend, commands, request>>
    BY <1>9 DEF WorkerFails
  <2>2. Types' /\ (Noticed => FrameIsTrue')
    BY <1>0, <2>1 DEF Types, FrameIsTrue
  <2> QED
    BY <1>a, <2>1, <2>2 DEF SimulationInv
<1>10. CASE TalksToBoard
  <2>1. Client /\ UNCHANGED server
    BY <1>10 DEF TalksToBoard
  <2> QED
    BY <1>0, <2>1, ClientInStep DEF SimulationInv, FrameIsTrue, server
<1>11. CASE BoardTalks
  <2>1. Board /\ UNCHANGED server
    BY <1>11 DEF BoardTalks
  <2> QED
    BY <1>0, <2>1, BoardInStep DEF SimulationInv, FrameIsTrue, server
<1>12. CASE Serves
  <2>1. /\ UNCHANGED <<todo, raised, attempt, got, sent, rx, device, dmem, losses>>
        /\ UNCHANGED <<worker, backend, commands, request, state>>
    BY <1>12 DEF Serves, uart
  <2>2. InStep'
    BY <1>b, <2>1
  <2> QED
    BY <1>0, <2>1, <2>2 DEF SimulationInv, Types, FrameIsTrue
<1>13. CASE StartTimesOut \/ StopSession
  <2>1. /\ worker' = "ended" /\ raised' = FALSE /\ backend' = backend
        /\ commands' = << >> /\ request' = NoRequest /\ state' = Initializing
    BY <1>13 DEF StartTimesOut, StopSession, Killed
  <2>2. commands' \in Seq(Actions)
    BY <2>1
  <2>3. Types'
    BY <1>0, <2>1, <2>2 DEF Types, NoRequest, Initializing
  <2>4. FrameIsTrue'
    BY <2>1 DEF FrameIsTrue, Initializing, NoFrame
  <2> QED
    BY <1>a, <2>1, <2>3, <2>4 DEF SimulationInv
<1>14. CASE Posts
  <2>1. /\ \E action \in Actions : commands' = Append(commands, action)
        /\ UNCHANGED <<todo, raised, attempt, got, sent, rx, device, dmem, losses>>
        /\ UNCHANGED <<process, worker, backend, request, state>>
    BY <1>14 DEF Posts, uart
  <2>2. commands' \in Seq(Actions)
    BY <1>0, <2>1 DEF Types
  <2>3. InStep'
    BY <1>b, <2>1
  <2> QED
    BY <1>0, <2>1, <2>2, <2>3 DEF SimulationInv, Types, FrameIsTrue
<1>16. CASE ControlFails
  <2>1. /\ worker' = "ended" /\ commands # << >> /\ commands' = Tail(commands)
        /\ state' = [state EXCEPT !.busy = FALSE, !.playing = FALSE, !.status = "ERROR"]
        /\ request' = NoRequest
        /\ UNCHANGED <<raised, backend>>
    BY <1>16 DEF ControlFails
  <2>2. commands' \in Seq(Actions)
    BY <1>0, <2>1 DEF Types
  <2>3. Types' /\ (Noticed => FrameIsTrue')
    BY <1>0, <2>1, <2>2 DEF Types, FrameIsTrue, NoRequest
  <2> QED
    BY <1>a, <2>1, <2>3 DEF SimulationInv
<1>15. CASE UNCHANGED vars
  <2>1. /\ UNCHANGED <<todo, raised, attempt, got, sent, rx, device, dmem, losses>>
        /\ UNCHANGED <<process, worker, backend, commands, request, state>>
    BY <1>15 DEF vars, uart, server
  <2>2. InStep'
    BY <1>b, <2>1
  <2> QED
    BY <1>0, <2>1, <2>2 DEF SimulationInv, Types, FrameIsTrue
<1> QED
  BY <1>1, <1>2, <1>3, <1>4, <1>5, <1>6, <1>7, <1>8, <1>9, <1>10, <1>11, <1>12, <1>13, <1>14, <1>15,
     <1>16 DEF Next, Worker

-----------------------------------------------------------------------------

\* The worker and the board are in step, whatever the line loses: what is left
\* of a call of the monitor tells what the board has been asked and may have
\* answered, until an exception ends the worker.
THEOREM SimulationInvariant ==
    Spec => []SimulationInv
BY SimulationInit, SimulationStep, PTL DEF Spec

\* A call of the backend finds the board in its loading state with nothing left
\* to answer, whatever the line lost of the calls before it: what a lost reply
\* leaves behind ends the worker first.
THEOREM BoardAlwaysReady ==
    Spec => []BoardIsReady
<1>1. SimulationInv => BoardIsReady
  BY DEF SimulationInv, Types, InStep, AtRest, Quiet, BoardIsReady
<1> QED
  BY <1>1, SimulationInvariant, PTL

\* Every frame shows the bodies at the step it is numbered with, if the line
\* loses no one or two units at a time: so few may be made up for by the end of
\* line after the data, which read_exact does not look at.
THEOREM FramesAlwaysTrue ==
    ASSUME Bursts \cap {1, 2} = {} PROVE Spec => []FrameIsTrue
<1>1. SimulationInv => FrameIsTrue
  BY DEF SimulationInv, Noticed
<1> QED
  BY <1>1, SimulationInvariant, PTL

=============================================================================
