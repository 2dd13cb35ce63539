----------------------------- MODULE TclProofs -----------------------------
(***************************************************************************)
(* A result speaks of the script it was asked for, whatever earlier        *)
(* scripts have left in the pipe: for any hub and any number of scripts,   *)
(* and wherever the tool hangs or exits.                                   *)
(*                                                                         *)
(* None of it holds by itself: a call starts to read with lines of earlier *)
(* scripts in front of its own.  What saves it is how few they can be.     *)
(* Whoever returned last has read a line of the latest script, or a        *)
(* COMMAND_DONE of the one before, and the lines come in the order of the  *)
(* scripts: so only the latest script can have lines left, or be left to   *)
(* execute, and it has no marker to print any more.                        *)
(***************************************************************************)
EXTENDS TclSession, SequenceTheorems, FiniteSetTheorems, WellFoundedInduction, TLAPS

\* The lines only a script that programs, resets or measures prints.
Own(l) == l.kind \in {"marker", "reading"}

\* The boards a set of lines lists for a script.
Listed(S, r) == {l.n : l \in {t \in S : t.kind = "target" /\ t.run = r}}

\* What a phase of the call says of the process and of the call itself.
Shape ==
    /\ call.phase = "free" => call = Nothing
    /\ call.phase \in {"writing", "reading"} => call.command \in Scripts
    /\ call.phase = "starting" => call.command \in Scripts \cup {"start"}
    /\ call.phase \in {"starting", "writing"} => call.got = {}
    /\ process = "starting" => call.phase \in {"starting", "stopping"}
    /\ call.phase = "starting" =>
           /\ stdin = << >>
           /\ Len(pipe) <= 1
           /\ process = "starting" => pipe = << >>
           /\ \A i \in 1..Len(pipe) : pipe[i].kind = "ready"

\* The lines come script by script; a marker or a reading is the first line of
\* its script and COMMAND_DONE the last.
Ordered ==
    /\ \A i, j \in 1..Len(pipe) : i < j =>
           /\ pipe[i].run <= pipe[j].run
           /\ pipe[i].kind = "done" \/ Own(pipe[j]) => pipe[i].run < pipe[j].run
    /\ \A i \in 1..Len(pipe), j \in 1..Len(stdin) : pipe[i].run < stdin[j].run
    /\ \A i, j \in 1..Len(stdin) : i < j => stdin[i].run < stdin[j].run

\* Between two reads only the latest script has left something, and nothing
\* that a later call could take for its own.
AtRest ==
    /\ \A i \in 1..Len(pipe) : pipe[i].run = runs /\ ~Own(pipe[i])
    /\ \A i \in 1..Len(stdin) : stdin[i] = [command |-> "discover", run |-> runs]

\* While a call reads, there is its own script and what the one before left.
Reading ==
    /\ runs >= 1
    /\ \A i \in 1..Len(pipe) :
           /\ pipe[i].run \in {runs - 1, runs}
           /\ Own(pipe[i]) => pipe[i].run = runs /\ pipe[i].kind = Awaited(call.command)
    /\ \A i \in 1..Len(stdin) :
           \/ stdin[i] = [command |-> call.command, run |-> runs]
           \/ stdin[i] = [command |-> "discover", run |-> runs - 1]
    /\ \A l \in call.got :
           /\ l.run \in {runs - 1, runs}
           /\ ~Own(l)
           /\ l.kind # Awaited(call.command)
           /\ \A j \in 1..Len(stdin) : l.run < stdin[j].run

\* Before a discovery's own COMMAND_DONE stand all the boards of the hub.
Complete ==
    \A i \in 1..Len(pipe) :
        pipe[i].kind = "done" /\ pipe[i].ok /\ pipe[i].run = runs =>
            Listed(call.got \cup {pipe[j] : j \in 1..(i - 1)}, runs) = DOMAIN Contexts(chain)

\* The results that have been returned.
Answered == OkIsOwn /\ LagsByOne

Inv ==
    /\ TypeOK
    /\ Shape
    /\ call.phase # "stopping" => Ordered
    /\ call.phase \in {"free", "writing"} => AtRest
    /\ call.phase = "reading" => Reading
    /\ call.phase = "reading" /\ call.command = "discover" => Complete
    /\ Answered

-----------------------------------------------------------------------------
(* The choice of targets, for every list of them *)

\* Numbers have a least one, and up to a bound a greatest one.
LEMMA FirstIs ==
    ASSUME NEW S \in SUBSET Nat, S # {}
    PROVE  First(S) \in S /\ \A j \in S : First(S) <= j
<1> DEFINE R == {ss \in Nat \X Nat : ss[1] < ss[2]}
<1>1. IsWellFoundedOn(R, Nat)
  BY NatLessThanWellFounded DEF OpToRel
<1> HIDE DEF R
<1>2. PICK i \in S : \A j \in S : ~(<<j, i>> \in R)
  BY <1>1, WFMin
<1>3. \A j \in S : i <= j
  <2> SUFFICES ASSUME NEW j \in S PROVE i <= j
    OBVIOUS
  <2>1. i \in Nat /\ j \in Nat
    OBVIOUS
  <2>2. ~(j < i)
    BY <1>2, <2>1 DEF R
  <2> QED
    BY <2>1, <2>2
<1> QED
  BY <1>2, <1>3 DEF First

LEMMA LastIs ==
    ASSUME NEW n \in Nat, NEW S \in SUBSET (1..n), S # {}
    PROVE  Last(S) \in S
<1> DEFINE U == {n - i : i \in S}
<1>1. U \in SUBSET Nat /\ U # {}
  <2>1. \A i \in S : n - i \in Nat
    OBVIOUS
  <2> QED
    BY <2>1
<1>2. First(U) \in U /\ \A j \in U : First(U) <= j
  BY <1>1, FirstIs
<1>3. PICK i \in S : First(U) = n - i
  BY <1>2
<1>4. \A j \in S : j <= i
  <2> SUFFICES ASSUME NEW j \in S PROVE j <= i
    OBVIOUS
  <2>1. n - i <= n - j
    BY <1>2, <1>3
  <2> QED
    BY <2>1
<1> QED
  BY <1>4 DEF Last

\* The places in a list can be told in their order.
InOrder(f) == \A i, j \in DOMAIN f : i < j => f[i] < f[j]
Listable(m) ==
    \A S \in SUBSET (1..m) :
        /\ IsFiniteSet(S)
        /\ \E f \in [1..Cardinality(S) -> S] : InOrder(f)

LEMMA ListOneMore == ASSUME NEW m \in Nat, Listable(m) PROVE Listable(m + 1)
<1> SUFFICES ASSUME NEW S \in SUBSET (1..(m + 1))
             PROVE  IsFiniteSet(S) /\ \E f \in [1..Cardinality(S) -> S] : InOrder(f)
  BY DEF Listable
<1> DEFINE T == S \ {m + 1}
           c == Cardinality(T)
<1>1. T \in SUBSET (1..m)
  OBVIOUS
<1>2. IsFiniteSet(T) /\ \E f \in [1..c -> T] : InOrder(f)
  BY <1>1 DEF Listable
<1>3. c \in Nat
  BY <1>2, FS_CardinalityType
<1>4. CASE m + 1 \notin S
  <2>1. T = S
    BY <1>4
  <2> QED
    BY <1>2, <2>1
<1>5. CASE m + 1 \in S
  <2>1. S = T \cup {m + 1} /\ m + 1 \notin T
    BY <1>5
  <2> HIDE DEF T
  <2>2. IsFiniteSet(S) /\ Cardinality(S) = c + 1
    BY <1>2, <2>1, FS_AddElement
  <2>3. PICK g \in [1..c -> T] : InOrder(g)
    BY <1>2
  <2> HIDE DEF c
  <2> DEFINE f == [i \in 1..(c + 1) |-> IF i = c + 1 THEN m + 1 ELSE g[i]]
  <2>4. f \in [1..(c + 1) -> S]
    BY <1>3, <2>1, <2>3
  <2>5. ASSUME NEW i \in 1..(c + 1), NEW j \in 1..(c + 1), i < j PROVE f[i] < f[j]
    <3>0. i \in 1..c /\ i # c + 1
      BY <1>3, <2>5
    <3>1. i \in 1..c /\ f[i] = g[i] /\ g[i] \in 1..m
      BY <1>1, <2>3, <3>0
    <3>2. CASE j = c + 1
      BY <3>1, <3>2
    <3>3. CASE j # c + 1
      <4>1. j \in 1..c /\ f[j] = g[j]
        BY <1>3, <3>3
      <4> QED
        BY <2>3, <2>5, <3>1, <4>1 DEF InOrder
    <3> QED
      BY <3>2, <3>3
  <2>6. InOrder(f)
    BY <2>5 DEF InOrder
  <2> QED
    BY <2>2, <2>4, <2>6
<1> QED
  BY <1>4, <1>5

LEMMA AllListable == \A m \in Nat : Listable(m)
<1> DEFINE S == {m \in Nat : ~Listable(m)}
<1>1. Listable(0)
  <2>1. IsFiniteSet({}) /\ Cardinality({}) = 0
    BY FS_EmptySet
  <2>2. SUBSET (1..0) = {{}}
    OBVIOUS
  <2>3. InOrder([i \in {} |-> i]) /\ [i \in {} |-> i] \in [1..0 -> {}]
    BY DEF InOrder
  <2> QED
    BY <2>1, <2>2, <2>3 DEF Listable
<1>2. ASSUME S # {} PROVE FALSE
  <2>1. First(S) \in S /\ \A j \in S : First(S) <= j
    BY <1>2, FirstIs
  <2>2. First(S) \in Nat /\ ~Listable(First(S))
    BY <2>1
  <2>3. First(S) # 0
    BY <1>1, <2>2
  <2>4. First(S) - 1 \in Nat /\ First(S) - 1 \notin S
    BY <2>1, <2>2, <2>3
  <2>5. Listable(First(S) - 1)
    BY <2>4
  <2>6. Listable((First(S) - 1) + 1)
    BY <2>4, <2>5, ListOneMore
  <2> QED
    BY <2>2, <2>6
<1> QED
  BY <1>2

Hub(c) == Len(c) \in Nat /\ DOMAIN c = 1..Len(c)

\* Every line of a listing is about an FPGA of the hub.
LEMMA ListedFpgas ==
    ASSUME NEW c, Hub(c)
    PROVE  \E n \in Nat : /\ DOMAIN Fpgas(c) = 1..n
                          /\ \A i \in 1..n : Fpgas(c)[i] \in 1..Len(c) /\ "fpga" \in c[Fpgas(c)[i]].is
<1> DEFINE places == {i \in DOMAIN c : "fpga" \in c[i].is}
<1>1. places \in SUBSET (1..Len(c)) /\ Len(c) \in Nat
  BY DEF Hub
<1>2. /\ Cardinality(places) \in Nat
      /\ \E f \in [1..Cardinality(places) -> places] : InOrder(f)
  BY <1>1, AllListable, FS_CardinalityType DEF Listable
<1>3. Fpgas(c) \in [1..Cardinality(places) -> places]
  BY <1>2 DEF Fpgas, InOrder
<1> QED
  BY <1>1, <1>2, <1>3

\* What is chosen fits: the operators choose among the places they should.
LEMMA CoreFits ==
    ASSUME NEW c, Hub(c), NEW cable
    PROVE  Fits(c, cable, SelectedCore(c, cable), "processor", {i \in DOMAIN c : "#0" \in c[i].is})
<1> DEFINE cores == On(c, cable, "processor")
           zeroes == {i \in cores : "#0" \in c[i].is}
<1>1. cores \in SUBSET Nat /\ zeroes \in SUBSET cores
  BY DEF On, Hub
<1>2. zeroes = cores \cap {i \in DOMAIN c : "#0" \in c[i].is}
  BY DEF On
<1>3. CASE cores = {}
  BY <1>3 DEF SelectedCore, Fits
<1>4. CASE cores # {} /\ zeroes = {}
  <2>1. First(cores) \in cores
    BY <1>1, <1>4, FirstIs
  <2> QED
    BY <1>2, <1>4, <2>1 DEF SelectedCore, Fits
<1>5. CASE cores # {} /\ zeroes # {}
  <2>1. First(zeroes) \in zeroes
    BY <1>1, <1>5, FirstIs
  <2> QED
    BY <1>2, <1>5, <2>1 DEF SelectedCore, Fits
<1> QED
  BY <1>3, <1>4, <1>5

LEMMA DapFits ==
    ASSUME NEW c, Hub(c), NEW cable
    PROVE  Fits(c, cable, SelectedDap(c, cable), "dap", {i \in DOMAIN c : c[i].level = 0})
<1> DEFINE daps == On(c, cable, "dap")
           roots == {i \in daps : c[i].level = 0}
<1>1. daps \in SUBSET (1..Len(c)) /\ roots \in SUBSET daps /\ Len(c) \in Nat
  BY DEF On, Hub
<1>2. roots = daps \cap {i \in DOMAIN c : c[i].level = 0}
  BY DEF On
<1>3. CASE daps = {}
  BY <1>3 DEF SelectedDap, Fits
<1>4. CASE daps # {} /\ roots = {}
  <2>1. First(daps) \in daps
    BY <1>1, <1>4, FirstIs
  <2> QED
    BY <1>2, <1>4, <2>1 DEF SelectedDap, Fits
<1>5. CASE daps # {} /\ roots # {}
  <2>1. Last(roots) \in roots
    BY <1>1, <1>5, LastIs
  <2> QED
    BY <1>2, <1>5, <2>1 DEF SelectedDap, Fits
<1> QED
  BY <1>3, <1>4, <1>5

LEMMA ContextsAreBoards ==
    ASSUME NEW c, Hub(c), NEW n \in DOMAIN Contexts(c)
    PROVE  IsBoard(c, Contexts(c)[n])
<1> DEFINE i == Fpgas(c)[n]
           b == Contexts(c)[n]
<1>1. i \in DOMAIN c /\ "fpga" \in c[i].is
  BY ListedFpgas DEF Contexts, Hub
<1>2. /\ b.cable = c[i].cable /\ b.fpga = c[i].ctx
      /\ b.core = SelectedCore(c, b.cable) /\ b.dap = SelectedDap(c, b.cable)
  BY DEF Contexts
<1> HIDE DEF b
<1>3. i \in On(c, b.cable, "fpga")
  BY <1>1, <1>2 DEF On
<1> HIDE DEF i
<1>4. /\ Fits(c, b.cable, b.core, "processor", {j \in DOMAIN c : "#0" \in c[j].is})
      /\ Fits(c, b.cable, b.dap, "dap", {j \in DOMAIN c : c[j].level = 0})
  BY <1>2, CoreFits, DapFits
<1>5. \E j \in On(c, b.cable, "fpga") : c[j].ctx = b.fpga
  BY <1>2, <1>3 DEF i
<1> QED
  BY <1>4, <1>5 DEF IsBoard, b

-----------------------------------------------------------------------------
(* What a script prints *)

\* The lines of a script carry its number, begin with its marker or reading if
\* it has one, end with COMMAND_DONE, and list every board if it discovers.
LEMMA OutputsShape ==
    ASSUME TypeOK, NEW s \in [command : Scripts, run : Nat], NEW out \in Outputs(s)
    PROVE  /\ out \in Seq(Lines)
           /\ \A i \in 1..Len(out) :
                 /\ out[i].run = s.run
                 /\ out[i].kind = "done" => i = Len(out)
                 /\ Own(out[i]) => i = 1 /\ s.command # "discover"
                                   /\ out[i].kind = Awaited(s.command)
                 /\ s.command = "discover" /\ out[i].kind = "done" /\ out[i].ok =>
                        Listed({out[j] : j \in 1..(i - 1)}, s.run) = DOMAIN Contexts(chain)
<1>. DEFINE Ok == Line("done", s.run, TRUE, 0)
            Failed == Line("done", s.run, FALSE, 0)
            L(i) == Line("target", s.run, TRUE, i)
            T == [i \in DOMAIN Contexts(chain) |-> L(i)]
<1>1. PICK n \in Nat : DOMAIN Contexts(chain) = 1..n
  BY ChainsAssumption, ListedFpgas DEF TypeOK, Contexts, Hub
<1>2. /\ Ok \in Lines
      /\ Failed \in Lines
      /\ \A i \in 1..n : L(i) \in Lines
  BY DEF Line, Lines
<1>3. /\ Ok.run = s.run /\ Ok.kind = "done"
      /\ Failed.run = s.run /\ Failed.kind = "done" /\ Failed.ok = FALSE
      /\ \A i : L(i).run = s.run /\ L(i).kind = "target" /\ L(i).n = i
  BY DEF Line
<1>. HIDE DEF Ok, Failed, L
<1>4. CASE s.command = "discover"
  <2>1. CASE out = Append(T, Ok)
    <3>1. /\ T \in Seq(Lines)
          /\ Len(T) = n
          /\ \A i \in 1..n : T[i] = L(i)
      <4>1. [i \in 1..n |-> L(i)] \in Seq(Lines)
        BY <1>2, IsASeq
      <4>2. T = [i \in 1..n |-> L(i)]
        BY <1>1
      <4>3. Len(T) \in Nat /\ DOMAIN T = 1..Len(T)
        BY <4>1, <4>2, LenProperties
      <4>. QED  BY <4>1, <4>2, <4>3
    <3>. HIDE DEF T
    <3>2. /\ out \in Seq(Lines)
          /\ Len(out) = n + 1
          /\ \A i \in 1..n : out[i] = L(i)
          /\ out[n + 1] = Ok
      BY <1>2, <2>1, <3>1, AppendProperties
    <3>3. Listed({out[j] : j \in 1..n}, s.run) = 1..n
      <4>1. {t \in {out[j] : j \in 1..n} : t.kind = "target" /\ t.run = s.run}
            = {out[j] : j \in 1..n}
        BY <1>3, <3>2
      <4>2. {l.n : l \in {out[j] : j \in 1..n}} = 1..n
        BY <1>3, <3>2
      <4>. QED  BY <4>1, <4>2 DEF Listed
    <3>4. \A i \in 1..Len(out) : i \in 1..n \/ i = Len(out)
      BY <3>2
    <3>5. \A i \in 1..n : out[i].run = s.run /\ out[i].kind = "target"
      BY <1>3, <3>2
    <3>6. out[n + 1].run = s.run /\ out[n + 1].kind = "done" /\ Len(out) - 1 = n
      BY <1>3, <3>2
    <3>. QED  BY <1>1, <3>2, <3>3, <3>4, <3>5, <3>6 DEF Own
  <2>2. CASE out = <<Failed>>
    <3>1. out \in Seq(Lines) /\ Len(out) = 1 /\ out[1] = Failed
      BY <1>2, <2>2
    <3>. QED  BY <1>3, <3>1 DEF Own
  <2>. QED  BY <1>4, <2>1, <2>2 DEF Outputs, Ok, Failed, L, T
<1>5. CASE s.command # "discover"
  <2>1. CASE out = <<Failed>>
    <3>1. out \in Seq(Lines) /\ Len(out) = 1 /\ out[1] = Failed
      BY <1>2, <2>1
    <3>. QED  BY <1>3, <1>5, <3>1 DEF Own
  <2>2. ASSUME NEW ok \in BOOLEAN, out = <<Line(Awaited(s.command), s.run, ok, 0), Ok>>
        PROVE  /\ out \in Seq(Lines)
               /\ \A i \in 1..Len(out) :
                     /\ out[i].run = s.run
                     /\ out[i].kind = "done" => i = Len(out)
                     /\ Own(out[i]) => i = 1 /\ out[i].kind = Awaited(s.command)
    <3>. DEFINE F == Line(Awaited(s.command), s.run, ok, 0)
    <3>1. F \in Lines /\ F.run = s.run /\ F.kind = Awaited(s.command) /\ F.kind # "done"
      BY <1>5 DEF Line, Lines, Awaited
    <3>. HIDE DEF F
    <3>2. out = <<F, Ok>>
      BY <2>2 DEF F
    <3>3. out \in Seq(Lines) /\ Len(out) = 2 /\ out[1] = F /\ out[2] = Ok
      BY <1>2, <3>1, <3>2
    <3>. QED  BY <1>3, <3>1, <3>3 DEF Own
  <2>3. \/ out = <<Failed>>
        \/ \E ok \in BOOLEAN : out = <<Line(Awaited(s.command), s.run, ok, 0), Ok>>
    <3>1. CASE s.command = "read_telemetry"
      BY <3>1 DEF Outputs, Awaited, Ok, Failed
    <3>2. CASE s.command # "read_telemetry"
      BY <1>5, <3>2 DEF Outputs, Awaited, Ok, Failed
    <3>. QED  BY <3>1, <3>2
  <2>. QED  BY <1>5, <2>1, <2>2, <2>3
<1>. QED  BY <1>4, <1>5


-----------------------------------------------------------------------------
(* The invariant *)

\* Before the first call nothing was printed.
LEMMA InvInit == ASSUME Init PROVE Inv
<1>1. TypeOK
  BY DEF Init, TypeOK, Nothing, NoResult, Lines
<1>2. call.phase = "free" /\ pipe = << >> /\ stdin = << >> /\ ~result.ok
  BY DEF Init, Nothing, NoResult
<1>3. Shape
  BY <1>2 DEF Init, Shape
<1>4. Ordered /\ AtRest
  BY <1>2 DEF Ordered, AtRest
<1>5. Answered
  BY <1>2 DEF Answered, OkIsOwn, LagsByOne
<1>. QED  BY <1>1, <1>2, <1>3, <1>4, <1>5 DEF Inv

\* The numbers of scripts can be compared.
LEMMA RunsAreNumbers ==
    ASSUME TypeOK
    PROVE  /\ Len(pipe) \in Nat /\ \A i \in 1..Len(pipe) : pipe[i].run \in Nat
           /\ Len(stdin) \in Nat /\ \A i \in 1..Len(stdin) : stdin[i].run \in Nat
           /\ \A l \in call.got : l.run \in Nat
           /\ runs \in Nat
<1>1. /\ pipe \in Seq(Lines) /\ stdin \in Seq([command : Scripts, run : Nat])
      /\ call.got \subseteq Lines /\ runs \in Nat
  BY DEF TypeOK
<1>2. \A i \in 1..Len(pipe) : pipe[i] \in Lines
  BY <1>1, ElementOfSeq
<1>3. \A i \in 1..Len(stdin) : stdin[i] \in [command : Scripts, run : Nat]
  BY <1>1, ElementOfSeq
<1>4. \A l \in Lines : l.run \in Nat
  BY DEF Lines
<1>5. Len(pipe) \in Nat /\ Len(stdin) \in Nat
  BY <1>1, LenProperties
<1>. QED  BY <1>1, <1>2, <1>3, <1>4, <1>5

\* A step that leaves the results alone leaves what they say alone.
LEMMA AnsweredStays ==
    ASSUME Answered, UNCHANGED <<result, chain>> PROVE Answered'
BY DEF Answered, OkIsOwn, LagsByOne, FirstReading, Listed

\* A tool that becomes ready is one that a call waits for, or is to be stopped.
LEMMA ToolReadyStep == ASSUME Inv, ToolReady PROVE Inv'
<1>. USE DEF ToolReady
<1>1. TypeOK'
  <2>1. Line("ready", 0, TRUE, 0) \in Lines
    BY DEF Line, Lines
  <2>. QED  BY <2>1, AppendProperties DEF Inv, TypeOK
<1>2. CASE call.phase = "stopping"
  BY <1>1, <1>2, AnsweredStays DEF Inv, Shape
<1>3. CASE call.phase = "starting"
  <2>1. pipe = << >> /\ stdin = << >>
    BY <1>3 DEF Inv, Shape
  <2>2. Len(pipe') = 1 /\ pipe'[1] = Line("ready", 0, TRUE, 0)
    BY <2>1
  <2>3. Shape'
    BY <1>3, <2>1, <2>2 DEF Inv, Shape, Line
  <2>4. Ordered'
    BY <2>1, <2>2 DEF Ordered
  <2>. QED  BY <1>1, <1>3, <2>3, <2>4, AnsweredStays DEF Inv
<1>. QED  BY <1>2, <1>3 DEF Inv, Shape

\* The lines of a script come after all that was printed before, and carry the
\* number of a script that was waiting.
LEMMA ExecutesStep == ASSUME Inv, Executes PROVE Inv'
<1>. DEFINE s == Head(stdin)
            m == Len(pipe)
<1>1. PICK out \in Outputs(s) : pipe' = pipe \o out
  BY DEF Executes
<1>2. /\ stdin \in Seq([command : Scripts, run : Nat]) /\ stdin # << >>
      /\ pipe \in Seq(Lines) /\ m \in Nat
      /\ UNCHANGED <<tool, chain, process, call, runs, result>>
      /\ process = "ready" /\ stdin' = Tail(stdin)
  BY LenProperties DEF Inv, TypeOK, Executes
<1>3. /\ s \in [command : Scripts, run : Nat]
      /\ Len(stdin) \in Nat \ {0} /\ s = stdin[1]
      /\ stdin' \in Seq([command : Scripts, run : Nat])
      /\ Len(stdin') = Len(stdin) - 1
      /\ \A i \in 1..Len(stdin') : stdin'[i] = stdin[i + 1]
  <2>. HIDE DEF s
  <2>1. s \in [command : Scripts, run : Nat] /\ s = stdin[1]
    <3>1. Head(stdin) \in [command : Scripts, run : Nat]
      BY <1>2, HeadTailProperties
    <3>2. Head(stdin) = stdin[1]
      BY <1>2
    <3>. QED  BY <3>1, <3>2 DEF s
  <2>2. Len(stdin) \in Nat \ {0}
    BY <1>2, EmptySeq
  <2>3. /\ Tail(stdin) \in Seq([command : Scripts, run : Nat])
        /\ Len(Tail(stdin)) = Len(stdin) - 1
        /\ \A i \in 1..Len(Tail(stdin)) : Tail(stdin)[i] = stdin[i + 1]
    BY <1>2, HeadTailProperties
  <2>. QED  BY <1>2, <2>1, <2>2, <2>3
<1>4. /\ out \in Seq(Lines) /\ Len(out) \in Nat
      /\ \A i \in 1..Len(out) :
            /\ out[i].run = s.run
            /\ out[i].kind = "done" => i = Len(out)
            /\ Own(out[i]) => i = 1 /\ s.command # "discover"
                              /\ out[i].kind = Awaited(s.command)
            /\ s.command = "discover" /\ out[i].kind = "done" /\ out[i].ok =>
                   Listed({out[j] : j \in 1..(i - 1)}, s.run) = DOMAIN Contexts(chain)
  <2>. HIDE DEF s
  <2>. QED  BY <1>3, OutputsShape, LenProperties DEF Inv
<1>. HIDE DEF s
<1>5. /\ pipe' \in Seq(Lines)
      /\ Len(pipe') = m + Len(out)
      /\ \A i \in 1..Len(pipe') : pipe'[i] = IF i <= m THEN pipe[i] ELSE out[i - m]
  BY <1>1, <1>2, <1>4, ConcatProperties
<1>. HIDE DEF m
<1>6. \A i \in 1..Len(pipe') :
        \/ i \in 1..m /\ pipe'[i] = pipe[i]
        \/ i - m \in 1..Len(out) /\ pipe'[i] = out[i - m] /\ pipe'[i].run = s.run
  <2>. TAKE i \in 1..Len(pipe')
  <2>1. CASE i <= m
    BY <1>2, <1>5, <2>1
  <2>2. CASE ~(i <= m)
    <3>1. i - m \in 1..Len(out)
      BY <1>2, <1>4, <1>5, <2>2
    <3>. QED  BY <1>4, <1>5, <2>2, <3>1
  <2>. QED  BY <2>1, <2>2
<1>7. /\ \A i \in 1..m : pipe[i].run \in Nat
      /\ \A i \in 1..Len(stdin) : stdin[i].run \in Nat
      /\ s.run \in Nat /\ runs \in Nat /\ m = Len(pipe)
      /\ \A l \in call.got : l.run \in Nat
      /\ \A i \in 1..m : i \in 1..Len(pipe') /\ pipe'[i] = pipe[i]
      /\ 1 \in 1..Len(stdin)
      /\ \A j \in 1..Len(stdin') : j + 1 \in 1..Len(stdin) /\ stdin'[j] = stdin[j + 1]
  <2>1. s.run \in Nat
    BY <1>3
  <2>2. \A i \in 1..m : i \in 1..Len(pipe') /\ pipe'[i] = pipe[i]
    BY <1>2, <1>4, <1>5
  <2>3. 1 \in 1..Len(stdin)
    BY <1>3
  <2>4. \A j \in 1..Len(stdin') : j + 1 \in 1..Len(stdin) /\ stdin'[j] = stdin[j + 1]
    BY <1>3
  <2>. QED  BY <2>1, <2>2, <2>3, <2>4, RunsAreNumbers DEF Inv, m
<1>8. TypeOK'
  BY <1>2, <1>3, <1>5 DEF Inv, TypeOK
<1>9. Shape' /\ call.phase # "starting"
  BY <1>2 DEF Inv, Shape
<1>10. ASSUME Ordered PROVE Ordered'
  <2>1. ASSUME NEW i \in 1..Len(pipe'), NEW j \in 1..Len(pipe'), i < j
        PROVE  /\ pipe'[i].run <= pipe'[j].run
               /\ pipe'[i].kind = "done" \/ Own(pipe'[j]) => pipe'[i].run < pipe'[j].run
    <3>1. CASE i \in 1..m /\ j \in 1..m
      BY <1>7, <1>10, <2>1, <3>1 DEF Ordered
    <3>2. CASE i \in 1..m /\ j - m \in 1..Len(out) /\ pipe'[j].run = s.run
      <4>1. pipe'[i].run = pipe[i].run /\ pipe[i].run < stdin[1].run
        BY <1>7, <1>10, <3>2 DEF Ordered
      <4>2. pipe'[i].run \in Nat /\ pipe'[i].run < s.run
        BY <4>1, <1>7, <1>3, <3>2
      <4>3. pipe'[j].run = s.run /\ s.run \in Nat
        BY <1>7, <3>2
      <4>4. pipe'[i].run <= pipe'[j].run /\ pipe'[i].run < pipe'[j].run
        BY <4>2, <4>3
      <4>. QED  BY <4>4
    <3>3. CASE /\ i - m \in 1..Len(out) /\ pipe'[i] = out[i - m]
               /\ j - m \in 1..Len(out) /\ pipe'[j] = out[j - m]
      <4>1. i - m # Len(out) /\ j - m # 1
        BY <1>7, <1>2, <1>4, <2>1, <3>3, SMTT(20)
      <4>2. pipe'[i].kind # "done" /\ ~Own(pipe'[j])
        BY <1>4, <3>3, <4>1
      <4>3. pipe'[i].run = s.run /\ pipe'[j].run = s.run
        BY <1>4, <3>3
      <4>. QED  BY <1>7, <4>2, <4>3
    <3>4. ~(i - m \in 1..Len(out) /\ j \in 1..m)
      BY <1>2, <1>4, <2>1
    <3>. QED  BY <1>6, <3>1, <3>2, <3>3, <3>4
  <2>2. ASSUME NEW i \in 1..Len(pipe'), NEW j \in 1..Len(stdin')
        PROVE  pipe'[i].run < stdin'[j].run
    <3>1. 1 < j + 1
      BY <1>3
    <3>2. s.run < stdin'[j].run
      BY <1>7, <1>3, <1>10, <3>1 DEF Ordered
    <3>3. CASE i \in 1..m /\ pipe'[i] = pipe[i]
      BY <1>7, <1>10, <3>3 DEF Ordered
    <3>. QED  BY <1>6, <3>2, <3>3
  <2>3. ASSUME NEW i \in 1..Len(stdin'), NEW j \in 1..Len(stdin'), i < j
        PROVE  stdin'[i].run < stdin'[j].run
    <3>1. i + 1 < j + 1
      BY <1>3, <2>3
    <3>. QED  BY <1>7, <1>10, <3>1 DEF Ordered
  <2>. QED  BY <2>1, <2>2, <2>3 DEF Ordered
<1>11. ASSUME AtRest PROVE AtRest'
  <2>1. s = [command |-> "discover", run |-> runs]
    BY <1>3, <1>11 DEF AtRest
  <2>2. ASSUME NEW i \in 1..Len(pipe') PROVE pipe'[i].run = runs /\ ~Own(pipe'[i])
    <3>1. CASE i \in 1..m /\ pipe'[i] = pipe[i]
      BY <1>11, <3>1 DEF AtRest, m
    <3>2. CASE i - m \in 1..Len(out) /\ pipe'[i] = out[i - m]
      BY <1>4, <2>1, <3>2
    <3>. QED  BY <1>6, <3>1, <3>2
  <2>3. \A i \in 1..Len(stdin') : stdin'[i] = [command |-> "discover", run |-> runs]
    BY <1>3, <1>11 DEF AtRest
  <2>. QED  BY <1>2, <2>2, <2>3 DEF AtRest
<1>12. ASSUME Ordered, Reading PROVE Reading'
  <2>1. \/ s.command = call.command /\ s.run = runs
        \/ s.command = "discover" /\ s.run = runs - 1
    <3>1. \/ s = [command |-> call.command, run |-> runs]
          \/ s = [command |-> "discover", run |-> runs - 1]
      BY <1>3, <1>12 DEF Reading
    <3>. QED  BY <3>1
  <2>2. ASSUME NEW i \in 1..Len(pipe')
        PROVE  /\ pipe'[i].run \in {runs - 1, runs}
               /\ Own(pipe'[i]) => pipe'[i].run = runs /\ pipe'[i].kind = Awaited(call.command)
    <3>1. CASE i \in 1..m /\ pipe'[i] = pipe[i]
      BY <1>12, <3>1 DEF Reading, m
    <3>2. CASE i - m \in 1..Len(out) /\ pipe'[i] = out[i - m]
      <4>1. pipe'[i].run = s.run /\ s.run \in {runs - 1, runs}
        BY <1>4, <2>1, <3>2
      <4>2. ASSUME Own(pipe'[i]) PROVE s.run = runs /\ s.command = call.command
        BY <1>4, <2>1, <3>2, <4>2
      <4>3. Own(pipe'[i]) => pipe'[i].kind = Awaited(s.command)
        BY <1>4, <3>2
      <4>. QED  BY <4>1, <4>2, <4>3
    <3>. QED  BY <1>6, <3>1, <3>2
  <2>3. \A i \in 1..Len(stdin') :
           \/ stdin'[i] = [command |-> call.command, run |-> runs]
           \/ stdin'[i] = [command |-> "discover", run |-> runs - 1]
    BY <1>3, <1>12 DEF Reading
  <2>4. ASSUME NEW l \in call.got, NEW j \in 1..Len(stdin') PROVE l.run < stdin'[j].run
    BY <1>3, <1>12 DEF Reading
  <2>. QED  BY <1>2, <1>12, <2>2, <2>3, <2>4 DEF Reading
<1>13. ASSUME Ordered, Reading, Complete, call.command = "discover" PROVE Complete'
  <2>. SUFFICES ASSUME NEW i \in 1..Len(pipe'),
                       pipe'[i].kind = "done", pipe'[i].ok, pipe'[i].run = runs
                PROVE  Listed(call.got \cup {pipe'[j] : j \in 1..(i - 1)}, runs)
                       = DOMAIN Contexts(chain)
    BY <1>2 DEF Complete
  <2>1. CASE i \in 1..m
    <3>1. \A j \in 1..(i - 1) : pipe'[j] = pipe[j]
      BY <1>7, <1>2, <2>1
    <3>2. {pipe'[j] : j \in 1..(i - 1)} = {pipe[j] : j \in 1..(i - 1)}
      BY <3>1
    <3>3. i \in 1..Len(pipe) /\ pipe'[i] = pipe[i]
      BY <1>7, <2>1
    <3>. QED  BY <1>2, <1>13, <3>2, <3>3 DEF Complete
  <2>2. CASE i - m \in 1..Len(out)
    <3>1. pipe'[i] = out[i - m] /\ s.run = runs /\ s.command = "discover"
      <4>1. ~(i <= m)
        BY <1>2, <1>4, <2>2
      <4>2. pipe'[i] = out[i - m] /\ s.run = runs
        BY <1>4, <1>5, <2>2, <4>1
      <4>3. \/ s = [command |-> call.command, run |-> runs]
            \/ s = [command |-> "discover", run |-> runs - 1]
        BY <1>3, <1>13 DEF Reading
      <4>. QED  BY <1>13, <4>2, <4>3
    <3>. DEFINE O == {out[j] : j \in 1..(i - m - 1)}
                P == {pipe[j] : j \in 1..m}
    <3>2. Listed(O, runs) = DOMAIN Contexts(chain)
      BY <1>4, <2>2, <3>1
    <3>3. {pipe'[j] : j \in 1..(i - 1)} = P \cup O
      <4>1. \A j \in 1..m : j \in 1..(i - 1) /\ j \in 1..Len(pipe') /\ pipe'[j] = pipe[j]
        BY <1>2, <1>4, <1>5, <2>2
      <4>2. \A j \in 1..(i - m - 1) :
               j + m \in 1..(i - 1) /\ j + m \in 1..Len(pipe') /\ pipe'[j + m] = out[j]
        BY <1>2, <1>4, <1>5, <2>2
      <4>3. \A j \in 1..(i - 1) :
               \/ j \in 1..m /\ pipe'[j] = pipe[j]
               \/ j - m \in 1..(i - m - 1) /\ pipe'[j] = out[j - m]
        BY <1>2, <1>4, <1>5, <1>6, <2>2
      <4>. QED  BY <4>1, <4>2, <4>3
    <3>4. \A l \in call.got \cup P : l.run # runs
      <4>1. 1 \in 1..Len(stdin)
        BY <1>3
      <4>2. \A l \in call.got \cup P : l.run < s.run
        BY <1>3, <1>13, <4>1 DEF Ordered, Reading, m
      <4>. QED  BY <1>3, <3>1, <4>2
    <3>. HIDE DEF O, P
    <3>5. Listed(call.got \cup (P \cup O), runs) = Listed(O, runs)
      BY <3>4 DEF Listed
    <3>. QED  BY <3>2, <3>3, <3>5
  <2>. QED  BY <1>6, <2>1, <2>2
<1>. QED  BY <1>2, <1>8, <1>9, <1>10, <1>11, <1>12, <1>13, AnsweredStays DEF Inv

\* A tool that exits leaves what it has printed.
LEMMA ExitsStep == ASSUME Inv, Exits PROVE Inv'
<1>1. UNCHANGED <<tool, chain, stdin, pipe, call, runs, result>> /\ process' = "exited"
  BY DEF Exits
<1>2. TypeOK' /\ Shape' /\ (Ordered => Ordered') /\ (AtRest => AtRest')
      /\ (Reading => Reading') /\ (Complete => Complete')
  <2>1. TypeOK'
    BY <1>1 DEF Inv, TypeOK
  <2>2. Shape'
    BY <1>1 DEF Inv, Shape
  <2>. QED  BY <1>1, <2>1, <2>2 DEF Ordered, AtRest, Reading, Complete
<1>. QED  BY <1>1, <1>2, AnsweredStays DEF Inv

\* A tool that is started has printed nothing.
LEMMA LaunchStep ==
    ASSUME Inv, NEW c \in Scripts \cup {"start"}, Launch(c), UNCHANGED <<tool, chain, runs, result>>
    PROVE  Inv'
<1>1. /\ process' = "starting" /\ stdin' = << >> /\ pipe' = << >>
      /\ call' = [command |-> c, phase |-> "starting", got |-> {}]
  BY DEF Launch
<1>2. TypeOK'
  BY <1>1 DEF Inv, TypeOK
<1>3. Shape' /\ Ordered'
  BY <1>1 DEF Shape, Ordered
<1>. QED  BY <1>1, <1>2, <1>3, AnsweredStays DEF Inv

\* A call that takes the lock finds the tool at rest, or starts a new one.
LEMMA RunStep == ASSUME Inv, NEW c \in Scripts, Run(c) PROVE Inv'
<1>1. call.phase = "free" /\ UNCHANGED <<tool, chain, runs, result>>
  BY DEF Run, Nothing
<1>2. CASE Running
  <2>1. call' = [command |-> c, phase |-> "writing", got |-> {}]
        /\ UNCHANGED <<process, stdin, pipe>>
    BY <1>2 DEF Run
  <2>2. TypeOK' /\ Shape'
    BY <1>1, <2>1 DEF Inv, TypeOK, Shape
  <2>3. Ordered' /\ AtRest'
    BY <1>1, <2>1 DEF Inv, Ordered, AtRest
  <2>. QED  BY <1>1, <2>1, <2>2, <2>3, AnsweredStays DEF Inv
<1>3. CASE ~Running
  BY <1>1, <1>3, LaunchStep DEF Run, Scripts
<1>. QED  BY <1>2, <1>3

\* start does the same and writes nothing.
LEMMA StartStep == ASSUME Inv, Start PROVE Inv'
BY LaunchStep DEF Start

\* What a refused call returns is no success.
LEMMA RefusesStep == ASSUME Inv, NEW c \in Scripts \cup {"start"}, Refuses(c) PROVE Inv'
<1>1. /\ UNCHANGED <<tool, chain, process, stdin, pipe, call, runs>>
      /\ result' = [command |-> c, run |-> runs, ok |-> FALSE, got |-> {}]
  BY DEF Refuses
<1>2. TypeOK' /\ Shape'
  BY <1>1 DEF Inv, TypeOK, Shape
<1>3. (Ordered => Ordered') /\ (AtRest => AtRest') /\ (Reading => Reading')
      /\ (Complete => Complete')
  BY <1>1 DEF Ordered, AtRest, Reading, Complete
<1>4. Answered'
  BY <1>1 DEF Answered, OkIsOwn, LagsByOne
<1>. QED  BY <1>1, <1>2, <1>3, <1>4 DEF Inv

\* Giving up and stopping leave the tool to Stopped.
LEMMA GivesUpStep == ASSUME Inv, GivesUp \/ Stop PROVE Inv'
<1>1. /\ call'.phase = "stopping" /\ UNCHANGED <<tool, chain, process, stdin, pipe, runs, result>>
      /\ call' \in [command : Scripts \cup {"none", "start", "stop"},
                    phase : {"free", "starting", "writing", "reading", "stopping"},
                    got : SUBSET Lines]
  BY DEF GivesUp, Stop, Inv, TypeOK
<1>2. TypeOK' /\ Shape'
  BY <1>1 DEF Inv, TypeOK, Shape
<1>. QED  BY <1>1, <1>2, AnsweredStays DEF Inv

\* A tool that was given up takes all that it has printed with it.
LEMMA StoppedStep == ASSUME Inv, Stopped PROVE Inv'
<1>1. /\ process' = "none" /\ stdin' = << >> /\ pipe' = << >> /\ call' = Nothing
      /\ UNCHANGED <<tool, chain, runs>>
      /\ result' = [command |-> call.command, run |-> runs, ok |-> call.command = "stop",
                    got |-> call.got]
  BY DEF Stopped, Returns
<1>2. TypeOK'
  BY <1>1 DEF Inv, TypeOK, Nothing
<1>3. Shape' /\ Ordered' /\ AtRest' /\ call'.phase = "free"
  BY <1>1 DEF Shape, Ordered, AtRest, Nothing
<1>4. Answered'
  <2>1. result'.ok => result'.command \notin Scripts
    BY <1>1 DEF Scripts, Programming
  <2>. QED  BY <2>1 DEF Answered, OkIsOwn, LagsByOne, Scripts
<1>. QED  BY <1>2, <1>3, <1>4 DEF Inv

\* A script that is written is numbered above all that is left of others.
LEMMA WritesStep == ASSUME Inv, Writes PROVE Inv'
<1>1. /\ call.phase = "writing" /\ call.command \in Scripts /\ call.got = {}
      /\ Ordered /\ AtRest
      /\ UNCHANGED <<tool, chain, process, pipe, result>>
  BY DEF Writes, Inv, Shape
<1>2. CASE process # "ready"
  <2>1. call'.phase = "stopping" /\ UNCHANGED <<runs, stdin>>
        /\ call' \in [command : Scripts \cup {"none", "start", "stop"},
                      phase : {"free", "starting", "writing", "reading", "stopping"},
                      got : SUBSET Lines]
    BY <1>2 DEF Writes, Inv, TypeOK
  <2>2. TypeOK' /\ Shape'
    BY <1>1, <2>1 DEF Inv, TypeOK, Shape
  <2>. QED  BY <1>1, <2>1, <2>2, AnsweredStays DEF Inv
<1>3. CASE process = "ready"
  <2>. DEFINE s == [command |-> call.command, run |-> runs + 1]
  <2>1. runs' = runs + 1 /\ call' = [call EXCEPT !.phase = "reading"] /\ runs \in Nat
    BY <1>3 DEF Writes, Inv, TypeOK
  <2>2. call'.phase = "reading" /\ call'.command = call.command /\ call'.got = {}
        /\ call' \in [command : Scripts \cup {"none", "start", "stop"},
                      phase : {"free", "starting", "writing", "reading", "stopping"},
                      got : SUBSET Lines]
    BY <1>1, <2>1 DEF Inv, TypeOK
  <2>3. /\ stdin' \in Seq([command : Scripts, run : Nat])
        /\ Len(stdin') = Len(stdin) + 1
        /\ \A i \in 1..Len(stdin) : stdin'[i] = stdin[i]
        /\ stdin'[Len(stdin) + 1] = s
    <3>1. s \in [command : Scripts, run : Nat] /\ stdin' = Append(stdin, s)
          /\ stdin \in Seq([command : Scripts, run : Nat])
      BY <1>1, <1>3, <2>1 DEF Writes, Inv, TypeOK
    <3>. HIDE DEF s
    <3>. QED  BY <3>1, AppendProperties
  <2>4. s.run = runs + 1 /\ s.command = call.command
    OBVIOUS
  <2>5. \A i \in 1..Len(stdin') :
           \/ i \in 1..Len(stdin) /\ stdin'[i] = stdin[i] /\ stdin'[i].run = runs
                                  /\ stdin'[i] = [command |-> "discover", run |-> runs]
           \/ i = Len(stdin) + 1 /\ stdin'[i] = s /\ stdin'[i].run = runs + 1
    <3>1. Len(stdin) \in Nat
      BY RunsAreNumbers DEF Inv
    <3>2. \A i \in 1..Len(stdin) : stdin[i] = [command |-> "discover", run |-> runs]
                                   /\ stdin[i].run = runs
      BY <1>1 DEF AtRest
    <3>. HIDE DEF s
    <3>. QED  BY <2>3, <2>4, <3>1, <3>2
  <2>6. TypeOK'
    <3>1. runs' \in Nat
      BY <2>1
    <3>. HIDE DEF s
    <3>. QED  BY <1>1, <2>2, <2>3, <3>1 DEF Inv, TypeOK
  <2>7. Shape'
    BY <1>1, <2>2 DEF Inv, Shape
  <2>8. Ordered'
    <3>1. ASSUME NEW i \in 1..Len(pipe), NEW j \in 1..Len(stdin') PROVE pipe[i].run < stdin'[j].run
      <4>1. CASE j \in 1..Len(stdin) /\ stdin'[j] = stdin[j]
        BY <1>1, <4>1 DEF Ordered
      <4>2. CASE stdin'[j].run = runs + 1
        BY <1>1, <2>1, <4>2 DEF AtRest
      <4>. QED  BY <2>5, <4>1, <4>2
    <3>2. ASSUME NEW i \in 1..Len(stdin'), NEW j \in 1..Len(stdin'), i < j
          PROVE  stdin'[i].run < stdin'[j].run
      <4>1. Len(stdin) \in Nat /\ i \in 1..Len(stdin)
        BY <2>3, <3>2, RunsAreNumbers DEF Inv
      <4>2. CASE j \in 1..Len(stdin)
        BY <1>1, <2>3, <3>2, <4>1, <4>2 DEF Ordered
      <4>3. CASE j = Len(stdin) + 1
        <5>1. stdin'[i].run = runs /\ stdin'[j].run = runs + 1
          BY <2>5, <4>1, <4>3
        <5>. QED  BY <2>1, <5>1
      <4>. QED  BY <2>5, <4>2, <4>3
    <3>. QED  BY <1>1, <3>1, <3>2 DEF Ordered
  <2>9. Reading'
    <3>1. runs' >= 1 /\ runs' - 1 = runs
      BY <2>1
    <3>2. \A i \in 1..Len(pipe') : pipe'[i].run = runs /\ ~Own(pipe'[i])
      BY <1>1 DEF AtRest
    <3>. QED  BY <2>1, <2>2, <2>5, <3>1, <3>2 DEF Reading
  <2>10. Complete'
    <3>1. \A i \in 1..Len(pipe') : pipe'[i].run # runs'
      BY <1>1, <2>1 DEF AtRest
    <3>. QED  BY <3>1 DEF Complete
  <2>. QED  BY <1>1, <2>2, <2>6, <2>7, <2>8, <2>9, <2>10, AnsweredStays DEF Inv
<1>. QED  BY <1>2, <1>3

-----------------------------------------------------------------------------
(* A read *)

\* What a read takes, and what it leaves.
LEMMA ReadShape ==
    ASSUME Inv, NEW n \in 1..Len(pipe), Reads(n)
    PROVE  /\ n \in Nat /\ n >= 1 /\ Len(pipe) \in Nat /\ n <= Len(pipe)
           /\ pipe' \in Seq(Lines)
           /\ Len(pipe') = Len(pipe) - n
           /\ \A i \in 1..Len(pipe') : i + n \in 1..Len(pipe) /\ pipe'[i] = pipe[i + n]
           /\ (call.got \cup {pipe[i] : i \in 1..n}) \subseteq Lines
           /\ Ordered => Ordered'
<1>1. Len(pipe) \in Nat /\ n \in Nat /\ n >= 1 /\ n <= Len(pipe) /\ pipe \in Seq(Lines)
      /\ call.got \subseteq Lines
  BY RunsAreNumbers DEF Inv, TypeOK
<1>2. pipe' = SubSeq(pipe, n + 1, Len(pipe)) /\ stdin' = stdin
  BY DEF Reads
<1>3. \A i \in 1..Len(pipe) : pipe[i] \in Lines
  BY <1>1, ElementOfSeq
<1>4. /\ pipe' \in Seq(Lines)
      /\ Len(pipe') = Len(pipe) - n
      /\ \A i \in 1..Len(pipe') : i + n \in 1..Len(pipe) /\ pipe'[i] = pipe[i + n]
  <2>1. n + 1 \in Int /\ Len(pipe) \in Int /\ \A i \in (n + 1)..Len(pipe) : pipe[i] \in Lines
    BY <1>1, <1>3
  <2>2. /\ pipe' \in Seq(Lines)
        /\ Len(pipe') = IF n + 1 <= Len(pipe) THEN Len(pipe) - (n + 1) + 1 ELSE 0
        /\ \A i \in 1..(Len(pipe) - (n + 1) + 1) : pipe'[i] = pipe[(n + 1) + i - 1]
    BY <1>2, <2>1, SubSeqProperties
  <2>3. Len(pipe') = Len(pipe) - n
    <3>1. CASE n + 1 <= Len(pipe)
      BY <1>1, <2>2, <3>1
    <3>2. CASE ~(n + 1 <= Len(pipe))
      BY <1>1, <2>2, <3>2
    <3>. QED  BY <3>1, <3>2
  <2>4. ASSUME NEW i \in 1..Len(pipe')
        PROVE  i + n \in 1..Len(pipe) /\ pipe'[i] = pipe[i + n]
    <3>1. i \in 1..(Len(pipe) - (n + 1) + 1) /\ (n + 1) + i - 1 = i + n
      BY <1>1, <2>3
    <3>2. pipe'[i] = pipe[(n + 1) + i - 1]
      BY <2>2, <3>1
    <3>. QED  BY <1>1, <2>3, <3>1, <3>2
  <2>. QED  BY <2>2, <2>3, <2>4
<1>5. \A i \in 1..n : pipe[i] \in Lines
  BY <1>1, <1>3
<1>6. ASSUME Ordered PROVE Ordered'
  <2>1. ASSUME NEW i \in 1..Len(pipe'), NEW j \in 1..Len(pipe'), i < j
        PROVE  /\ pipe'[i].run <= pipe'[j].run
               /\ pipe'[i].kind = "done" \/ Own(pipe'[j]) => pipe'[i].run < pipe'[j].run
    <3>1. i + n < j + n
      BY <1>1, <1>4, <2>1
    <3>. QED  BY <1>4, <1>6, <3>1 DEF Ordered
  <2>2. ASSUME NEW i \in 1..Len(pipe'), NEW j \in 1..Len(stdin)
        PROVE  pipe'[i].run < stdin[j].run
    BY <1>4, <1>6, <2>2 DEF Ordered
  <2>. QED  BY <1>2, <1>6, <2>1, <2>2 DEF Ordered
<1>. QED  BY <1>1, <1>4, <1>5, <1>6

\* The tool's first line is the one that start waits for.
LEMMA ReadyIsRead ==
    ASSUME Inv, NEW n \in 1..Len(pipe), Reads(n), call.phase = "starting"
    PROVE  Inv'
<1>1. /\ n = 1 /\ Len(pipe) = 1 /\ pipe' = << >> /\ stdin' = << >>
      /\ pipe[1].kind = "ready" /\ process # "starting"
      /\ call.command \in Scripts \cup {"start"} /\ call.got = {}
      /\ UNCHANGED <<tool, chain, process, stdin, runs>>
  <2>1. Len(pipe) <= 1 /\ stdin = << >> /\ \A i \in 1..Len(pipe) : pipe[i].kind = "ready"
        /\ (process = "starting" => pipe = << >>)
        /\ call.command \in Scripts \cup {"start"} /\ call.got = {}
    BY DEF Inv, Shape
  <2>2. n = 1 /\ Len(pipe) = 1 /\ Len(pipe') = 0 /\ pipe' \in Seq(Lines)
    <3>1. /\ n \in Nat /\ n >= 1 /\ Len(pipe) \in Nat /\ n <= Len(pipe)
          /\ pipe' \in Seq(Lines) /\ Len(pipe') = Len(pipe) - n
      BY ReadShape
    <3>. QED  BY <2>1, <3>1
  <2>3. pipe' = << >>
    BY <2>2, EmptySeq
  <2>. QED  BY <2>1, <2>2, <2>3 DEF Reads
<1>2. \E l \in call.got \cup {pipe[i] : i \in 1..n} : l.kind = "ready"
  BY <1>1
<1>3. CASE call.command = "start"
  <2>1. call' = Nothing
        /\ result' = [command |-> "start", run |-> runs, ok |-> TRUE, got |-> {}]
    BY <1>2, <1>3 DEF Reads, Returns
  <2>2. TypeOK'
    BY <1>1, <2>1, ReadShape DEF Inv, TypeOK, Nothing
  <2>3. Shape' /\ Ordered' /\ AtRest' /\ call'.phase = "free"
    BY <1>1, <2>1 DEF Shape, Ordered, AtRest, Nothing
  <2>4. Answered'
    <3>1. result'.command \notin Scripts
      BY <2>1 DEF Scripts, Programming
    <3>. QED  BY <3>1 DEF Answered, OkIsOwn, LagsByOne, Scripts
  <2>. QED  BY <2>2, <2>3, <2>4 DEF Inv
<1>4. CASE call.command # "start"
  <2>1. call' = [call EXCEPT !.phase = "writing"] /\ result' = result
    BY <1>2, <1>4 DEF Reads
  <2>2. call'.phase = "writing" /\ call'.command \in Scripts /\ call'.got = {}
        /\ call' \in [command : Scripts \cup {"none", "start", "stop"},
                      phase : {"free", "starting", "writing", "reading", "stopping"},
                      got : SUBSET Lines]
    BY <1>1, <1>4, <2>1 DEF Inv, TypeOK
  <2>3. TypeOK'
    BY <1>1, <2>1, <2>2, ReadShape DEF Inv, TypeOK
  <2>4. Shape' /\ Ordered' /\ AtRest'
    BY <1>1, <2>2 DEF Shape, Ordered, AtRest
  <2>. QED  BY <1>1, <2>1, <2>2, <2>3, <2>4, AnsweredStays DEF Inv
<1>. QED  BY <1>3, <1>4

\* Lines that do not bring the awaited one are kept by the call.
LEMMA ReadsOn ==
    ASSUME Inv, NEW n \in 1..Len(pipe), Reads(n), call.phase = "reading",
           ~ \E l \in call.got \cup {pipe[i] : i \in 1..n} : l.kind = Awaited(call.command)
    PROVE  Inv'
<1>. DEFINE got == call.got \cup {pipe[i] : i \in 1..n}
<1>1. /\ n \in Nat /\ n >= 1 /\ Len(pipe) \in Nat /\ n <= Len(pipe)
      /\ pipe' \in Seq(Lines) /\ Len(pipe') = Len(pipe) - n
      /\ \A i \in 1..Len(pipe') : i + n \in 1..Len(pipe) /\ pipe'[i] = pipe[i + n]
      /\ got \subseteq Lines /\ Ordered' /\ Ordered /\ Reading
      /\ call.command \in Scripts
      /\ UNCHANGED <<tool, chain, process, stdin, runs>>
  BY ReadShape DEF Inv, Shape, Reads
<1>2. call' = [call EXCEPT !.got = got] /\ result' = result
  BY DEF Reads
<1>3. /\ call'.phase = "reading" /\ call'.command = call.command /\ call'.got = got
      /\ call' \in [command : Scripts \cup {"none", "start", "stop"},
                    phase : {"free", "starting", "writing", "reading", "stopping"},
                    got : SUBSET Lines]
  BY <1>1, <1>2 DEF Inv, TypeOK
<1>4. \A i \in 1..n : i \in 1..Len(pipe)
  BY <1>1
<1>5. TypeOK'
  BY <1>1, <1>2, <1>3 DEF Inv, TypeOK
<1>6. Shape'
  BY <1>1, <1>3 DEF Inv, Shape
<1>7. Reading'
  <2>1. ASSUME NEW l \in got
        PROVE  /\ l.run \in {runs - 1, runs}
               /\ ~Own(l)
               /\ l.kind # Awaited(call.command)
               /\ \A j \in 1..Len(stdin) : l.run < stdin[j].run
    <3>1. CASE l \in call.got
      BY <1>1, <3>1 DEF Reading
    <3>2. CASE l \in {pipe[i] : i \in 1..n}
      <4>1. PICK i \in 1..n : l = pipe[i]
        BY <3>2
      <4>. QED  BY <1>1, <1>4, <4>1 DEF Reading, Ordered
    <3>. QED  BY <2>1, <3>1, <3>2
  <2>2. \A i \in 1..Len(pipe') :
           /\ pipe'[i].run \in {runs - 1, runs}
           /\ Own(pipe'[i]) => pipe'[i].run = runs /\ pipe'[i].kind = Awaited(call.command)
    <3>. TAKE i \in 1..Len(pipe')
    <3>1. i + n \in 1..Len(pipe) /\ pipe'[i] = pipe[i + n]
      BY <1>1
    <3>2. /\ pipe[i + n].run \in {runs - 1, runs}
          /\ Own(pipe[i + n]) => pipe[i + n].run = runs /\ pipe[i + n].kind = Awaited(call.command)
      BY <1>1, <3>1 DEF Reading
    <3>. QED  BY <3>1, <3>2
  <2>. HIDE DEF got
  <2>. QED  BY <1>1, <1>3, <2>1, <2>2 DEF Reading
<1>8. ASSUME Complete PROVE Complete'
  <2>. SUFFICES ASSUME NEW i \in 1..Len(pipe'),
                       pipe'[i].kind = "done", pipe'[i].ok, pipe'[i].run = runs
                PROVE  Listed(got \cup {pipe'[j] : j \in 1..(i - 1)}, runs)
                       = DOMAIN Contexts(chain)
    BY <1>1, <1>3 DEF Complete
  <2>1. i + n \in 1..Len(pipe) /\ pipe'[i] = pipe[i + n]
    BY <1>1
  <2>2. Listed(call.got \cup {pipe[j] : j \in 1..(i + n - 1)}, runs) = DOMAIN Contexts(chain)
    BY <1>8, <2>1 DEF Complete
  <2>3. got \cup {pipe'[j] : j \in 1..(i - 1)} = call.got \cup {pipe[j] : j \in 1..(i + n - 1)}
    <3>1. n \in Nat /\ i \in Nat /\ i >= 1
      BY <1>1
    <3>2. \A j \in 1..(i - 1) : j + n \in 1..(i + n - 1) /\ j \in 1..Len(pipe')
      BY <1>1, <3>1
    <3>3. \A j \in 1..(i - 1) : j + n \in 1..(i + n - 1) /\ pipe'[j] = pipe[j + n]
      BY <1>1, <3>2
    <3>4. \A j \in 1..n : j \in 1..(i + n - 1)
      BY <3>1
    <3>5. \A j \in 1..(i + n - 1) : j \in 1..n \/ (j - n \in 1..(i - 1) /\ (j - n) + n = j)
      BY <3>1
    <3>6. \A j \in 1..(i + n - 1) : j \in 1..n \/ \E q \in 1..(i - 1) : pipe'[q] = pipe[j]
      BY <3>3, <3>5
    <3>7. {pipe'[q] : q \in 1..(i - 1)} \subseteq {pipe[j] : j \in 1..(i + n - 1)}
      BY <3>3
    <3>8. {pipe[j] : j \in 1..n} \subseteq {pipe[j] : j \in 1..(i + n - 1)}
      BY <3>4
    <3>9. {pipe[j] : j \in 1..(i + n - 1)}
          \subseteq {pipe[j] : j \in 1..n} \cup {pipe'[q] : q \in 1..(i - 1)}
      BY <3>6
    <3>. QED  BY <3>7, <3>8, <3>9
  <2>. QED  BY <2>2, <2>3
<1>. HIDE DEF got
<1>. QED  BY <1>1, <1>2, <1>3, <1>5, <1>6, <1>7, <1>8, AnsweredStays DEF Inv

\* The awaited line settles the call: it is the latest script's own, or ends the
\* script before; so only the latest script can have left anything.
LEMMA ReadsAwaited ==
    ASSUME Inv, NEW n \in 1..Len(pipe), Reads(n), call.phase = "reading",
           \E l \in call.got \cup {pipe[i] : i \in 1..n} : l.kind = Awaited(call.command)
    PROVE  Inv'
<1>. DEFINE got == call.got \cup {pipe[i] : i \in 1..n}
<1>1. /\ n \in Nat /\ n >= 1 /\ Len(pipe) \in Nat /\ n <= Len(pipe)
      /\ pipe' \in Seq(Lines) /\ Len(pipe') = Len(pipe) - n
      /\ \A i \in 1..Len(pipe') : i + n \in 1..Len(pipe) /\ pipe'[i] = pipe[i + n]
      /\ got \subseteq Lines /\ Ordered' /\ Ordered /\ Reading
      /\ call.command \in Scripts
      /\ UNCHANGED <<tool, chain, process, stdin, runs>>
  BY ReadShape DEF Inv, Shape, Reads
<1>2. /\ call' = Nothing
      /\ result' = [command |-> call.command, run |-> runs,
                    ok |-> Succeeds(call.command, got), got |-> got]
  BY DEF Reads, Returns
<1>3. PICK k \in 1..n : pipe[k].kind = Awaited(call.command)
  BY <1>1 DEF Reading
<1>4. \A i \in 1..n : i \in 1..Len(pipe)
  BY <1>1
<1>5. /\ runs \in Nat
      /\ \A i \in 1..Len(pipe) : pipe[i].run \in Nat /\ pipe[i].run \in {runs - 1, runs}
      /\ \A i \in 1..Len(stdin) : stdin[i].run \in Nat
      /\ runs - 1 < runs
  BY <1>1, RunsAreNumbers DEF Inv, Reading
<1>. HIDE DEF got
<1>6. TypeOK'
  <2>1. Succeeds(call.command, got) \in BOOLEAN
    BY DEF Succeeds
  <2>. QED  BY <1>1, <1>2, <2>1 DEF Inv, TypeOK, Nothing
<1>7. Shape' /\ call'.phase = "free"
  BY <1>1, <1>2 DEF Inv, Shape, Nothing
<1>8. ASSUME NEW i \in 1..Len(pipe), i > k PROVE pipe[i].run = runs /\ ~Own(pipe[i])
  <2>1. /\ pipe[k].run <= pipe[i].run
        /\ pipe[k].kind = "done" \/ Own(pipe[i]) => pipe[k].run < pipe[i].run
    BY <1>1, <1>4, <1>8 DEF Ordered
  <2>2. k \in 1..Len(pipe) /\ pipe[k].run \in {runs - 1, runs} /\ pipe[i].run \in {runs - 1, runs}
    BY <1>4, <1>5
  <2>3. CASE call.command = "discover"
    <3>1. pipe[k].kind = "done"
      BY <1>3, <2>3 DEF Awaited
    <3>2. pipe[i].run = runs
      BY <1>5, <2>1, <2>2, <3>1
    <3>3. ~Own(pipe[i])
      BY <1>1, <2>3 DEF Reading, Own, Awaited
    <3>. QED  BY <3>2, <3>3
  <2>4. CASE call.command # "discover"
    <3>1. Own(pipe[k])
      BY <1>3, <2>4 DEF Own, Awaited
    <3>2. pipe[k].run = runs
      BY <1>1, <2>2, <3>1 DEF Reading
    <3>. QED  BY <1>5, <2>1, <2>2, <3>2
  <2>. QED  BY <2>3, <2>4
<1>9. AtRest'
  <2>1. ASSUME NEW i \in 1..Len(pipe') PROVE pipe'[i].run = runs /\ ~Own(pipe'[i])
    <3>1. i + n \in 1..Len(pipe) /\ pipe'[i] = pipe[i + n] /\ i + n > k
      BY <1>1
    <3>. QED  BY <1>8, <3>1
  <2>2. ASSUME NEW i \in 1..Len(stdin)
        PROVE  stdin[i] = [command |-> "discover", run |-> runs]
    <3>1. k \in 1..Len(pipe) /\ pipe[k].run < stdin[i].run
      BY <1>1, <1>4 DEF Ordered
    <3>2. \/ stdin[i] = [command |-> call.command, run |-> runs]
          \/ stdin[i] = [command |-> "discover", run |-> runs - 1]
      BY <1>1 DEF Reading
    <3>3. stdin[i].run = runs /\ stdin[i].command \in {call.command, "discover"}
      <4>1. stdin[i] # [command |-> "discover", run |-> runs - 1] \/ stdin[i].run = runs - 1
        OBVIOUS
      <4>2. pipe[k].run \in {runs - 1, runs} /\ stdin[i].run \in Nat
        BY <1>5, <3>1
      <4>3. stdin[i].run # runs - 1
        BY <1>5, <3>1, <4>2
      <4>. QED  BY <3>2, <4>1, <4>3
    <3>4. CASE call.command # "discover"
      <4>1. Own(pipe[k])
        BY <1>3, <3>4 DEF Own, Awaited
      <4>. QED  BY <1>1, <1>5, <3>1, <3>3, <4>1 DEF Reading
    <3>. QED  BY <1>5, <3>2, <3>3, <3>4
  <2>. QED  BY <1>1, <2>1, <2>2 DEF AtRest
<1>10. ASSUME NEW l \in got, Own(l) PROVE l.run = runs
  BY <1>1, <1>4, <1>10 DEF got, Reading
<1>11. OkIsOwn'
  <2>. SUFFICES ASSUME call.command # "discover"
                PROVE  /\ \E l \in got : l.kind = Awaited(call.command) /\ l.run = runs
                       /\ call.command = "read_telemetry" => FirstReading(got).run = runs
    BY <1>2 DEF OkIsOwn
  <2>1. pipe[k] \in got /\ Own(pipe[k])
    BY <1>3 DEF got, Own, Awaited
  <2>2. ASSUME call.command = "read_telemetry" PROVE FirstReading(got).run = runs
    <3>1. pipe[k].kind = "reading"
      BY <1>3, <2>2 DEF Awaited
    <3>2. \A l \in got : l.kind = "reading" => l.run = runs
      BY <1>10 DEF Own
    <3>3. \E l \in got : l.kind = "reading" /\ \A m \in got : m.kind = "reading" => l.run <= m.run
      BY <1>5, <2>1, <3>1, <3>2
    <3>4. FirstReading(got) \in got /\ FirstReading(got).kind = "reading"
      BY <3>3 DEF FirstReading
    <3>. QED  BY <3>2, <3>4
  <2>. QED  BY <1>3, <1>10, <2>1, <2>2
<1>12. LagsByOne'
  <2>. SUFFICES ASSUME call.command = "discover", Succeeds(call.command, got)
                PROVE  /\ \A l \in got : l.run \in {runs - 1, runs}
                       /\ (\E l \in got : l.kind = "done" /\ l.run = runs) =>
                              DOMAIN Contexts(chain) = Listed(got, runs)
    BY <1>1, <1>2 DEF LagsByOne, Listed
  <2>1. ASSUME NEW l \in got PROVE l.run \in {runs - 1, runs}
    BY <1>1, <1>4, <1>5 DEF got, Reading
  <2>2. ASSUME NEW d \in got, d.kind = "done", d.run = runs
        PROVE  DOMAIN Contexts(chain) = Listed(got, runs)
    <3>1. PICK i \in 1..n : d = pipe[i]
      BY <1>1, <2>2 DEF got, Reading, Awaited
    <3>2. d.ok
      <4>1. \A e \in got : e.kind = "done" => e.run <= d.run
        BY <1>5, <2>1, <2>2
      <4>. QED  BY <2>2, <4>1 DEF Succeeds, CommandFailed
    <3>. DEFINE before == call.got \cup {pipe[j] : j \in 1..(i - 1)}
    <3>3. Listed(before, runs) = DOMAIN Contexts(chain)
      BY <1>4, <2>2, <3>1, <3>2 DEF Inv, Complete
    <3>4. before \subseteq got
      BY <1>1 DEF got
    <3>5. ASSUME NEW l \in got, l.kind = "target", l.run = runs PROVE l \in before
      <4>1. ASSUME NEW j \in 1..n, l = pipe[j] PROVE l \in before
        <5>1. j # i
          BY <2>2, <3>1, <3>5, <4>1
        <5>2. ~(i < j)
          <6>1. i < j => pipe[i].run < pipe[j].run
            BY <1>1, <1>4, <2>2, <3>1 DEF Ordered
          <6>. QED  BY <1>5, <2>2, <3>1, <3>5, <4>1, <6>1
        <5>3. j \in 1..(i - 1)
          BY <1>1, <5>1, <5>2
        <5>. QED  BY <4>1, <5>3
      <4>. QED  BY <4>1 DEF got
    <3>. HIDE DEF before
    <3>. QED  BY <3>3, <3>4, <3>5 DEF Listed
  <2>. QED  BY <2>1, <2>2
<1>. QED  BY <1>1, <1>6, <1>7, <1>9, <1>11, <1>12 DEF Inv, Answered

-----------------------------------------------------------------------------

\* Every step keeps the invariant.
LEMMA InvNext == Inv /\ [Next]_vars => Inv'
<1>. SUFFICES ASSUME Inv, [Next]_vars PROVE Inv'
  OBVIOUS
<1>1. CASE UNCHANGED vars
  <2>1. TypeOK' /\ Shape'
    BY <1>1 DEF vars, Inv, TypeOK, Shape
  <2>2. (Ordered => Ordered') /\ (AtRest => AtRest') /\ (Reading => Reading')
        /\ (Complete => Complete')
    BY <1>1 DEF vars, Ordered, AtRest, Reading, Complete
  <2>. QED  BY <1>1, <2>1, <2>2, AnsweredStays DEF vars, Inv
<1>2. ASSUME NEW n \in 1..Len(pipe), Reads(n) PROVE Inv'
  <2>1. call.phase \in {"starting", "reading"}
    BY <1>2 DEF Reads
  <2>. QED  BY <1>2, <2>1, ReadyIsRead, ReadsOn, ReadsAwaited
<1>. QED  BY <1>1, <1>2, ToolReadyStep, ExecutesStep, ExitsStep, RunStep, StartStep, RefusesStep,
             WritesStep, GivesUpStep, StoppedStep DEF Next

\* The invariant of a session and its tool.
THEOREM TclInvariant == Spec => []Inv
<1>1. Init => Inv
  BY InvInit
<1>. QED  BY <1>1, InvNext, PTL DEF Spec

\* Every variable keeps its type.
THEOREM TypeCorrect == Spec => []TypeOK
<1>1. Inv => TypeOK
  BY DEF Inv
<1>. QED  BY <1>1, TclInvariant, PTL

\* An operation reported as done was done by the script of this very call, and
\* a temperature was measured by it, whatever is left in the pipe.
THEOREM ResultsAreOwn == Spec => []OkIsOwn
<1>1. Inv => OkIsOwn
  BY DEF Inv, Answered
<1>. QED  BY <1>1, TclInvariant, PTL

\* A discovery answers with its own listing or that of the script before, and
\* with the whole of its own when it has read to its end.
THEOREM DiscoveryLags == Spec => []LagsByOne
<1>1. Inv => LagsByOne
  BY DEF Inv, Answered
<1>. QED  BY <1>1, TclInvariant, PTL

\* When the lock is free no script works on the board or is about to.
THEOREM NobodyAtTheBoard == Spec => []BoardIsFree
<1>1. Inv => BoardIsFree
  <2>. SUFFICES ASSUME Inv, call = Nothing, NEW i \in DOMAIN stdin
                PROVE  stdin[i].command \notin Programming
    BY DEF BoardIsFree
  <2>1. i \in 1..Len(stdin)
    BY LenProperties DEF Inv, TypeOK
  <2>2. call.phase = "free"
    BY DEF Nothing
  <2>. QED  BY <2>1, <2>2 DEF Inv, AtRest, Programming
<1>. QED  BY <1>1, TclInvariant, PTL

\* Whatever has been read or is still to be read speaks of a board of the hub.
Places(S) == \A l \in S : l.kind = "target" => l.n \in DOMAIN Contexts(chain)
Placed == /\ \A i \in 1..Len(pipe) : Places({pipe[i]})
          /\ Places(call.got) /\ Places(result.got)

LEMMA OutputsPlaced ==
    ASSUME TypeOK, NEW s \in [command : Scripts, run : Nat], NEW out \in Outputs(s)
    PROVE  Places({out[i] : i \in 1..Len(out)})
<1> SUFFICES ASSUME NEW i \in 1..Len(out), out[i].kind = "target"
             PROVE  out[i].n \in DOMAIN Contexts(chain)
  BY DEF Places
<1> DEFINE T == [j \in DOMAIN Contexts(chain) |-> Line("target", s.run, TRUE, j)]
           ok == Line("done", s.run, TRUE, 0)
<1>1. PICK n \in Nat : DOMAIN Contexts(chain) = 1..n
  BY ChainsAssumption, ListedFpgas DEF TypeOK, Contexts, Hub
<1>2. CASE s.command = "discover"
  <2>1. out = Append(T, ok) \/ out = <<Line("done", s.run, FALSE, 0)>>
    BY <1>2 DEF Outputs
  <2>3. T \in Seq(Lines) /\ Len(T) = n /\ \A j \in 1..n : T[j] = Line("target", s.run, TRUE, j)
    <3>1. T = [j \in 1..n |-> Line("target", s.run, TRUE, j)]
      BY <1>1
    <3>2. \A j \in 1..n : Line("target", s.run, TRUE, j) \in Lines
      BY DEF Line, Lines
    <3> DEFINE L(j) == Line("target", s.run, TRUE, j)
    <3>3. \A j \in 1..n : L(j) \in Lines
      BY <3>2
    <3>4. T = [j \in 1..n |-> L(j)]
      BY <3>1
    <3> HIDE DEF L
    <3>5. [j \in 1..n |-> L(j)] \in Seq(Lines)
      BY <3>3, IsASeq
    <3> HIDE DEF T
    <3>6. T \in Seq(Lines) /\ \A j \in 1..n : T[j] = L(j)
      BY <3>4, <3>5
    <3>7. Len(T) \in Nat /\ DOMAIN T = 1..Len(T) /\ DOMAIN T = 1..n
      BY <3>4, <3>6, LenProperties
    <3>8. Len(T) = n
      <4>1. \A k, m \in Nat : 1..k = 1..m => k = m
        <5> SUFFICES ASSUME NEW k \in Nat, NEW m \in Nat, 1..k = 1..m PROVE k = m
          OBVIOUS
        <5>1. (k >= 1 => k \in 1..m) /\ (m >= 1 => m \in 1..k)
          OBVIOUS
        <5> QED
          BY <5>1
      <4> QED
        BY <3>7, <4>1
    <3>9. \A j \in 1..n : L(j) = Line("target", s.run, TRUE, j)
      BY DEF L
    <3> QED
      BY <3>6, <3>8, <3>9
  <2>4. ok.kind = "done" /\ ok \in Lines
    BY DEF Line, Lines
  <2> HIDE DEF T, ok
  <2>5. CASE out = Append(T, ok)
    <3>1. /\ out \in Seq(Lines) /\ Len(out) = n + 1 /\ out[n + 1] = ok
          /\ \A j \in 1..n : out[j] = T[j]
      BY <2>3, <2>4, <2>5, AppendProperties
    <3>2. i # n + 1
      BY <2>4, <3>1
    <3>3. i \in 1..n
      BY <3>1, <3>2
    <3>4. out[i] = Line("target", s.run, TRUE, i)
      BY <2>3, <3>1, <3>3
    <3> QED
      BY <1>1, <3>3, <3>4 DEF Line
  <2>6. CASE out = <<Line("done", s.run, FALSE, 0)>>
    BY <2>6 DEF Line
  <2> QED
    BY <2>1, <2>5, <2>6
<1>3. CASE s.command # "discover"
  <2>1. \A l \in {out[j] : j \in 1..Len(out)} : l.kind # "target"
    BY <1>3 DEF Outputs, Line
  <2> QED
    BY <2>1
<1> QED
  BY <1>2, <1>3

LEMMA PlacedStep == TypeOK /\ Placed /\ [Next]_vars => Placed'
<1> SUFFICES ASSUME TypeOK, Placed, [Next]_vars PROVE Placed'
  OBVIOUS
<1>0. Len(pipe) \in Nat /\ pipe \in Seq(Lines) /\ stdin \in Seq([command : Scripts, run : Nat])
  BY DEF TypeOK
<1>1. chain' = chain
  BY DEF Next, vars, ToolReady, Executes, Exits, Run, Refuses, Start, Writes, GivesUp, Stop,
         Stopped, Reads
<1>2. CASE UNCHANGED pipe /\ call'.got \in {{}, call.got} /\ result'.got \in {{}, call.got, result.got}
  BY <1>1, <1>2 DEF Placed, Places
<1>3. CASE ToolReady
  <2> DEFINE r == Line("ready", 0, TRUE, 0)
  <2>1. r.kind = "ready" /\ r \in Lines
    BY DEF Line, Lines
  <2>2. pipe' = Append(pipe, r) /\ UNCHANGED <<call, result>>
    BY <1>3 DEF ToolReady
  <2> HIDE DEF r
  <2>3. \A i \in 1..Len(pipe') : pipe'[i] = r \/ \E j \in 1..Len(pipe) : pipe'[i] = pipe[j]
    BY <1>0, <2>1, <2>2
  <2> QED
    BY <1>1, <2>1, <2>2, <2>3 DEF Placed, Places
<1>4. CASE Executes
  <2>1. PICK out \in Outputs(Head(stdin)) : pipe' = pipe \o out
    BY <1>4 DEF Executes
  <2>2. Head(stdin) \in [command : Scripts, run : Nat]
    <3>1. stdin # << >>
      BY <1>4 DEF Executes
    <3> HIDE DEF Executes
    <3> QED
      BY <1>0, <3>1, HeadTailProperties
  <2>3. out \in Seq(Lines)
    BY <2>1, <2>2, OutputsShape
  <2>4. Places({out[i] : i \in 1..Len(out)})
    BY <2>1, <2>2, OutputsPlaced
  <2>5. \A i \in 1..Len(pipe') : \/ \E j \in 1..Len(out) : pipe'[i] = out[j]
                                 \/ \E j \in 1..Len(pipe) : pipe'[i] = pipe[j]
    BY <1>0, <2>1, <2>3, ConcatProperties
  <2>6. UNCHANGED <<call, result>>
    BY <1>4 DEF Executes
  <2> QED
    BY <1>1, <2>4, <2>5, <2>6 DEF Placed, Places
<1>5. CASE \E n \in 1..Len(pipe) : Reads(n)
  <2>1. PICK n \in 1..Len(pipe) : Reads(n)
    BY <1>5
  <2> DEFINE got == call.got \cup {pipe[i] : i \in 1..n}
  <2>2. Places(got)
    BY <1>0 DEF Placed, Places
  <2>3. call'.got \in {{}, call.got, got} /\ result'.got \in {{}, got, result.got}
    BY <2>1, <1>0 DEF Reads, Returns, Nothing, TypeOK
  <2>4. pipe' = SubSeq(pipe, n + 1, Len(pipe))
    BY <2>1 DEF Reads
  <2>5. \A i \in 1..Len(pipe') : \E j \in 1..Len(pipe) : pipe'[i] = pipe[j]
    BY <1>0, <2>4
  <2> HIDE DEF got
  <2> QED
    BY <1>1, <2>2, <2>3, <2>5 DEF Placed, Places
<1>6. CASE (\E c \in Scripts : Run(c)) \/ Start \/ (\E c \in Scripts \cup {"start"} : Refuses(c))
  <2>1. call'.got \in {{}, call.got} /\ result'.got \in {{}, result.got}
    BY <1>6 DEF Run, Start, Refuses, Launch
  <2>2. pipe' = pipe \/ pipe' = << >>
    BY <1>6 DEF Run, Start, Refuses, Launch
  <2> QED
    BY <1>1, <2>1, <2>2 DEF Placed, Places
<1>7. CASE Exits \/ Writes \/ GivesUp \/ Stop \/ Stopped \/ UNCHANGED vars
  <2>1. call'.got \in {{}, call.got} /\ result'.got \in {call.got, result.got}
    BY <1>7 DEF Exits, Writes, GivesUp, Stop, Stopped, Returns, vars, TypeOK, Nothing
  <2>2. pipe' = pipe \/ pipe' = << >>
    BY <1>7 DEF Exits, Writes, GivesUp, Stop, Stopped, vars
  <2> QED
    BY <1>1, <2>1, <2>2 DEF Placed, Places
<1> QED
  BY <1>3, <1>4, <1>5, <1>6, <1>7 DEF Next

\* Every context a discovery answers with is a board's own, for every list of
\* targets a hub may give, in whichever order.
THEOREM ContextsAlwaysBoards ==
    Spec => []ContextIsBoard
<1>1. Init => Placed
  BY DEF Init, Placed, Places, Nothing, NoResult
<1>2. TypeOK /\ Placed => ContextIsBoard
  <2> SUFFICES ASSUME TypeOK, Placed, NEW l \in result.got, l.kind = "target"
               PROVE  IsBoard(chain, Contexts(chain)[l.n])
    BY DEF ContextIsBoard
  <2>1. Hub(chain)
    BY ChainsAssumption DEF TypeOK, Hub
  <2>2. l.n \in DOMAIN Contexts(chain)
    BY DEF Placed, Places
  <2> QED
    BY <2>1, <2>2, ContextsAreBoards
<1> QED
  BY <1>1, <1>2, PlacedStep, TypeCorrect, PTL DEF Spec
=============================================================================
