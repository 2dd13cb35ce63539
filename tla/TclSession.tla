----------------------------- MODULE TclSession -----------------------------
(***************************************************************************)
(* A tool that is kept running, xsdb or Vivado, and the scripts the agent  *)
(* has it execute: TclSession and the operations of BoardActions.          *)
(*                                                                         *)
(* The session's lock is held for the whole of a call, so one call is in   *)
(* progress at a time.  The tool is a process of its own: it takes scripts *)
(* from its input one after the other and prints lines that stay in the    *)
(* pipe until they are read.  A read takes all that has arrived, which may *)
(* be any beginning of what the tool prints.                               *)
(***************************************************************************)
EXTENDS JtagTargets

CONSTANTS
    Chains,     \* the targets on the hub, in the order in which they are listed
    MaxRuns     \* bound: scripts handed to the tool

ASSUME MaxRunsAssumption == MaxRuns \in Nat \ {0}

ASSUME ChainsAssumption == \A c \in Chains : Len(c) \in Nat /\ DOMAIN c = 1..Len(c)

VARIABLES
    tool,       \* which of the two sessions of BoardActions this is
    chain,      \* what hangs on the hub
    process,    \* the tool's process
    stdin,      \* the scripts it has not executed yet
    pipe,       \* the lines it has printed and nobody has read
    call,       \* the call that holds the lock
    runs,       \* the scripts handed to the tool so far
    result      \* the last ActionResult

vars == <<tool, chain, process, stdin, pipe, call, runs, result>>

Programming == {"program_pl", "program_ps", "reset_board"}
Scripts == Programming \cup {"discover", "read_telemetry"}
CommandsOf(t) == IF t = "xsdb" THEN Programming \cup {"discover"} ELSE {"read_telemetry"}

\* A line the agent looks for.  "done" ends every script; "marker" is printed
\* by a script that programs or resets the board, "reading" by the telemetry's.
Line(kind, run, ok, n) == [kind |-> kind, run |-> run, ok |-> ok, n |-> n]
Lines == [kind : {"ready", "target", "marker", "reading", "done"},
          run : Nat, ok : BOOLEAN, n : Nat]

\* The line for which _read_until waits.
Awaited(command) ==
    CASE command = "discover" -> "done"
      [] command = "read_telemetry" -> "reading"
      [] OTHER -> "marker"

Nothing == [command |-> "none", phase |-> "free", got |-> {}]
NoResult == [command |-> "none", run |-> 0, ok |-> FALSE, got |-> {}]

Init ==
    /\ tool \in {"xsdb", "vivado"}
    /\ chain \in Chains
    /\ process = "none"
    /\ stdin = << >>
    /\ pipe = << >>
    /\ call = Nothing
    /\ runs = 0
    /\ result = NoResult

-----------------------------------------------------------------------------
(* The tool *)

\* The startup script has connected to the hardware server.
ToolReady ==
    /\ process = "starting"
    /\ process' = "ready"
    /\ pipe' = Append(pipe, Line("ready", 0, TRUE, 0))
    /\ UNCHANGED <<tool, chain, stdin, call, runs, result>>

\* What a script prints.  One that fails prints no line of its own; the
\* telemetry's catches its errors and prints them as its reading.
Outputs(s) ==
    LET done(ok) == Line("done", s.run, ok, 0)
        targets == [i \in DOMAIN Contexts(chain) |-> Line("target", s.run, TRUE, i)]
    IN  CASE s.command = "discover" -> {Append(targets, done(TRUE)), <<done(FALSE)>>}
          [] s.command = "read_telemetry" ->
                 {<<Line("reading", s.run, ok, 0), done(TRUE)>> : ok \in BOOLEAN}
          [] OTHER -> {<<Line("marker", s.run, TRUE, 0), done(TRUE)>>, <<done(FALSE)>>}

Executes ==
    /\ process = "ready"
    /\ stdin # << >>
    /\ \E out \in Outputs(Head(stdin)) : pipe' = pipe \o out
    /\ stdin' = Tail(stdin)
    /\ UNCHANGED <<tool, chain, process, call, runs, result>>

\* It crashes, fails to connect, or has read the line "quit".
Exits ==
    /\ process \in {"starting", "ready"}
    /\ process' = "exited"
    /\ UNCHANGED <<tool, chain, stdin, pipe, call, runs, result>>

-----------------------------------------------------------------------------
(* start and run *)

Running == process \in {"starting", "ready"}

Returns(ok, got) ==
    /\ result' = [command |-> call.command, run |-> runs, ok |-> ok, got |-> got]
    /\ call' = Nothing

\* start: a process that has exited is forgotten, with all that it printed.
Launch(command) ==
    /\ process' = "starting"
    /\ stdin' = << >>
    /\ pipe' = << >>
    /\ call' = [command |-> command, phase |-> "starting", got |-> {}]

Run(command) ==
    /\ call = Nothing
    /\ command \in CommandsOf(tool)
    /\ runs < MaxRuns
    /\ IF Running
       THEN /\ call' = [command |-> command, phase |-> "writing", got |-> {}]
            /\ UNCHANGED <<process, stdin, pipe>>
       ELSE Launch(command)
    /\ UNCHANGED <<tool, chain, runs, result>>

Start ==
    /\ call = Nothing
    /\ ~Running
    /\ Launch("start")
    /\ UNCHANGED <<tool, chain, runs, result>>

\* A file or the board's core is missing, or Vivado's settings where the tool
\* would have to be started: the script is not run.
Refuses(command) ==
    /\ call = Nothing
    /\ command \in CommandsOf(tool) \cup {"start"}
    /\ Running => command \in Programming
    /\ result' = [command |-> command, run |-> runs, ok |-> FALSE, got |-> {}]
    /\ UNCHANGED <<tool, chain, process, stdin, pipe, call, runs>>

\* The tool can have exited since it was found running: the pipe is broken.
Writes ==
    /\ call.phase = "writing"
    /\ IF process = "ready"
       THEN /\ runs' = runs + 1
            /\ stdin' = Append(stdin, [command |-> call.command, run |-> runs + 1])
            /\ call' = [call EXCEPT !.phase = "reading"]
       ELSE /\ call' = [call EXCEPT !.phase = "stopping"]
            /\ UNCHANGED <<runs, stdin>>
    /\ UNCHANGED <<tool, chain, process, pipe, result>>

\* _command_done_error looks at the last COMMAND_DONE that was read.
CommandFailed(got) ==
    \E d \in got : /\ d.kind = "done" /\ ~d.ok
                   /\ \A e \in got : e.kind = "done" => e.run <= d.run

\* parse_telemetry_payload takes the first reading.
FirstReading(got) ==
    CHOOSE l \in got : l.kind = "reading"
                       /\ \A k \in got : k.kind = "reading" => l.run <= k.run

Succeeds(command, got) ==
    /\ ~CommandFailed(got)
    /\ command = "read_telemetry" => FirstReading(got).ok

\* _read_until: some lines have arrived, and the wait ends with the awaited one.
\* What has not arrived by then stays in the pipe.
Reads(n) ==
    LET got == call.got \cup {pipe[i] : i \in 1..n}
        awaited == IF call.phase = "starting" THEN "ready" ELSE Awaited(call.command)
        found == \E l \in got : l.kind = awaited
    IN  /\ call.phase \in {"starting", "reading"}
        /\ n \in 1..Len(pipe)
        /\ pipe' = SubSeq(pipe, n + 1, Len(pipe))
        /\ \/ /\ ~found
              /\ call' = [call EXCEPT !.got = got]
              /\ UNCHANGED result
           \/ /\ found /\ call.phase = "starting" /\ call.command = "start"
              /\ Returns(TRUE, {})
           \/ /\ found /\ call.phase = "starting" /\ call.command # "start"
              /\ call' = [call EXCEPT !.phase = "writing"]
              /\ UNCHANGED result
           \/ /\ found /\ call.phase = "reading"
              /\ Returns(Succeeds(call.command, got), got)
        /\ UNCHANGED <<tool, chain, process, stdin, runs>>

\* The call is answered, and the tool is left to itself.
GivesUpOnWaiting ==
    /\ call.phase \in {"starting", "reading"}
    /\ Returns(FALSE, call.got)
    /\ UNCHANGED <<tool, chain, process, stdin, pipe, runs>>

\* Only a tool that has exited is given up.
GivesUpOnExit ==
    /\ call.phase \in {"starting", "reading"}
    /\ process = "exited"
    /\ call' = [call EXCEPT !.phase = "stopping"]
    /\ UNCHANGED <<tool, chain, process, stdin, pipe, runs, result>>

\* The time is up, or the tool is found to have exited; what it printed and was
\* not read yet is lost.
GivesUp ==
    /\ call.phase \in {"starting", "reading"}
    /\ call' = [call EXCEPT !.phase = "stopping"]
    /\ UNCHANGED <<tool, chain, process, stdin, pipe, runs, result>>

Stop ==
    /\ call = Nothing
    /\ call' = [command |-> "stop", phase |-> "stopping", got |-> {}]
    /\ UNCHANGED <<tool, chain, process, stdin, pipe, runs, result>>

\* The tool is given up and not killed.
StoppedAlive ==
    /\ call.phase = "stopping"
    /\ Returns(call.command = "stop", call.got)
    /\ UNCHANGED <<tool, chain, process, stdin, pipe, runs>>

\* The tool was asked to quit, terminated and at last killed; the helpers it
\* left behind are killed too.
Stopped ==
    /\ call.phase = "stopping"
    /\ process' = "none"
    /\ stdin' = << >>
    /\ pipe' = << >>
    /\ Returns(call.command = "stop", call.got)
    /\ UNCHANGED <<tool, chain, runs>>

-----------------------------------------------------------------------------

Next ==
    \/ ToolReady \/ Executes \/ Exits
    \/ \E c \in Scripts : Run(c)
    \/ \E c \in Scripts \cup {"start"} : Refuses(c)
    \/ Start \/ Writes \/ GivesUp \/ Stop \/ Stopped
    \/ \E n \in 1..Len(pipe) : Reads(n)

\* The waits end by the clock, whatever the tool does.
Fairness == WF_vars(Writes) /\ WF_vars(GivesUp) /\ WF_vars(Stopped)

Spec == Init /\ [][Next]_vars /\ Fairness

-----------------------------------------------------------------------------

TypeOK ==
    /\ tool \in {"xsdb", "vivado"}
    /\ chain \in Chains
    /\ process \in {"none", "starting", "ready", "exited"}
    /\ stdin \in Seq([command : Scripts, run : Nat])
    /\ pipe \in Seq(Lines)
    /\ call \in [command : Scripts \cup {"none", "start", "stop"},
                 phase : {"free", "starting", "writing", "reading", "stopping"},
                 got : SUBSET Lines]
    /\ runs \in Nat
    /\ result \in [command : Scripts \cup {"none", "start", "stop"},
                   run : Nat, ok : BOOLEAN, got : SUBSET Lines]

\* An operation that is reported as done was done, and a temperature that is
\* reported was measured, by the script of this very call, whatever earlier
\* calls have left in the pipe (TclSession.run).
OkIsOwn ==
    result.ok /\ result.command \in Scripts \ {"discover"} =>
        /\ \E l \in result.got : l.kind = Awaited(result.command) /\ l.run = result.run
        /\ result.command = "read_telemetry" =>
               FirstReading(result.got).run = result.run

\* A discovery can end with the COMMAND_DONE that an earlier script left in the
\* pipe, and its own answer is then left to the next one.  But it never falls
\* behind by more than one script, and one that has read its own COMMAND_DONE
\* has read of every board.
LagsByOne ==
    result.ok /\ result.command = "discover" =>
        LET targets == {l \in result.got : l.kind = "target"}
        IN  /\ \A l \in targets : l.run \in {result.run - 1, result.run}
            /\ (\E l \in result.got : l.kind = "done" /\ l.run = result.run) =>
                   DOMAIN Contexts(chain) = {l.n : l \in {t \in targets : t.run = result.run}}

\* When no call is in progress, no script that programs or resets the board is
\* at work or about to be: the agent gives the device lock away on a result,
\* also when a tool had to be given up.
BoardIsFree ==
    call = Nothing => \A i \in DOMAIN stdin : stdin[i].command \notin Programming

\* Every context a discovery answers with joins an FPGA to the core and the
\* debug port of its own board, in whichever order the hub lists its targets.
ContextIsBoard ==
    result.ok =>
        \A l \in result.got : l.kind = "target" => IsBoard(chain, Contexts(chain)[l.n])

\* Every call ends, although the tool may hang or exit at any time.
CallsEnd == call # Nothing ~> call = Nothing
=============================================================================
