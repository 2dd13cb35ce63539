------------------------------- MODULE Uart -------------------------------
(***************************************************************************)
(* The n-body demo talks to the GPGPU over a serial line: GpgpuUartMonitor *)
(* (host/baremetal/gpgpu_uart.py) writes a command line, then reads the    *)
(* reply up to a marker, an exact number of bytes, or the prompt.          *)
(*                                                                         *)
(* A call of the monitor is a list of such primitive operations, kept in   *)
(* todo and worked off one at a time.  An operation that fails raises: the *)
(* rest of the call is skipped, except for a `finally` part.               *)
(*                                                                         *)
(* The firmware at the other end is not in the repository; what it answers *)
(* is taken from what the client expects and from the stand-in of          *)
(* tests/test_nbody_uart_download.py.  A reply is a sequence of units: a   *)
(* marker, the prompt, an end of line character or one byte of data.  The  *)
(* line to the host may lose bytes (gpgpu_uart.py:313-315).                *)
(***************************************************************************)
EXTENDS Integers, Sequences

CONSTANTS
    Chunks,       \* dump commands it takes to read the positions (12 in the code)
    ChunkBytes,   \* bytes of data in the reply to one of them (32 in the code)
    Bursts,       \* numbers of consecutive units the line may lose at once
    MaxLosses     \* bound of the model: losses in one behaviour

ASSUME UartAssumption ==
    /\ Chunks \in Nat \ {0} /\ ChunkBytes \in Nat \ {0}
    /\ Bursts \subseteq Nat \ {0} /\ MaxLosses \in Nat

VARIABLES
    todo,      \* what is left of the current call of the monitor
    raised,    \* an exception of the call is under way
    attempt,   \* of sync_prompt
    got,       \* what read_exact returned of each chunk of the current dump
    sent,      \* written to the port and not yet taken by the firmware
    rx,        \* on its way from the firmware, in the port or in rx_buffer
    device,    \* state of the core: loading, running or dumping
    dmem,      \* the kernel's arguments and the step the bodies are at
    losses     \* losses so far (bound)

line == <<sent, rx, device, dmem, losses>>
uart == <<todo, raised, attempt, got, sent, rx, device, dmem, losses>>

Attempts == 2

---------------------------------------------------------------------------
(* Calls of the monitor. *)

Op(do, what, part) == [do |-> do, what |-> what, part |-> part]
Request(cmd, region, n) == [cmd |-> cmd, region |-> region, n |-> n]

Command(cmd, region, n, part) == <<Op("write", Request(cmd, region, n), part)>>
Until(mark, part) == <<Op("until", Request(mark, "", 0), part)>>

SyncPrompt == Command("help", "", 0, "sync") \o Until("PROMPT", "sync")

LoadBinary(region, n) ==
    Command("load", region, n, "body") \o Until("READY", "body")
    \o Command("payload", region, n, "body") \o Until("COMPLETE", "body")

RunKernel ==
    Command("run", "", 0, "body") \o Until("DUMPING", "body") \o Until("PROMPT", "body")

DumpChunk(c) ==
    Command("dump", "", c, "try") \o Until("BEGIN", "try")
    \o <<Op("exact", Request("", "", 0), "try")>> \o Until("PROMPT", "try")

(* Four operations for each chunk. *)
DumpPositions == [i \in 1..(4 * Chunks) |-> DumpChunk((i + 3) \div 4)[1 + ((i - 1) % 4)]]

(* The answer is not awaited. *)
ReadDoneUnread == Command("done", "", 0, "finally")

ReadDone ==
    Command("done", "", 0, "finally") \o Until("LOADING", "finally")
    \o Until("PROMPT", "finally")

---------------------------------------------------------------------------
(* The reply units and what the client finds among them. *)

Unit(is, chunk, at, state) == [is |-> is, chunk |-> chunk, at |-> at, state |-> state]
Text(mark) == <<Unit(mark, 0, 0, 0)>>
Data(c, k) == [i \in 1..ChunkBytes |-> Unit("byte", c, i, k)]
Positions(k) == [c \in 1..Chunks |-> Data(c, k)]

Holds(mark) == \E i \in 1..Len(rx) : rx[i].is = mark
After(mark) ==
    SubSeq(rx, 1 + (CHOOSE i \in 1..Len(rx) :
                       rx[i].is = mark /\ \A j \in 1..(i - 1) : rx[j].is # mark), Len(rx))

NextOp == Head(todo)
Waiting(do) == todo # <<>> /\ NextOp.do = do
MayRefuse == NextOp.what.cmd # "PROMPT"

(* The exception leaves the call: what is left is its finally part. *)
Raises ==
    /\ raised' = TRUE
    /\ todo' = IF NextOp.part = "try"
               THEN SelectSeq(todo, LAMBDA op : op.part = "finally") ELSE <<>>

(* write_line and ser.write; sync_prompt first empties the input. *)
Writes ==
    /\ Waiting("write")
    /\ sent' = Append(sent, NextOp.what)
    /\ rx' = IF NextOp.part = "sync" THEN <<>> ELSE rx
    /\ todo' = Tail(todo)
    /\ UNCHANGED <<raised, attempt, got, device, dmem, losses>>

(* read_until_bytes drops what it read up to the marker, and the marker. *)
Finds ==
    /\ Waiting("until") /\ Holds(NextOp.what.cmd)
    /\ rx' = After(NextOp.what.cmd)
    /\ todo' = Tail(todo)
    /\ got' = IF NextOp.what.cmd = "DUMPING" THEN <<>> ELSE got
    /\ UNCHANGED <<raised, attempt, sent, device, dmem, losses>>

Refused ==
    /\ Waiting("until") /\ MayRefuse
    /\ ~Holds(NextOp.what.cmd) /\ Holds("ERROR")
    /\ rx' = After("ERROR")
    /\ Raises
    /\ UNCHANGED <<attempt, got, sent, device, dmem, losses>>

(* read_exact takes any bytes: it does not look for the marker. *)
ReadsExact ==
    /\ Waiting("exact") /\ Len(rx) >= ChunkBytes
    /\ got' = Append(got, SubSeq(rx, 1, ChunkBytes))
    /\ rx' = SubSeq(rx, ChunkBytes + 1, Len(rx))
    /\ todo' = Tail(todo)
    /\ UNCHANGED <<raised, attempt, sent, device, dmem, losses>>

(* The run is awaited without a deadline. *)
StarvedButRunning ==
    \/ /\ Waiting("until") /\ NextOp.what.cmd # "DUMPING"
       /\ ~Holds(NextOp.what.cmd) /\ ~(MayRefuse /\ Holds("ERROR"))
    \/ Waiting("exact") /\ Len(rx) < ChunkBytes

Starved ==
    \/ Waiting("until") /\ ~Holds(NextOp.what.cmd) /\ ~(MayRefuse /\ Holds("ERROR"))
    \/ Waiting("exact") /\ Len(rx) < ChunkBytes

(* TimeoutError; sync_prompt asks once more before it lets it out. *)
TimesOut ==
    /\ Starved
    /\ IF NextOp.part = "sync" /\ attempt < Attempts
       THEN /\ attempt' = attempt + 1
            /\ todo' = SyncPrompt \o Tail(todo)
            /\ UNCHANGED raised
       ELSE Raises /\ UNCHANGED attempt
    /\ UNCHANGED <<got, sent, rx, device, dmem, losses>>

---------------------------------------------------------------------------
(* The firmware and the line: external. *)

Reply(request) ==
    CASE request.cmd = "help" -> Text("PROMPT")
      [] request.cmd = "load" /\ device = "loading" -> Text("READY")
      [] request.cmd = "payload" -> Text("COMPLETE") \o Text("PROMPT")
      [] request.cmd = "run" /\ device = "loading" -> <<>>
      [] request.cmd = "dump" ->
           Text("BEGIN") \o Data(request.n, dmem.state)
           \o Text("CR") \o Text("LF") \o Text("PROMPT")
      [] request.cmd = "done" /\ device = "dumping" -> Text("LOADING") \o Text("PROMPT")
      [] OTHER -> Text("ERROR") \o Text("PROMPT")

(* A reply reaches the host whole, or without a burst of its units. *)
Transmits(reply) ==
    \/ rx' = rx \o reply /\ UNCHANGED losses
    \/ /\ losses < MaxLosses /\ losses' = losses + 1
       /\ \E n \in Bursts, i \in 0..Len(reply) :
             /\ i + n <= Len(reply)
             /\ rx' = rx \o SubSeq(reply, 1, i) \o SubSeq(reply, i + n + 1, Len(reply))

(* The firmware answers one command after the other; a run keeps it busy. *)
Answers ==
    /\ sent # <<>> /\ device # "running"
    /\ LET request == Head(sent) IN
       /\ Transmits(Reply(request))
       /\ device' = CASE request.cmd = "run" /\ device = "loading" -> "running"
                      [] request.cmd = "done" /\ device = "dumping" -> "loading"
                      [] OTHER -> device
       /\ dmem' = IF request.cmd = "payload" /\ request.region # "imem"
                  THEN [dmem EXCEPT ![request.region] = request.n] ELSE dmem
    /\ sent' = Tail(sent)
    /\ UNCHANGED <<todo, raised, attempt, got>>

(* The kernel makes the steps its arguments name, or the core never gets   *)
(* to the dumping state and the firmware gives up.                         *)
KernelEnds ==
    /\ device = "running"
    /\ device' = "dumping"
    /\ dmem' = [dmem EXCEPT !.state = @ + dmem.args]
    /\ Transmits(Text("DUMPING") \o Text("PROMPT"))
    /\ UNCHANGED <<todo, raised, attempt, got, sent>>

KernelHangs ==
    /\ device = "running"
    /\ device' = "loading"
    /\ Transmits(Text("ERROR") \o Text("PROMPT"))
    /\ UNCHANGED <<todo, raised, attempt, got, sent, dmem>>

UartInit ==
    /\ todo = SyncPrompt \o LoadBinary("imem", 0)
    /\ raised = FALSE /\ attempt = 1 /\ got = <<>>
    /\ sent = <<>> /\ rx \in {<<>>, Text("PROMPT")}
    /\ device = "loading" /\ dmem = [args |-> 0, state |-> 0]
    /\ losses = 0

Client == Writes \/ Finds \/ Refused \/ ReadsExact \/ TimesOut
Board == Answers \/ KernelEnds \/ KernelHangs

=============================================================================
