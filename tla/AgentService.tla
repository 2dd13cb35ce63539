---------------------------- MODULE AgentService ----------------------------
(***************************************************************************)
(* What the FPGA agent promises to those that use it, without locks,       *)
(* loops, tools or processes: requests are admitted only while the board   *)
(* may be used, are served one after the other in the order they came, and *)
(* the record changes with what was served.  A thermal lock-out falls      *)
(* between two requests and turns away whatever programming waits.         *)
(***************************************************************************)
EXTENDS Integers, Sequences

CONSTANTS Images, NoImage

VARIABLES image,  \* what the board is recorded to run
          lost,   \* communication with the board is lost
          hot,    \* the board is locked out
          mode,   \* what the board is used for
          line    \* the requests that are admitted, the one at the board first

vars == <<image, lost, hot, mode, line>>

Modes == {"demo", "project"}

\* A request has begun once its tool may touch the board.
Requests == [op    : {"pl", "ps", "reset"},
             image : Images \cup {NoImage},
             mode  : Modes,
             begun : BOOLEAN]

Open(r) == ~hot /\ mode = r.mode

AtBoard == line # << >> /\ Head(line).begun

Init ==
    /\ image = NoImage
    /\ lost = FALSE
    /\ hot = FALSE
    /\ mode \in Modes
    /\ line = << >>

\* A newcomer goes to the end, and begins at once only where nobody waits.
Admit ==
    /\ Len(line') > Len(line)
    /\ \E r \in Requests :
          /\ Open(r)
          /\ r.begun => line = << >>
          /\ line' = Append(line, r)
    /\ UNCHANGED <<image, lost, hot, mode>>

\* The next request begins; a reset is let through to a board that has changed.
Begin ==
    /\ line # << >> /\ ~AtBoard
    /\ Head(line).op = "reset" \/ Open(Head(line))
    /\ line' = [line EXCEPT ![1].begun = TRUE]
    /\ UNCHANGED <<image, lost, hot, mode>>

TurnAway ==
    /\ line # << >> /\ ~AtBoard
    /\ Head(line).op # "reset" /\ ~Open(Head(line))
    /\ line' = Tail(line)
    /\ UNCHANGED <<image, lost, hot, mode>>

Succeed ==
    /\ AtBoard
    /\ image' = CASE Head(line).op = "pl"    -> Head(line).image
                  [] Head(line).op = "ps"    -> image
                  [] Head(line).op = "reset" -> NoImage
    /\ lost' = FALSE
    /\ line' = Tail(line)
    /\ UNCHANGED <<hot, mode>>

Fail ==
    /\ AtBoard
    /\ line' = Tail(line)
    /\ UNCHANGED <<image, lost, hot, mode>>

\* The board is not heard of any more, even in the middle of a request.
Lose ==
    /\ lost' = TRUE
    /\ image' = NoImage
    /\ UNCHANGED <<hot, mode, line>>

\* What is over is over: the image that was lost does not come back.
Recover ==
    /\ lost' \in {lost, FALSE}
    /\ hot' \in {hot, FALSE}
    /\ UNCHANGED <<image, mode, line>>

\* Never while a request is at the board.
Lockout ==
    /\ hot' = TRUE
    /\ ~AtBoard
    /\ image' \in {image, NoImage}
    /\ UNCHANGED <<lost, mode, line>>

SetMode ==
    /\ mode' \in Modes
    /\ UNCHANGED <<image, lost, hot, line>>

\* A new process knows of no request, of no image and of no fault.
Restart ==
    /\ image' = NoImage
    /\ lost' = FALSE
    /\ hot' = FALSE
    /\ mode' \in Modes
    /\ line' = << >>

Serve ==
    \/ Admit \/ Begin \/ TurnAway \/ Succeed \/ Fail
    \/ Lose \/ Recover \/ Lockout
    \/ SetMode

Next == Serve \/ Restart

\* The service of one process, and that of a process which may be restarted.
ProcessSpec == Init /\ [][Serve]_vars
Spec == Init /\ [][Next]_vars
=============================================================================
