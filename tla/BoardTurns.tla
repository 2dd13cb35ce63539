----------------------------- MODULE BoardTurns -----------------------------
(***************************************************************************)
(* What the session store promises, without sessions: one board, and       *)
(* tickets served strictly in the order they were drawn.  A ticket may be  *)
(* given back while it waits.  The board is handed to the head of the      *)
(* line, to nobody else, and only when nobody holds it.                    *)
(***************************************************************************)
EXTENDS Integers, Sequences

CONSTANTS Tickets, NoTicket

VARIABLES issued,   \* the last ticket drawn
          waiting,  \* tickets in the line, front first
          holder    \* the ticket that has the board, or NoTicket

vars == <<issued, waiting, holder>>

InLine(t) == \E k \in 1..Len(waiting) : waiting[k] = t

Init == issued = 0 /\ waiting = << >> /\ holder = NoTicket

Draw ==
    /\ issued + 1 \in Tickets
    /\ issued' = issued + 1
    /\ waiting' = Append(waiting, issued + 1)
    /\ UNCHANGED holder

Take ==
    /\ holder = NoTicket
    /\ waiting # << >>
    /\ holder' = Head(waiting)
    /\ waiting' = Tail(waiting)
    /\ UNCHANGED issued

\* Everybody behind t moves up, and nobody overtakes.
GiveBack(t) ==
    /\ InLine(t)
    /\ \E k \in 1..Len(waiting) :
          /\ waiting[k] = t
          /\ waiting' = [j \in 1..(Len(waiting) - 1) |->
                            IF j < k THEN waiting[j] ELSE waiting[j + 1]]
    /\ UNCHANGED <<issued, holder>>

Return ==
    /\ holder # NoTicket
    /\ holder' = NoTicket
    /\ UNCHANGED <<issued, waiting>>

Next == Draw \/ Take \/ (\E t \in Tickets : GiveBack(t)) \/ Return

Spec == Init /\ [][Next]_vars
=============================================================================
