----------------------------- MODULE WaitingLine -----------------------------
(***************************************************************************)
(* What the waiting line promises, whoever runs it: a ticket joins once,   *)
(* at the tail; tickets leave in any order, one at a time; nobody overtakes*)
(* and nobody who left comes back with the same ticket.  Lobby implements  *)
(* it with one ticket per WebSocket connection.                            *)
(***************************************************************************)
EXTENDS SequencesExt

CONSTANT Tickets

VARIABLES
  line,   \* the tickets in the line, head first
  seen    \* every ticket that ever joined

vars == <<line, seen>>

Init == line = <<>> /\ seen = {}

Join(t) ==
  /\ t \notin seen
  /\ line' = Append(line, t)
  /\ seen' = seen \cup {t}

DropOut(i) ==
  /\ line' = RemoveAt(line, i)
  /\ UNCHANGED seen

Next == (\E t \in Tickets : Join(t)) \/ (\E i \in DOMAIN line : DropOut(i))

Spec == Init /\ [][Next]_vars
=============================================================================
