------------------------------- MODULE Windows -------------------------------
(***************************************************************************)
(* What a rate limiter with fixed windows promises an address, whatever it *)
(* stores: a window opens with a request and stays open for Window ticks;  *)
(* while it is open, requests pass until the quota is used up.  Nothing is *)
(* ever cleaned up here.  RateLimit implements it.                         *)
(***************************************************************************)
EXTENDS Naturals

CONSTANTS Addresses, Window, Quota

VARIABLES
  used,   \* requests that passed in the latest window of each address
  since   \* ticks since that window opened; Window + 1: it is closed

vars == <<used, since>>

Closed == Window + 1

Init ==
  /\ used = [a \in Addresses |-> 0]
  /\ since = [a \in Addresses |-> Closed]

Open(a) ==
  /\ since[a] = Closed
  /\ used' = [used EXCEPT ![a] = 1]
  /\ since' = [since EXCEPT ![a] = 0]

Pass(a) ==
  /\ since[a] # Closed
  /\ used[a] < Quota
  /\ used' = [used EXCEPT ![a] = used[a] + 1]
  /\ UNCHANGED since

(* A closed window is forgotten.                                           *)
Tick ==
  /\ since' = [a \in Addresses |-> IF since[a] = Closed THEN Closed ELSE since[a] + 1]
  /\ used' = [a \in Addresses |-> IF since'[a] = Closed THEN 0 ELSE used[a]]

Next == Tick \/ \E a \in Addresses : Open(a) \/ Pass(a)

Spec == Init /\ [][Next]_vars
=============================================================================
