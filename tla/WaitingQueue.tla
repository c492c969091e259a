---------------------------- MODULE WaitingQueue ----------------------------
(***************************************************************************)
(* internal/queue/queue.go: the slice of QueueUser entries, guarded by one *)
(* RWMutex.  An entry is the session that queued and the WebSocket it      *)
(* queued with.  Add, Remove, PopFront hold the write lock and             *)
(* BroadcastPositions the read lock for their whole body, so each is one   *)
(* operator here: no other queue operation can overlap it.                 *)
(***************************************************************************)
EXTENDS SequencesExt

(* QueueUser *)
Entry(id, conn) == [id |-> id, conn |-> conn]

Add(q, id, conn) == Append(q, Entry(id, conn))

(* Wrong on purpose: finds no entry for anybody.                           *)
ForgetToLeave(q, id) == q

(* Wrong on purpose: the entry leaves and the last one takes its place.    *)
SwapLeave(q, id) ==
  LET i == SelectInSeq(q, LAMBDA e : e.id = id)
  IN  IF i = 0 THEN q ELSE Front([q EXCEPT ![i] = Last(q)])

(* Remove deletes the FIRST entry with this id, wherever it queued from;   *)
(* an id that is not queued changes nothing.                               *)
Leave(q, id) == RemoveFirstMatch(q, LAMBDA e : e.id = id)

(* The queueUpdate a connection is sent.  NoUpdate: it was sent none.      *)
Update(position, total) == [position |-> position, total |-> total]
NoUpdate == Update(0, 0)

(* BroadcastPositions, as what each connection of conns hears from it.     *)
BroadcastPositions(q, conns) ==
  [c \in conns |->
     IF \E i \in DOMAIN q : q[i].conn = c
     THEN Update(CHOOSE i \in DOMAIN q : q[i].conn = c, Len(q))
     ELSE NoUpdate]
=============================================================================
