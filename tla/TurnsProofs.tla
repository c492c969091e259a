----------------------------- MODULE TurnsProofs -----------------------------
(***************************************************************************)
(* The properties of Turns for any number of sessions, connections, calls  *)
(* of the executor and transitions.                                        *)
(***************************************************************************)
EXTENDS Turns, WaitingQueueProofs

Values == {Waiting, Stage1Dino, Registering}
MoveRecords == [at : {"idle", "write", "done"}, of : Sessions \cup {NoSession}, to : Values]

(* An entry of the line names a connection that was queued for the session *)
(* that it names, which was in the store then.                             *)
Known(x) == conn[x.conn] # "new" /\ owner[x.conn] = x.id /\ store[x.id] # "none"

LineSound == NoTwice(queue) /\ \A i \in DOMAIN queue : Known(queue[i])

(* The callback that has popped holds a known entry.                       *)
Holding == {"lookup", "age", "expire", "promote", "tell", "broadcast"}
PopSound ==
  \A e \in Calls :
    /\ first[e] # NoEntry => Known(first[e])
    /\ pc[e] \in Holding => first[e] # NoEntry

-----------------------------------------------------------------------------
(* What a step does to the line, the store and the connections             *)

LEMMA QueueSteps ==
  ASSUME TypeOK, [Next]_vars
  PROVE  \/ UNCHANGED <<queue, first>>
         \/ \E c \in Conns, s \in Sessions : Enqueue(c, s) /\ UNCHANGED first
         \/ \E c \in Conns : Depart(c) /\ UNCHANGED first
         \/ \E e \in Calls : /\ Pop(e) /\ queue # <<>> /\ queue' = Tail(queue)
                             /\ first' = [first EXCEPT ![e] = Head(queue)]
<1>1. CASE StoreStep \/ Execute \/ Cancel
  BY <1>1 DEF StoreStep, Create, Elapse, Delete, Execute, Cancel, lineVars
<1>2. ASSUME NEW c \in Conns, Announce(c) \/ Depart(c) \/ \E s \in Sessions : Enqueue(c, s)
      PROVE  /\ UNCHANGED first
             /\ UNCHANGED queue \/ Depart(c) \/ \E s \in Sessions : Enqueue(c, s)
  BY <1>2 DEF Announce, Depart, Enqueue
<1>3. ASSUME NEW e \in Calls, ExecuteWithCallback(e) \/ Fire(e) PROVE UNCHANGED <<queue, first>>
  BY <1>3 DEF ExecuteWithCallback, Fire, lineVars
<1>4. ASSUME NEW e \in Calls, CallStep(e), ~Pop(e) PROVE UNCHANGED <<queue, first>>
  BY <1>4 DEF CallStep, Await, Wake, Check, Lookup, Age, Step, Expire, Promote, Tell,
              TellTheRest, lineVars
<1>5. ASSUME NEW e \in Calls, Pop(e)
      PROVE  \/ UNCHANGED <<queue, first>>
             \/ /\ queue # <<>> /\ queue' = Tail(queue)
                /\ first' = [first EXCEPT ![e] = Head(queue)]
  BY <1>5 DEF Pop
<1>6. ASSUME NEW m \in Moves, MoveStep(m) PROVE UNCHANGED <<queue, first>>
  BY <1>6 DEF MoveStep, CanTransition, Transition, lineVars
<1>7. CASE UNCHANGED vars
  BY <1>7 DEF vars, lineVars
<1> QED BY <1>1, <1>2, <1>3, <1>4, <1>5, <1>6, <1>7 DEF Next, ConnStep

(* Ids and connections are used once: what an entry says stays true.       *)
LEMMA StoreSteps ==
  ASSUME TypeOK, [Next]_vars, NEW s \in Sessions
  PROVE  /\ store[s] # "none" => store'[s] # "none"
         /\ store[s] = "out" => store'[s] = "out"
         /\ s \in aged => s \in aged'
<1> USE DEF TypeOK
<1>1. CASE StoreStep
  BY <1>1 DEF StoreStep, Create, Elapse, Delete, Removed
<1>2. CASE Execute \/ Cancel
  BY <1>2 DEF Execute, Cancel, storeVars
<1>3. ASSUME NEW c \in Conns, Announce(c) \/ Depart(c) \/ \E t \in Sessions : Enqueue(c, t)
      PROVE  UNCHANGED storeVars
  BY <1>3 DEF Announce, Depart, Enqueue
<1>4. ASSUME NEW e \in Calls, ExecuteWithCallback(e) \/ Fire(e) \/ (CallStep(e) /\ ~Expire(e))
      PROVE  UNCHANGED storeVars
  BY <1>4 DEF ExecuteWithCallback, Fire, CallStep, Await, Wake, Check, Pop, Lookup, Age, Step,
              Promote, Tell, TellTheRest
<1>5. ASSUME NEW e \in Calls, Expire(e) PROVE aged' = aged /\ store' = [store EXCEPT ![first[e].id] = "out"]
  BY <1>5 DEF Expire, Removed
<1>6. ASSUME NEW m \in Moves, MoveStep(m) PROVE UNCHANGED storeVars
  BY <1>6 DEF MoveStep, CanTransition, Transition
<1>7. CASE UNCHANGED vars
  BY <1>7 DEF vars, storeVars
<1> QED BY <1>1, <1>2, <1>3, <1>4, <1>5, <1>6, <1>7 DEF Next, ConnStep, storeVars

LEMMA ConnSteps ==
  ASSUME TypeOK, [Next]_vars, NEW c \in Conns
  PROVE  /\ conn[c] # "new" => conn'[c] # "new" /\ owner'[c] = owner[c]
         /\ conn'[c] = conn[c] \/ Announce(c) \/ Depart(c) \/ \E s \in Sessions : Enqueue(c, s)
<1> USE DEF TypeOK
<1>1. CASE StoreStep \/ Execute \/ Cancel
  BY <1>1 DEF StoreStep, Create, Elapse, Delete, Execute, Cancel, lineVars
<1>2. ASSUME NEW d \in Conns, Announce(d) PROVE (c = d \/ conn'[c] = conn[c]) /\ owner' = owner
                                                /\ (conn[c] # "new" => conn'[c] # "new")
  BY <1>2 DEF Announce
<1>3. ASSUME NEW d \in Conns, Depart(d) PROVE (c = d \/ conn'[c] = conn[c]) /\ owner' = owner
                                              /\ (conn[c] # "new" => conn'[c] # "new")
  BY <1>3 DEF Depart
<1>4. ASSUME NEW d \in Conns, NEW s \in Sessions, Enqueue(d, s)
      PROVE  /\ c = d \/ conn'[c] = conn[c]
             /\ conn[c] # "new" => conn'[c] # "new" /\ owner'[c] = owner[c]
  BY <1>4 DEF Enqueue
<1>5. ASSUME NEW e \in Calls, ExecuteWithCallback(e) \/ Fire(e) \/ CallStep(e)
      PROVE  UNCHANGED <<conn, owner>>
  BY <1>5 DEF ExecuteWithCallback, Fire, CallStep, Await, Wake, Check, Pop, Lookup, Age, Step,
              Expire, Promote, Tell, TellTheRest, lineVars
<1>6. ASSUME NEW m \in Moves, MoveStep(m) PROVE UNCHANGED <<conn, owner>>
  BY <1>6 DEF MoveStep, CanTransition, Transition, lineVars
<1>7. CASE UNCHANGED vars
  BY <1>7 DEF vars, lineVars
<1> QED BY <1>1, <1>2, <1>3, <1>4, <1>5, <1>6, <1>7 DEF Next, ConnStep

LEMMA KnownStays ==
  ASSUME TypeOK, [Next]_vars, NEW x \in Entries, Known(x)
  PROVE  Known(x)'
<1>1. x.conn \in Conns /\ x.id \in Sessions
  BY DEF Entries
<1> QED BY <1>1, StoreSteps, ConnSteps DEF Known

-----------------------------------------------------------------------------
(* Type correctness                                                        *)

(* The line is never longer than there are connections.                    *)
LEMMA LineLength ==
  ASSUME queue \in Seq(Entries), LineSound
  PROVE  /\ DOMAIN queue = 1..Len(queue) /\ Len(queue) \in 0..Cardinality(Conns)
         /\ Cardinality(Conns) \in Nat
         /\ \A i \in DOMAIN queue : queue[i] \in Entries /\ queue[i].conn \in Conns
<1>1. DOMAIN queue = 1..Len(queue) /\ \A i \in DOMAIN queue : queue[i] \in Entries
  BY LenProperties, ElementOfSeq
<1>2. \A i \in DOMAIN queue : queue[i].conn \in Conns
  BY <1>1 DEF Entries
<1>3. Len(queue) \in 0..Cardinality(Conns) /\ Cardinality(Conns) \in Nat
  BY <1>2, LengthBounded, FiniteConns DEF LineSound
<1> QED BY <1>1, <1>2, <1>3

LEMMA BroadcastType ==
  ASSUME TypeOK, LineSound, Broadcast
  PROVE  heard' \in [Conns -> Messages]
<1> DEFINE sent(c) == BroadcastPositions(queue, Conns)[c]
<1>1. /\ DOMAIN queue = 1..Len(queue) /\ Len(queue) \in 0..Cardinality(Conns)
      /\ Cardinality(Conns) \in Nat
  BY LineLength DEF TypeOK
<1>2. ASSUME NEW c \in Conns PROVE sent(c) \in Messages
  <2>1. CASE \E i \in DOMAIN queue : queue[i].conn = c
    <3>1. (CHOOSE i \in DOMAIN queue : queue[i].conn = c) \in 1..Len(queue)
      BY <1>1, <2>1
    <3>2. sent(c) = Update(CHOOSE i \in DOMAIN queue : queue[i].conn = c, Len(queue))
      BY <2>1 DEF BroadcastPositions
    <3> QED BY <1>1, <3>1, <3>2 DEF Update, Messages
  <2>2. CASE ~\E i \in DOMAIN queue : queue[i].conn = c
    BY <1>1, <2>2 DEF BroadcastPositions, NoUpdate, Update, Messages
  <2> QED BY <2>1, <2>2
<1>3. ASSUME NEW c \in Conns
      PROVE  (IF sent(c) = NoUpdate THEN heard[c] ELSE sent(c)) \in Messages
  BY <1>2 DEF TypeOK
<1>4. heard' = [c \in Conns |-> IF sent(c) = NoUpdate THEN heard[c] ELSE sent(c)]
  BY DEF Broadcast
<1> HIDE DEF sent
<1> QED BY <1>3, <1>4

LEMMA HeldEntry ==
  ASSUME TypeOK, PopSound, NEW e \in Calls, pc[e] \in Holding
  PROVE  first[e] \in Entries /\ first[e].id \in Sessions /\ first[e].conn \in Conns
BY DEF TypeOK, PopSound, Entries

LEMMA TypeCall ==
  ASSUME TypeOK, LineSound, PopSound, NEW e \in Calls,
         ExecuteWithCallback(e) \/ Fire(e) \/ CallStep(e)
  PROVE  TypeOK'
<1>1. CASE ExecuteWithCallback(e)
  BY <1>1 DEF ExecuteWithCallback, Uncancel, GoTo, Places, TypeOK, storeVars, userVars, lineVars
<1>2. CASE Fire(e)
  BY <1>2 DEF Fire, TypeOK, storeVars, userVars, lineVars
<1>3. CASE Await(e)
  BY <1>3 DEF Await, GoTo, Places, TypeOK, storeVars, userVars, lineVars
<1>4. CASE Wake(e)
  BY <1>4 DEF Wake, GoTo, Places, TypeOK, storeVars, userVars, lineVars
<1>5. CASE Check(e) \/ Lookup(e) \/ Age(e)
  <2>1. \E place \in Places : GoTo(e, place)
    BY <1>5 DEF Check, Lookup, Age, Step, Places
  <2>2. UNCHANGED <<storeVars, userVars, lineVars, executorVars, first, move>>
    BY <1>5 DEF Check, Lookup, Age, Step
  <2> QED BY <2>1, <2>2 DEF GoTo, TypeOK, storeVars, userVars, lineVars, executorVars
<1>6. CASE Pop(e)
  <2>1. CASE queue = <<>>
    BY <1>6, <2>1 DEF Pop, GoTo, Places, TypeOK, storeVars, userVars, executorVars
  <2>2. CASE queue # <<>>
    <3>0. queue \in Seq(Entries) /\ first \in [Calls -> Entries \cup {NoEntry}]
      BY DEF TypeOK
    <3>1. Tail(queue) \in Seq(Entries) /\ Head(queue) \in Entries
      BY <2>2, <3>0, HeadTailProperties
    <3>2. queue' = Tail(queue) /\ first' = [first EXCEPT ![e] = Head(queue)]
      BY <1>6, <2>2 DEF Pop
    <3>3. first' \in [Calls -> Entries \cup {NoEntry}]
      BY <3>0, <3>1, <3>2
    <3> QED BY <1>6, <2>2, <3>1, <3>2, <3>3 DEF Pop, GoTo, Places, TypeOK, storeVars, userVars, executorVars
  <2> QED BY <2>1, <2>2
<1>7. CASE Expire(e)
  BY <1>7 DEF Expire, Removed, GoTo, Places, TypeOK, userVars, lineVars, executorVars
<1>8. CASE Promote(e)
  <2>1. first[e].conn \in Conns
    BY <1>8, HeldEntry DEF Promote, At, Holding
  <2> QED BY <1>8, <2>1 DEF Promote, SetStatus, GoTo, Places, TypeOK, storeVars, lineVars, executorVars
<1>9. CASE Tell(e)
  <2>1. first[e].conn \in Conns
    BY <1>9, HeldEntry DEF Tell, At, Holding
  <2> QED BY <1>9, <2>1 DEF Tell, GoTo, Places, TypeOK, storeVars, userVars, executorVars
<1>10. CASE TellTheRest(e)
  <2>1. heard' \in [Conns -> Messages]
    BY <1>10, BroadcastType DEF TellTheRest
  <2> QED BY <1>10, <2>1 DEF TellTheRest, GoTo, Places, TypeOK, storeVars, userVars, executorVars
<1> QED BY <1>1, <1>2, <1>3, <1>4, <1>5, <1>6, <1>7, <1>8, <1>9, <1>10 DEF CallStep

LEMMA TypeNext == TypeOK /\ LineSound /\ PopSound /\ [Next]_vars => TypeOK'
<1> SUFFICES ASSUME TypeOK, LineSound, PopSound, [Next]_vars PROVE TypeOK'
  OBVIOUS
<1>1. CASE StoreStep
  BY <1>1 DEF StoreStep, Create, Elapse, Delete, Removed, TypeOK, userVars, lineVars, executorVars
<1>2. CASE Execute \/ Cancel
  BY <1>2 DEF Execute, Uncancel, Cancel, TypeOK, storeVars, userVars, lineVars
<1>3. ASSUME NEW c \in Conns, Announce(c) PROVE TypeOK'
  <2>1. heard' \in [Conns -> Messages]
    BY <1>3, BroadcastType DEF Announce
  <2> QED BY <1>3, <2>1 DEF Announce, TypeOK, storeVars, userVars, executorVars
<1>4. ASSUME NEW c \in Conns, Depart(c) PROVE TypeOK'
  <2>1. queue' \in Seq(Entries)
    BY <1>4, LeaveType DEF Depart, TypeOK
  <2> QED BY <1>4, <2>1 DEF Depart, TypeOK, storeVars, userVars, executorVars
<1>5. ASSUME NEW c \in Conns, NEW s \in Sessions, Enqueue(c, s) PROVE TypeOK'
  <2>1. Entry(s, c) \in Entries
    BY DEF Entry, Entries
  <2>2. queue' \in Seq(Entries)
    BY <1>5, <2>1, AppendProperties DEF Enqueue, Add, TypeOK
  <2> QED BY <1>5, <2>2 DEF Enqueue, TypeOK, storeVars, userVars, executorVars
<1>6. ASSUME NEW m \in Moves, NEW s \in Sessions, NEW to \in Values, CanTransition(m, s, to)
      PROVE  TypeOK'
  <2>1. [at |-> "write", of |-> s, to |-> to] \in MoveRecords
    BY DEF MoveRecords
  <2>2. move' \in [Moves -> MoveRecords]
    BY <1>6, <2>1 DEF CanTransition, TypeOK, MoveRecords, Values
  <2> QED BY <1>6, <2>2 DEF CanTransition, TypeOK, MoveRecords, Values, storeVars, userVars, lineVars, executorVars
<1>7. ASSUME NEW m \in Moves, Transition(m) PROVE TypeOK'
  <2>1. move[m] \in MoveRecords /\ move[m].to \in Values
    BY DEF TypeOK, MoveRecords, Values
  <2>2. [move[m] EXCEPT !.at = "done"] \in MoveRecords
    BY <2>1 DEF MoveRecords
  <2>3. move' \in [Moves -> MoveRecords]
    BY <1>7, <2>2 DEF Transition, TypeOK, MoveRecords, Values
  <2>4. status' \in [Sessions -> Values] /\ overtaken' \subseteq Moves
    BY <1>7, <2>1 DEF Transition, SetStatus, TypeOK, Values
  <2> QED BY <1>7, <2>3, <2>4 DEF Transition, TypeOK, MoveRecords, Values, storeVars, lineVars, executorVars
<1>8. CASE UNCHANGED vars
  BY <1>8 DEF vars, TypeOK, storeVars, userVars, lineVars, executorVars
<1> QED BY <1>1, <1>2, <1>3, <1>4, <1>5, <1>6, <1>7, <1>8, TypeCall
        DEF Next, ConnStep, MoveStep, Values

-----------------------------------------------------------------------------
(* The line and what was popped from it                                    *)
LEMMA LineSoundNext == TypeOK /\ LineSound /\ [Next]_vars => LineSound'
<1> SUFFICES ASSUME TypeOK, LineSound, [Next]_vars PROVE LineSound'
  OBVIOUS
<1>0. /\ queue \in Seq(Entries) /\ NoTwice(queue)
      /\ \A i \in DOMAIN queue : queue[i] \in Entries /\ queue[i].conn \in Conns
  BY LineLength DEF TypeOK, LineSound
<1>1. \A x \in Entries : Known(x) => /\ conn'[x.conn] # "new" /\ owner'[x.conn] = x.id
                                     /\ store'[x.id] # "none"
  BY KnownStays DEF Known
<1>2. ASSUME NoTwice(queue'), \A i \in DOMAIN queue' : \E j \in DOMAIN queue : queue'[i] = queue[j]
      PROVE  LineSound'
  BY <1>0, <1>1, <1>2 DEF LineSound, Known, NoTwice
<1>3. CASE queue' = queue
  BY <1>0, <1>2, <1>3
<1>4. ASSUME NEW c \in Conns, Depart(c) PROVE LineSound'
  BY <1>0, <1>2, <1>4, LeaveKeepsApart DEF Depart
<1>5. CASE queue # <<>> /\ queue' = Tail(queue)
  BY <1>0, <1>2, <1>5, TailKeepsApart
<1>6. ASSUME NEW c \in Conns, NEW s \in Sessions, Enqueue(c, s) PROVE LineSound'
  <2>1. /\ conn[c] = "new" /\ store[s] # "none" /\ queue' = Add(queue, s, c) /\ store' = store
        /\ conn' = [conn EXCEPT ![c] = "joined"] /\ owner' = [owner EXCEPT ![c] = s]
    BY <1>6 DEF Enqueue, storeVars
  <2>2. Entry(s, c) \in Entries /\ Entry(s, c).conn = c /\ Entry(s, c).id = s
    BY DEF Entry, Entries
  <2>3. \A i \in DOMAIN queue : queue[i].conn # c
    BY <2>1 DEF LineSound, Known
  <2>4. /\ NoTwice(queue')
        /\ \A i \in DOMAIN queue' :
             queue'[i] = Entry(s, c) \/ \E j \in DOMAIN queue : queue'[i] = queue[j]
    BY <1>0, <2>1, <2>2, <2>3, AddKeepsApart
  <2>5. conn'[c] # "new" /\ owner'[c] = s /\ store'[s] # "none"
    BY <2>1 DEF TypeOK
  <2> HIDE <2>1
  <2>6. ASSUME NEW i \in DOMAIN queue'
        PROVE  /\ conn'[queue'[i].conn] # "new" /\ owner'[queue'[i].conn] = queue'[i].id
               /\ store'[queue'[i].id] # "none"
    <3>1. CASE queue'[i] = Entry(s, c)
      BY <2>2, <2>5, <3>1
    <3>2. CASE \E j \in DOMAIN queue : queue'[i] = queue[j]
      BY <1>0, <1>1, <3>2 DEF LineSound
    <3> QED BY <2>4, <3>1, <3>2
  <2> QED BY <2>4, <2>6 DEF LineSound, Known, NoTwice
<1> QED BY <1>3, <1>4, <1>5, <1>6, QueueSteps

(* Where a callback may come from, and that it pops before it holds.       *)
LEMMA HoldingSteps ==
  ASSUME TypeOK, [Next]_vars, NEW e \in Calls, pc'[e] \in Holding
  PROVE  pc[e] \in Holding \/ (Pop(e) /\ queue # <<>>)
<1> USE DEF TypeOK, Holding
<1>1. CASE pc'[e] = pc[e]
  BY <1>1
<1>2. CASE StoreStep \/ Execute \/ Cancel
  BY <1>2 DEF StoreStep, Create, Elapse, Delete, Execute, Cancel
<1>3. ASSUME NEW c \in Conns, Announce(c) \/ Depart(c) \/ \E s \in Sessions : Enqueue(c, s)
      PROVE  pc' = pc
  BY <1>3 DEF Announce, Depart, Enqueue
<1>4. ASSUME NEW x \in Calls, ExecuteWithCallback(x) \/ Fire(x) \/ Await(x) \/ Wake(x) \/ Check(x)
      PROVE  pc'[e] = pc[e] \/ pc'[e] \notin Holding
  BY <1>4 DEF ExecuteWithCallback, Fire, Await, Wake, Check, Step, GoTo, At
<1>5. ASSUME NEW x \in Calls, Pop(x)
      PROVE  pc'[e] = pc[e] \/ pc'[e] = "done" \/ (x = e /\ queue # <<>>)
  BY <1>5 DEF Pop, GoTo
<1>6. ASSUME NEW x \in Calls, Lookup(x) \/ Age(x) \/ Expire(x) \/ Promote(x) \/ Tell(x) \/ TellTheRest(x)
      PROVE  pc'[e] = pc[e] \/ pc[e] \in Holding
  BY <1>6 DEF Lookup, Age, Expire, Promote, Tell, TellTheRest, Step, GoTo, At
<1>7. ASSUME NEW m \in Moves, MoveStep(m) PROVE pc' = pc
  BY <1>7 DEF MoveStep, CanTransition, Transition
<1>8. CASE UNCHANGED vars
  BY <1>8 DEF vars
<1> QED BY <1>1, <1>2, <1>3, <1>4, <1>5, <1>6, <1>7, <1>8 DEF Next, ConnStep, CallStep

LEMMA PopSoundNext == TypeOK /\ LineSound /\ PopSound /\ [Next]_vars => PopSound'
<1> SUFFICES ASSUME TypeOK, LineSound, PopSound, [Next]_vars PROVE PopSound'
  OBVIOUS
<1>0. \A x \in Entries : Known(x) => /\ conn'[x.conn] # "new" /\ owner'[x.conn] = x.id
                                     /\ store'[x.id] # "none"
  BY KnownStays DEF Known
<1>1. ASSUME NEW e \in Calls, Pop(e), queue # <<>>
      PROVE  /\ first' = [first EXCEPT ![e] = Head(queue)]
             /\ Head(queue) \in Entries /\ Known(Head(queue)) /\ Head(queue) # NoEntry
  <2>1. first' = [first EXCEPT ![e] = Head(queue)]
    BY <1>1 DEF Pop
  <2>2. 1 \in DOMAIN queue /\ Head(queue) = queue[1] /\ Head(queue) \in Entries
    BY <1>1, TailKeepsApart DEF TypeOK, LineSound
  <2> QED BY <2>1, <2>2, NilIsNobody DEF LineSound, Entries
<1>2. ASSUME NEW e \in Calls
      PROVE  first'[e] = first[e] \/ (/\ first'[e] \in Entries /\ Known(first'[e]) /\ first'[e] # NoEntry)
  BY <1>1, QueueSteps DEF TypeOK
<1>3. ASSUME NEW e \in Calls, first'[e] # NoEntry
      PROVE  /\ conn'[first'[e].conn] # "new" /\ owner'[first'[e].conn] = first'[e].id
             /\ store'[first'[e].id] # "none"
  <2>1. first'[e] \in Entries /\ Known(first'[e])
    BY <1>2, <1>3 DEF TypeOK, PopSound
  <2> QED BY <1>0, <2>1
<1>4. ASSUME NEW e \in Calls, pc'[e] \in Holding PROVE first'[e] # NoEntry
  <2>1. CASE pc[e] \in Holding
    BY <1>2, <2>1 DEF PopSound
  <2>2. CASE Pop(e) /\ queue # <<>>
    BY <1>1, <2>2 DEF TypeOK
  <2> QED BY <1>4, <2>1, <2>2, HoldingSteps
<1> QED BY <1>3, <1>4 DEF PopSound, Known, Holding

Sound == TypeOK /\ LineSound /\ PopSound

LEMMA SoundInit == Init => Sound
<1> SUFFICES ASSUME Init PROVE Sound
  OBVIOUS
<1>1. queue \in Seq(Entries) /\ Cardinality(Conns) \in Nat
  BY EmptySeq, FiniteConns, FS_CardinalityType DEF Init
<1>2. NoMove \in MoveRecords
  BY DEF NoMove, MoveRecords, Values
<1>3. TypeOK
  <2>1. heard \in [Conns -> Messages]
    BY <1>1 DEF Init, Messages, NoUpdate, Update
  <2>2. move \in [Moves -> MoveRecords]
    BY <1>2 DEF Init
  <2>3. /\ store \in [Sessions -> {"none", "in", "out"}] /\ status \in [Sessions -> Values]
        /\ conn \in [Conns -> {"new", "joined", "in", "left", "gone"}]
        /\ owner \in [Conns -> Sessions \cup {NoSession}]
    BY DEF Init, Values
  <2>4. /\ chan \in [Calls -> {"none", "armed", "fired", "taken", "stopped"}]
        /\ pc \in [Calls -> Places] /\ waits \in [Calls -> Calls \cup {NoTimer}]
        /\ first \in [Calls -> Entries \cup {NoEntry}]
    BY DEF Init, Places
  <2>5. /\ aged \subseteq Sessions /\ told \subseteq Conns /\ canceled \in BOOLEAN
        /\ timer \in Calls \cup {NoTimer} /\ revoked \subseteq Calls
        /\ promoted \subseteq Conns /\ overtaken \subseteq Moves
    BY DEF Init
  <2> QED BY <1>1, <2>1, <2>2, <2>3, <2>4, <2>5 DEF TypeOK, MoveRecords, Values
<1>4. LineSound /\ PopSound
  BY DEF Init, LineSound, NoTwice, PopSound, Holding
<1> QED BY <1>3, <1>4 DEF Sound

(* The types hold together with the soundness of the line: that nobody is  *)
(* in it twice bounds the positions by the number of connections, and that *)
(* a callback holds an entry gives it a session and a connection.          *)
THEOREM TypeCorrect == Spec => []TypeOK
<1>1. Sound /\ [Next]_vars => Sound'
  BY TypeNext, LineSoundNext, PopSoundNext DEF Sound
<1>2. Sound => TypeOK
  BY DEF Sound
<1> QED BY <1>1, <1>2, SoundInit, PTL DEF Spec

LEMMA AlwaysSound == Spec => []Sound
<1>1. Sound /\ [Next]_vars => Sound'
  BY TypeNext, LineSoundNext, PopSoundNext DEF Sound
<1> QED BY <1>1, SoundInit, PTL DEF Spec

-----------------------------------------------------------------------------
(* One place, one callback                                                 *)

LEMMA PoppedOnceNext == Sound /\ PoppedOnce /\ [Next]_vars => PoppedOnce'
<1> SUFFICES ASSUME TypeOK, LineSound, PopSound, PoppedOnce, [Next]_vars PROVE PoppedOnce'
  BY DEF Sound
<1>0. /\ queue \in Seq(Entries) /\ NoTwice(queue)
      /\ \A i \in DOMAIN queue : queue[i] \in Entries /\ queue[i].conn \in Conns
  BY LineLength DEF TypeOK, LineSound
<1>1. CASE UNCHANGED <<queue, first>>
  BY <1>1 DEF PoppedOnce
<1>2. ASSUME NEW c \in Conns, NEW s \in Sessions, Enqueue(c, s), UNCHANGED first PROVE PoppedOnce'
  <2>1. conn[c] = "new" /\ queue' = Add(queue, s, c)
    BY <1>2 DEF Enqueue
  <2>2. Entry(s, c) \in Entries /\ Entry(s, c).conn = c
    BY DEF Entry, Entries
  <2>3. \A i \in DOMAIN queue : queue[i].conn # c
    BY <2>1 DEF LineSound, Known
  <2>4. \A i \in DOMAIN queue' :
          queue'[i] = Entry(s, c) \/ \E j \in DOMAIN queue : queue'[i] = queue[j]
    BY <1>0, <2>1, <2>2, <2>3, AddKeepsApart
  <2>5. \A e \in Calls : first[e] # NoEntry => first[e].conn # c
    BY <2>1 DEF PopSound, Known
  <2> QED BY <1>2, <2>2, <2>4, <2>5 DEF PoppedOnce
<1>3. ASSUME NEW c \in Conns, Depart(c), UNCHANGED first PROVE PoppedOnce'
  <2>1. \A i \in DOMAIN queue' : \E j \in DOMAIN queue : queue'[i] = queue[j]
    BY <1>0, <1>3, LeaveKeepsApart DEF Depart
  <2> QED BY <1>3, <2>1 DEF PoppedOnce
<1>4. ASSUME NEW e \in Calls, queue # <<>>, queue' = Tail(queue),
             first' = [first EXCEPT ![e] = Head(queue)]
      PROVE  PoppedOnce'
  <2>1. /\ \A i \in DOMAIN queue' : \E j \in DOMAIN queue : queue'[i] = queue[j]
        /\ 1 \in DOMAIN queue /\ Head(queue) = queue[1]
        /\ \A i \in DOMAIN queue' : queue'[i].conn # Head(queue).conn
    BY <1>0, <1>4, TailKeepsApart
  <2>2. first'[e] = queue[1] /\ \A x \in Calls \ {e} : first'[x] = first[x]
    BY <1>4, <2>1 DEF TypeOK
  <2>3. \A x \in Calls \ {e} : first[x] # NoEntry => first[x].conn # queue[1].conn
    BY <2>1 DEF PoppedOnce
  <2>4. queue[1] # NoEntry
    BY <1>0, <2>1, NilIsNobody DEF Entries
  <2>5. ASSUME NEW x \in Calls, first'[x] # NoEntry
        PROVE  /\ \A i \in DOMAIN queue' : queue'[i].conn # first'[x].conn
               /\ \A other \in Calls \ {x} : first'[other] # first'[x]
    <3>1. CASE x = e
      BY <2>1, <2>2, <2>3, <2>4, <3>1
    <3>2. CASE x # e
      BY <2>1, <2>2, <2>3, <2>5, <3>2 DEF PoppedOnce
    <3> QED BY <3>1, <3>2
  <2> QED BY <2>5 DEF PoppedOnce
<1> QED BY <1>1, <1>2, <1>3, <1>4, QueueSteps

(* However many callbacks promote at the same time, no two are given the   *)
(* same place, and a place that was given is in the line no more.          *)
THEOREM EachPlaceOnce == Spec => []PoppedOnce
<1>1. Init => PoppedOnce
  BY DEF Init, PoppedOnce
<1> QED BY <1>1, PoppedOnceNext, AlwaysSound, PTL DEF Spec

-----------------------------------------------------------------------------
(* Cancel                                                                  *)

(* While a call is revoked the executor stays cancelled, and the call has  *)
(* not come past its check but to end.                                     *)
Revoked == \A e \in revoked : canceled /\ pc[e] \in {"await", "waiting", "check", "done"}

LEMMA RevokedNext == TypeOK /\ Revoked /\ [Next]_vars => Revoked'
<1> SUFFICES ASSUME TypeOK, Revoked, [Next]_vars PROVE Revoked'
  OBVIOUS
<1> USE DEF Revoked
<1>1. CASE UNCHANGED <<revoked, canceled, pc>>
  BY <1>1
<1>2. CASE StoreStep
  BY <1>1, <1>2 DEF StoreStep, Create, Elapse, Delete, executorVars
<1>3. CASE ConnStep
  BY <1>1, <1>3 DEF ConnStep, Announce, Depart, Enqueue, executorVars
<1>4. CASE Execute
  BY <1>4 DEF Execute, Uncancel
<1>5. CASE Cancel
  BY <1>5 DEF Cancel, Pending
<1>6. ASSUME NEW e \in Calls, ExecuteWithCallback(e) PROVE Revoked'
  BY <1>6 DEF ExecuteWithCallback, Uncancel
<1>7. ASSUME NEW e \in Calls, Fire(e) PROVE Revoked'
  BY <1>1, <1>7 DEF Fire
<1>8. ASSUME NEW e \in Calls, Await(e) \/ Wake(e) PROVE Revoked'
  BY <1>8 DEF Await, Wake, GoTo, TypeOK
<1>9. ASSUME NEW e \in Calls, Check(e) PROVE Revoked'
  BY <1>9 DEF Check, Step, At, GoTo, executorVars, TypeOK
<1>10. ASSUME NEW e \in Calls,
              Pop(e) \/ Lookup(e) \/ Age(e) \/ Expire(e) \/ Promote(e) \/ Tell(e) \/ TellTheRest(e)
       PROVE  Revoked'
  <2>1. revoked' = revoked /\ canceled' = canceled /\ e \notin revoked
    BY <1>10 DEF Pop, Lookup, Age, Step, Expire, Promote, Tell, TellTheRest, At, executorVars
  <2>2. \A x \in Calls \ {e} : pc'[x] = pc[x]
    BY <1>10 DEF Pop, Lookup, Age, Step, Expire, Promote, Tell, TellTheRest, GoTo, TypeOK
  <2> QED BY <2>1, <2>2 DEF TypeOK
<1>11. ASSUME NEW m \in Moves, MoveStep(m) PROVE Revoked'
  BY <1>1, <1>11 DEF MoveStep, CanTransition, Transition, executorVars
<1>12. CASE UNCHANGED vars
  BY <1>1, <1>12 DEF vars, executorVars
<1> QED BY <1>2, <1>3, <1>4, <1>5, <1>6, <1>7, <1>8, <1>9, <1>10, <1>11, <1>12 DEF Next, CallStep

(* A call that was cancelled before its delay was over never runs its      *)
(* callback, whatever timers the other calls have put in the executor, as  *)
(* long as none of them takes the cancellation back.                       *)
THEOREM CancelHolds == Spec => []NoneAfterCancel
<1>1. Init => Revoked
  BY DEF Init, Revoked
<1>2. Sound /\ Revoked /\ [Next]_vars => Revoked'
  BY RevokedNext DEF Sound
<1>3. Revoked => NoneAfterCancel
  BY DEF Revoked, NoneAfterCancel, InCallback
<1> QED BY <1>1, <1>2, <1>3, AlwaysSound, PTL DEF Spec

-----------------------------------------------------------------------------
(* The timers                                                              *)

(* Past its await a call has a timer that was armed, and a value that was  *)
(* taken was taken by a call that does not wait any more.                  *)
Timed ==
  /\ timer # NoTimer => chan[timer] # "none"
  /\ \A e \in Calls :
       /\ pc[e] # "idle" => timer # NoTimer
       /\ pc[e] \notin {"idle", "await"} => waits[e] \in Calls /\ chan[waits[e]] # "none"
       /\ chan[e] = "taken" =>
            \E other \in Calls : waits[other] = e /\ pc[other] \notin {"idle", "await", "waiting"}

LEMMA TimedNext == TypeOK /\ Timed /\ [Next]_vars => Timed'
<1> SUFFICES ASSUME TypeOK, Timed, [Next]_vars PROVE Timed'
  OBVIOUS
<1> USE DEF Timed
<1>0. CASE UNCHANGED <<timer, chan, waits, pc>>
  BY <1>0
<1>1. CASE StoreStep \/ Execute
  BY <1>0, <1>1 DEF StoreStep, Create, Elapse, Delete, Execute, executorVars
<1>2. CASE ConnStep
  BY <1>0, <1>2 DEF ConnStep, Announce, Depart, Enqueue, executorVars
<1>3. CASE Cancel
  <2>1. \A e \in Calls : /\ chan'[e] = "none" <=> chan[e] = "none"
                         /\ chan'[e] = "taken" => chan[e] = "taken"
    BY <1>3 DEF Cancel, TypeOK
  <2> QED BY <1>3, <2>1 DEF Cancel, TypeOK
<1>4. ASSUME NEW e \in Calls, ExecuteWithCallback(e) PROVE Timed'
  <2>1. timer' = e /\ e # NoTimer /\ waits' = waits
    BY <1>4, NilIsNobody DEF ExecuteWithCallback
  <2>2. chan'[e] = "armed" /\ \A x \in Calls \ {e} : chan'[x] = chan[x]
    BY <1>4 DEF ExecuteWithCallback, TypeOK
  <2>3. pc[e] = "idle" /\ pc'[e] = "await" /\ \A x \in Calls \ {e} : pc'[x] = pc[x]
    BY <1>4 DEF ExecuteWithCallback, At, GoTo, TypeOK
  <2> QED BY <2>1, <2>2, <2>3 DEF TypeOK
<1>5. ASSUME NEW e \in Calls, Fire(e) PROVE Timed'
  <2>1. chan'[e] = "fired" /\ chan[e] = "armed" /\ \A x \in Calls \ {e} : chan'[x] = chan[x]
    BY <1>5 DEF Fire, TypeOK
  <2> QED BY <1>5, <2>1 DEF Fire, TypeOK
<1>6. ASSUME NEW e \in Calls, Await(e) PROVE Timed'
  <2>1. pc[e] = "await" /\ pc'[e] = "waiting" /\ \A x \in Calls \ {e} : pc'[x] = pc[x]
    BY <1>6 DEF Await, At, GoTo, TypeOK
  <2>2. waits'[e] = timer /\ \A x \in Calls \ {e} : waits'[x] = waits[x]
    BY <1>6 DEF Await, TypeOK
  <2>3. timer' = timer /\ chan' = chan
    BY <1>6 DEF Await
  <2>4. timer \in Calls /\ chan[timer] # "none"
    BY <2>1 DEF TypeOK
  <2> QED BY <2>1, <2>2, <2>3, <2>4
<1>7. ASSUME NEW e \in Calls, Wake(e) PROVE Timed'
  <2>1. pc[e] = "waiting" /\ pc'[e] = "check" /\ \A x \in Calls \ {e} : pc'[x] = pc[x]
    BY <1>7 DEF Wake, At, GoTo, TypeOK
  <2>2. /\ waits[e] \in Calls /\ chan'[waits[e]] = "taken"
        /\ \A x \in Calls \ {waits[e]} : chan'[x] = chan[x]
    BY <1>7, <2>1 DEF Wake, TypeOK
  <2>3. timer' = timer /\ waits' = waits
    BY <1>7 DEF Wake
  <2>4. \A x \in Calls : chan'[x] = "none" => chan[x] = "none"
    BY <2>2
  <2>5. timer' # NoTimer => chan'[timer'] # "none"
    BY <2>3, <2>4 DEF TypeOK
  <2>6. ASSUME NEW x \in Calls, chan'[x] = "taken"
        PROVE  \E other \in Calls : waits'[other] = x /\ pc'[other] \notin {"idle", "await", "waiting"}
    <3>1. CASE x = waits[e]
      BY <2>1, <2>3, <3>1
    <3>2. CASE x # waits[e]
      BY <2>1, <2>2, <2>3, <2>6, <3>2
    <3> QED BY <3>1, <3>2
  <2> QED BY <2>1, <2>3, <2>4, <2>5, <2>6
<1>8. ASSUME NEW e \in Calls,
             Check(e) \/ Pop(e) \/ Lookup(e) \/ Age(e) \/ Expire(e) \/ Promote(e) \/ Tell(e) \/ TellTheRest(e)
      PROVE  Timed'
  <2>1. UNCHANGED <<timer, chan, waits>>
    BY <1>8 DEF Check, Pop, Lookup, Age, Step, Expire, Promote, Tell, TellTheRest, executorVars
  <2>2. /\ pc[e] \notin {"idle", "await", "waiting"} /\ pc'[e] \notin {"idle", "await", "waiting"}
        /\ \A x \in Calls \ {e} : pc'[x] = pc[x]
    BY <1>8 DEF Check, Pop, Lookup, Age, Step, Expire, Promote, Tell, TellTheRest, At, GoTo, TypeOK
  <2> QED BY <2>1, <2>2
<1>9. ASSUME NEW m \in Moves, MoveStep(m) PROVE Timed'
  BY <1>0, <1>9 DEF MoveStep, CanTransition, Transition, executorVars
<1>10. CASE UNCHANGED vars
  BY <1>0, <1>10 DEF vars, executorVars
<1> QED BY <1>1, <1>2, <1>3, <1>4, <1>5, <1>6, <1>7, <1>8, <1>9, <1>10 DEF Next, CallStep

(* Though the calls share one field for their timers, a call is left       *)
(* without a value in two ways only: Cancel stopped the timer it read, or  *)
(* another call took its one value.                                        *)
THEOREM WaitersExplained == Spec => []WaitsForSomething
<1>1. Init => Timed
  BY DEF Init, Timed
<1>2. Sound /\ Timed /\ [Next]_vars => Timed'
  BY TimedNext DEF Sound
<1>3. Sound /\ Timed => WaitsForSomething
  BY DEF Sound, TypeOK, Timed, WaitsForSomething, At
<1> QED BY <1>1, <1>2, <1>3, AlwaysSound, PTL DEF Spec

-----------------------------------------------------------------------------
(* The transitions                                                         *)

(* What a transition between its check and its write is about to do is     *)
(* allowed by the table, unless somebody wrote the status since.           *)
Checked ==
  \A m \in Moves : move[m].at = "write" =>
    /\ move[m].of \in Sessions
    /\ m \notin overtaken => CanTransitionTo(status[move[m].of], move[m].to)

LEMMA StatusSteps ==
  ASSUME TypeOK, PopSound, [Next]_vars
  PROVE  \/ /\ UNCHANGED status
            /\ \/ UNCHANGED <<move, overtaken>>
               \/ \E m \in Moves, s \in Sessions, to \in Values : CanTransition(m, s, to)
         \/ \E e \in Calls : Promote(e) /\ first[e].id \in Sessions
         \/ \E m \in Moves : Transition(m)
<1>1. CASE StoreStep
  BY <1>1 DEF StoreStep, Create, Elapse, Delete, userVars
<1>2. CASE ConnStep
  BY <1>2 DEF ConnStep, Announce, Depart, Enqueue, userVars
<1>3. CASE Execute \/ Cancel
  BY <1>3 DEF Execute, Cancel, userVars
<1>4. ASSUME NEW e \in Calls, ExecuteWithCallback(e) \/ Fire(e) \/ (CallStep(e) /\ ~Promote(e))
      PROVE  UNCHANGED <<status, move, overtaken>>
  BY <1>4 DEF ExecuteWithCallback, Fire, CallStep, Await, Wake, Check, Pop, Lookup, Age, Step,
              Expire, Tell, TellTheRest, userVars
<1>5. ASSUME NEW e \in Calls, Promote(e) PROVE first[e].id \in Sessions
  BY <1>5, HeldEntry DEF Promote, At, Holding
<1>6. ASSUME NEW m \in Moves, NEW s \in Sessions, NEW to \in Values, CanTransition(m, s, to)
      PROVE  UNCHANGED status
  BY <1>6 DEF CanTransition, userVars
<1>7. CASE UNCHANGED vars
  BY <1>7 DEF vars, userVars
<1> QED BY <1>1, <1>2, <1>3, <1>4, <1>5, <1>6, <1>7 DEF Next, MoveStep, Values

(* A write of a status overtakes whoever was about to write that user's.   *)
LEMMA WriteOvertakes ==
  ASSUME TypeOK, Checked, NEW s \in Sessions, NEW value, SetStatus(s, value),
         NEW m \in Moves, move[m].at = "write", m \notin overtaken'
  PROVE  move[m].of \in Sessions /\ CanTransitionTo(status'[move[m].of], move[m].to)
<1>1. move[m].of \in Sessions /\ move[m].of # s /\ m \notin overtaken
  BY DEF SetStatus, Checked
<1> QED BY <1>1 DEF SetStatus, Checked, TypeOK

LEMMA CheckedNext == TypeOK /\ PopSound /\ Checked /\ [Next]_vars => Checked'
<1> SUFFICES ASSUME TypeOK, PopSound, Checked, [Next]_vars PROVE Checked'
  OBVIOUS
<1>1. CASE UNCHANGED <<status, move, overtaken>>
  BY <1>1 DEF Checked, CanTransitionTo
<1>2. ASSUME NEW m \in Moves, NEW s \in Sessions, NEW to \in Values, CanTransition(m, s, to)
      PROVE  Checked'
  <2>1. /\ CanTransitionTo(status[s], to) /\ status' = status /\ overtaken' = overtaken
        /\ move' = [move EXCEPT ![m] = [at |-> "write", of |-> s, to |-> to]]
    BY <1>2 DEF CanTransition, userVars
  <2>2. move'[m] = [at |-> "write", of |-> s, to |-> to] /\ \A x \in Moves \ {m} : move'[x] = move[x]
    BY <2>1 DEF TypeOK
  <2> QED BY <2>1, <2>2 DEF Checked, CanTransitionTo
<1>3. ASSUME NEW e \in Calls, Promote(e), first[e].id \in Sessions PROVE Checked'
  <2>1. SetStatus(first[e].id, Stage1Dino) /\ move' = move
    BY <1>3 DEF Promote
  <2>2. \A m \in Moves : move[m].at = "write" => move[m].of \in Sessions
    BY DEF Checked
  <2>3. \A m \in Moves : move[m].at = "write" /\ m \notin overtaken' =>
                           CanTransitionTo(status'[move[m].of], move[m].to)
    BY <1>3, <2>1, WriteOvertakes
  <2> QED BY <2>1, <2>2, <2>3 DEF Checked, CanTransitionTo
<1>4. ASSUME NEW m \in Moves, Transition(m) PROVE Checked'
  <2>1. /\ move[m].at = "write" /\ SetStatus(move[m].of, move[m].to)
        /\ move' = [move EXCEPT ![m].at = "done"]
    BY <1>4 DEF Transition
  <2>2. move[m].of \in Sessions
    BY <2>1 DEF Checked
  <2>3. move'[m].at = "done" /\ \A x \in Moves \ {m} : move'[x] = move[x]
    BY <2>1 DEF TypeOK
  <2>4. \A x \in Moves : move[x].at = "write" => move[x].of \in Sessions
    BY DEF Checked
  <2>5. \A x \in Moves : move[x].at = "write" /\ x \notin overtaken' =>
                           CanTransitionTo(status'[move[x].of], move[x].to)
    BY <2>1, <2>2, WriteOvertakes
  <2> QED BY <2>3, <2>4, <2>5 DEF Checked, CanTransitionTo
<1> QED BY <1>1, <1>2, <1>3, <1>4, StatusSteps DEF Checked, CanTransitionTo

(* No step takes a user off the table of transitions but a promotion, and  *)
(* the write of a transition whose check was overtaken.                    *)
THEOREM SkipsExplained == Spec => OnlyStaleSkips
<1> DEFINE Explained ==
      \A s \in Sessions :
        status'[s] # status[s] /\ ~CanTransitionTo(status[s], status'[s]) =>
          \/ \E e \in Calls : At(e, "promote") /\ first[e].id = s
          \/ \E m \in overtaken : move[m].at = "write" /\ move[m].of = s
<1>1. Init => Checked
  BY DEF Init, Checked, NoMove
<1>2. Sound /\ Checked /\ [Next]_vars => Checked'
  BY CheckedNext DEF Sound
<1>3. ASSUME Sound, Checked, [Next]_vars PROVE Explained
  <2> SUFFICES ASSUME NEW s \in Sessions, status'[s] # status[s],
                      ~CanTransitionTo(status[s], status'[s])
               PROVE  \/ \E e \in Calls : At(e, "promote") /\ first[e].id = s
                      \/ \E m \in overtaken : move[m].at = "write" /\ move[m].of = s
    OBVIOUS
  <2>1. CASE \E e \in Calls : Promote(e) /\ first[e].id \in Sessions
    BY <1>3, <2>1 DEF Promote, SetStatus, Sound, TypeOK
  <2>2. ASSUME NEW m \in Moves, Transition(m)
        PROVE  \E x \in overtaken : move[x].at = "write" /\ move[x].of = s
    <3>1. move[m].at = "write" /\ status' = [status EXCEPT ![move[m].of] = move[m].to]
      BY <2>2 DEF Transition, SetStatus
    <3>2. move[m].of = s /\ status'[s] = move[m].to
      BY <1>3, <3>1 DEF Sound, TypeOK
    <3>3. m \in overtaken
      BY <1>3, <3>1, <3>2 DEF Checked
    <3> QED BY <3>1, <3>2, <3>3
  <2> QED BY <1>3, <2>1, <2>2, StatusSteps DEF Sound, CanTransition, userVars
<1> HIDE DEF Explained
<1>4. Sound /\ Checked /\ [Next]_vars => [Explained]_vars
  BY <1>3
<1>5. []Sound /\ Spec => [][Explained]_vars
  BY <1>1, <1>2, <1>4, PTL DEF Spec
<1> QED BY <1>5, AlwaysSound, PTL DEF OnlyStaleSkips, Explained

-----------------------------------------------------------------------------
(* The turn                                                                *)

(* Due: what a connection may be told its turn for.  A callback has a      *)
(* reason by the time it tells, and finds the reason before it expires.    *)
Due(s, c) == c \in promoted \/ store[s] = "out" \/ s \in aged

TurnDue ==
  /\ \A e \in Calls :
       /\ pc[e] = "expire" => first[e].id \in aged
       /\ pc[e] = "tell" => Due(first[e].id, first[e].conn)
  /\ \A c \in told : conn[c] # "new" /\ owner[c] \in Sessions /\ Due(owner[c], c)

LEMMA DueStays ==
  ASSUME TypeOK, [Next]_vars, NEW s \in Sessions, NEW c \in Conns, Due(s, c)
  PROVE  c \in promoted' \/ store'[s] = "out" \/ s \in aged'
<1>1. promoted \subseteq promoted'
  <2>1. CASE StoreStep \/ Execute \/ Cancel
    BY <2>1 DEF StoreStep, Create, Elapse, Delete, Execute, Cancel, userVars
  <2>2. CASE ConnStep
    BY <2>2 DEF ConnStep, Announce, Depart, Enqueue, userVars
  <2>3. ASSUME NEW e \in Calls, ExecuteWithCallback(e) \/ Fire(e) \/ CallStep(e)
        PROVE  promoted \subseteq promoted'
    BY <2>3 DEF ExecuteWithCallback, Fire, CallStep, Await, Wake, Check, Pop, Lookup, Age, Step,
                Expire, Promote, Tell, TellTheRest, userVars
  <2>4. ASSUME NEW m \in Moves, MoveStep(m) PROVE promoted \subseteq promoted'
    BY <2>4 DEF MoveStep, CanTransition, Transition, userVars
  <2>5. CASE UNCHANGED vars
    BY <2>5 DEF vars, userVars
  <2> QED BY <2>1, <2>2, <2>3, <2>4, <2>5 DEF Next
<1> QED BY <1>1, StoreSteps DEF Due

(* Who tells, and where the callbacks that expire and that tell come from. *)
LEMMA TellingSteps ==
  ASSUME TypeOK, [Next]_vars, NEW e \in Calls
  PROVE  /\ pc'[e] = "expire" =>
              pc[e] = "expire" \/ (Age(e) /\ first[e].id \in aged)
         /\ pc'[e] = "tell" =>
              \/ pc[e] = "tell"
              \/ Lookup(e) /\ store[first[e].id] # "in"
              \/ Expire(e)
              \/ Promote(e)
         /\ pc'[e] \in {"expire", "tell"} => first'[e] = first[e]
<1> USE DEF TypeOK
<1>1. CASE pc'[e] = pc[e] /\ first'[e] = first[e]
  BY <1>1
<1>2. CASE StoreStep \/ Execute \/ Cancel
  BY <1>2 DEF StoreStep, Create, Elapse, Delete, Execute, Cancel
<1>3. CASE ConnStep
  BY <1>3 DEF ConnStep, Announce, Depart, Enqueue
<1>4. ASSUME NEW x \in Calls, ExecuteWithCallback(x) \/ Fire(x) \/ Await(x) \/ Wake(x) \/ Check(x)
      PROVE  /\ pc'[e] = pc[e] \/ pc'[e] \notin {"expire", "tell"}
             /\ first' = first
  BY <1>4 DEF ExecuteWithCallback, Fire, Await, Wake, Check, Step, GoTo, At
<1>5. ASSUME NEW x \in Calls, Pop(x), x # e PROVE pc'[e] = pc[e] /\ first'[e] = first[e]
  BY <1>5 DEF Pop, GoTo
<1>6. CASE Pop(e)
  BY <1>6 DEF Pop, GoTo
<1>7. ASSUME NEW x \in Calls, x # e,
             Lookup(x) \/ Age(x) \/ Expire(x) \/ Promote(x) \/ Tell(x) \/ TellTheRest(x)
      PROVE  pc'[e] = pc[e] /\ first'[e] = first[e]
  BY <1>7 DEF Lookup, Age, Expire, Promote, Tell, TellTheRest, Step, GoTo
<1>8. CASE Lookup(e) \/ Age(e)
  BY <1>8 DEF Lookup, Age, Step, GoTo
<1>9. CASE Expire(e) \/ Promote(e) \/ Tell(e) \/ TellTheRest(e)
  BY <1>9 DEF Expire, Promote, Tell, TellTheRest, GoTo
<1>10. ASSUME NEW m \in Moves, MoveStep(m) PROVE pc' = pc /\ first' = first
  BY <1>10 DEF MoveStep, CanTransition, Transition
<1>11. CASE UNCHANGED vars
  BY <1>11 DEF vars
<1> QED BY <1>1, <1>2, <1>3, <1>4, <1>5, <1>6, <1>7, <1>8, <1>9, <1>10, <1>11 DEF Next, CallStep

LEMMA ToldSteps ==
  ASSUME TypeOK, [Next]_vars
  PROVE  \/ told' = told
         \/ \E e \in Calls : pc[e] = "tell" /\ told' = told \cup {first[e].conn}
<1>1. CASE StoreStep \/ Execute \/ Cancel
  BY <1>1 DEF StoreStep, Create, Elapse, Delete, Execute, Cancel, lineVars
<1>2. CASE ConnStep
  BY <1>2 DEF ConnStep, Announce, Depart, Enqueue
<1>3. ASSUME NEW e \in Calls, ExecuteWithCallback(e) \/ Fire(e) \/ (CallStep(e) /\ ~Tell(e))
      PROVE  told' = told
  BY <1>3 DEF ExecuteWithCallback, Fire, CallStep, Await, Wake, Check, Pop, Lookup, Age, Step,
              Expire, Promote, TellTheRest, lineVars
<1>4. ASSUME NEW e \in Calls, Tell(e) PROVE pc[e] = "tell" /\ told' = told \cup {first[e].conn}
  BY <1>4 DEF Tell, At
<1>5. ASSUME NEW m \in Moves, MoveStep(m) PROVE told' = told
  BY <1>5 DEF MoveStep, CanTransition, Transition, lineVars
<1>6. CASE UNCHANGED vars
  BY <1>6 DEF vars, lineVars
<1> QED BY <1>1, <1>2, <1>3, <1>4, <1>5, <1>6 DEF Next

LEMMA TurnDueNext == Sound /\ TurnDue /\ [Next]_vars => TurnDue'
<1> SUFFICES ASSUME TypeOK, PopSound, TurnDue, [Next]_vars PROVE TurnDue'
  BY DEF Sound
<1> DEFINE DueThen(s, c) == c \in promoted' \/ store'[s] = "out" \/ s \in aged'
<1>0. \A s \in Sessions, c \in Conns : Due(s, c) => DueThen(s, c)
  BY DueStays
<1>1. ASSUME NEW e \in Calls, pc[e] \in Holding
      PROVE  /\ first[e].id \in Sessions /\ first[e].conn \in Conns
             /\ conn[first[e].conn] # "new" /\ owner[first[e].conn] = first[e].id
             /\ store[first[e].id] # "none"
  BY <1>1, HeldEntry DEF PopSound, Known
<1>2. ASSUME NEW e \in Calls, pc'[e] = "expire" PROVE first'[e].id \in aged'
  <2>1. pc[e] \in Holding /\ first[e].id \in aged /\ first'[e] = first[e]
    BY <1>2, TellingSteps DEF TurnDue, Age, Step, At, Holding
  <2> QED BY <1>1, <2>1, StoreSteps
<1>3. ASSUME NEW e \in Calls, pc'[e] = "tell" PROVE DueThen(first'[e].id, first'[e].conn)
  <2>1. pc[e] \in Holding /\ first'[e] = first[e]
    BY <1>3, TellingSteps DEF Lookup, Step, Expire, Promote, At, Holding
  <2>2. CASE pc[e] = "tell"
    BY <1>0, <1>1, <2>1, <2>2 DEF TurnDue
  <2>3. CASE Lookup(e) /\ store[first[e].id] # "in"
    <3>1. store[first[e].id] = "out"
      BY <1>1, <2>1, <2>3 DEF TypeOK
    <3> QED BY <1>0, <1>1, <2>1, <3>1 DEF Due
  <2>4. CASE Expire(e)
    <3>1. first[e].id \in aged
      BY <2>4 DEF Expire, At, TurnDue
    <3> QED BY <1>0, <1>1, <2>1, <3>1 DEF Due
  <2>5. CASE Promote(e)
    BY <2>1, <2>5 DEF Promote
  <2> QED BY <1>3, <2>2, <2>3, <2>4, <2>5, TellingSteps
<1>4. ASSUME NEW c \in told'
      PROVE  c \in Conns /\ conn[c] # "new" /\ owner[c] \in Sessions /\ Due(owner[c], c)
  <2>1. CASE c \in told
    BY <2>1 DEF TurnDue, TypeOK
  <2>2. ASSUME NEW e \in Calls, pc[e] = "tell", c = first[e].conn
        PROVE  c \in Conns /\ conn[c] # "new" /\ owner[c] \in Sessions /\ Due(owner[c], c)
    <3>1. Due(first[e].id, first[e].conn) /\ pc[e] \in Holding
      BY <2>2 DEF TurnDue, Holding
    <3> QED BY <1>1, <2>2, <3>1
  <2> QED BY <1>4, <2>1, <2>2, ToldSteps
<1>5. ASSUME NEW c \in told'
      PROVE  conn'[c] # "new" /\ owner'[c] \in Sessions /\ DueThen(owner'[c], c)
  BY <1>0, <1>4, <1>5, ConnSteps
<1> QED BY <1>2, <1>3, <1>5 DEF TurnDue, Due

(* Nobody is told that it is their turn without being promoted, but those  *)
(* whose session was deleted or has expired.                               *)
THEOREM ToldIsDue == Spec => []TurnIsPromotion
<1>1. Init => TurnDue
  BY DEF Init, TurnDue
<1>2. TurnDue => TurnIsPromotion
  BY DEF TurnDue, Due, TurnIsPromotion
<1> QED BY <1>1, <1>2, TurnDueNext, AlwaysSound, PTL DEF Spec

-----------------------------------------------------------------------------
(* The rest of the line                                                    *)

LEMMA ToldTheTruth ==
  ASSUME TypeOK, LineSound, Broadcast, NEW i \in DOMAIN queue
  PROVE  heard'[queue[i].conn] = Update(i, Len(queue))
<1>1. /\ queue \in Seq(Entries) /\ NoTwice(queue) /\ queue[i].conn \in Conns /\ i \in 1..Len(queue)
  BY LineLength DEF TypeOK, LineSound
<1>2. BroadcastPositions(queue, Conns)[queue[i].conn] = Update(i, Len(queue))
  BY <1>1, BroadcastTellsTheTruth
<1>3. Update(i, Len(queue)) # NoUpdate
  <2>1. i # 0
    BY <1>1
  <2>2. Update(i, Len(queue)).position = i /\ NoUpdate.position = 0
    BY DEF Update, NoUpdate
  <2> QED BY <2>1, <2>2
<1> QED BY <1>1, <1>2, <1>3 DEF Broadcast

(* A step that leaves nothing owing either announces, or changes neither   *)
(* the line nor what was heard, and finds nothing owing.                   *)
LEMMA OwingSteps ==
  ASSUME TypeOK, [Next]_vars, ~Owing'
  PROVE  /\ queue' = queue
         /\ Broadcast \/ (heard' = heard /\ ~Owing)
<1> USE DEF TypeOK
<1>0. /\ \A c \in Conns : conn'[c] \notin {"joined", "left"}
      /\ \A e \in Calls : pc'[e] \notin InCallback \ {"pop"}
  BY DEF Owing
<1>1. CASE UNCHANGED <<queue, heard, conn, pc>>
  BY <1>1 DEF Owing
<1>2. CASE StoreStep \/ Execute \/ Cancel
  BY <1>1, <1>2 DEF StoreStep, Create, Elapse, Delete, Execute, Cancel, lineVars
<1>3. ASSUME NEW c \in Conns, NEW s \in Sessions, Enqueue(c, s) PROVE FALSE
  BY <1>0, <1>3 DEF Enqueue
<1>4. ASSUME NEW c \in Conns, Depart(c) PROVE FALSE
  BY <1>0, <1>4 DEF Depart
<1>5. ASSUME NEW c \in Conns, Announce(c) PROVE queue' = queue /\ Broadcast
  BY <1>5 DEF Announce
<1>6. ASSUME NEW e \in Calls, TellTheRest(e) PROVE queue' = queue /\ Broadcast
  BY <1>6 DEF TellTheRest
<1>7. ASSUME NEW e \in Calls, Fire(e) PROVE UNCHANGED <<queue, heard, conn, pc>>
  BY <1>7 DEF Fire, lineVars
<1>8. ASSUME NEW e \in Calls, ExecuteWithCallback(e) \/ Await(e) \/ Wake(e) \/ Check(e) \/ Pop(e)
      PROVE  queue' = queue /\ heard' = heard /\ ~Owing
  <2>1. conn' = conn /\ heard' = heard
    BY <1>8 DEF ExecuteWithCallback, Await, Wake, Check, Pop, Step, lineVars
  <2>2. queue' = queue
    <3>1. CASE ~Pop(e) \/ queue = <<>>
      BY <1>8, <3>1 DEF ExecuteWithCallback, Await, Wake, Check, Pop, Step, lineVars
    <3>2. CASE Pop(e) /\ queue # <<>>
      BY <1>0, <3>2 DEF Pop, GoTo, InCallback, Places
    <3> QED BY <3>1, <3>2
  <2>3. /\ pc[e] \notin InCallback \ {"pop"}
        /\ \A x \in Calls \ {e} : pc'[x] = pc[x]
    BY <1>8 DEF ExecuteWithCallback, Await, Wake, Check, Pop, Step, At, GoTo, InCallback
  <2> QED BY <1>0, <2>1, <2>2, <2>3 DEF Owing
<1>9. ASSUME NEW e \in Calls, Lookup(e) \/ Age(e) \/ Expire(e) \/ Promote(e) \/ Tell(e) PROVE FALSE
  BY <1>0, <1>9 DEF Lookup, Age, Expire, Promote, Tell, Step, GoTo, InCallback, Places
<1>10. ASSUME NEW m \in Moves, MoveStep(m) PROVE UNCHANGED <<queue, heard, conn, pc>>
  BY <1>10 DEF MoveStep, CanTransition, Transition, lineVars
<1>11. CASE UNCHANGED vars
  BY <1>1, <1>11 DEF vars, lineVars
<1> QED BY <1>1, <1>2, <1>3, <1>4, <1>5, <1>6, <1>7, <1>8, <1>9, <1>10, <1>11 DEF Next, ConnStep, CallStep

(* When nothing that changes the line is under way, everybody in it was    *)
(* last told the place they have.                                          *)
THEOREM RestLearns == Spec => []RestIsTold
<1>1. Init => RestIsTold
  BY DEF Init, RestIsTold
<1>2. ASSUME Sound, RestIsTold, [Next]_vars PROVE RestIsTold'
  <2> SUFFICES ASSUME ~Owing', NEW i \in DOMAIN queue'
               PROVE  heard'[queue'[i].conn] = Update(i, Len(queue'))
    BY DEF RestIsTold, Update
  <2>1. queue' = queue /\ (Broadcast \/ (heard' = heard /\ ~Owing))
    BY <1>2, OwingSteps DEF Sound
  <2>2. CASE Broadcast
    BY <1>2, <2>1, <2>2, ToldTheTruth DEF Sound
  <2>3. CASE heard' = heard /\ ~Owing
    BY <1>2, <2>1, <2>3 DEF RestIsTold
  <2> QED BY <2>1, <2>2, <2>3
<1> QED BY <1>1, <1>2, AlwaysSound, PTL DEF Spec
=============================================================================
