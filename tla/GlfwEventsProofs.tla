-------------------------- MODULE GlfwEventsProofs --------------------------
(* Proofs about the input queue of the GLFW backend, for any producers, any *)
(* capacity and any number of calls: its types, the order of its turns, and *)
(* that it implements EventChannel.                                         *)
EXTENDS GlfwEvents, FiniteSetTheorems, TLAPS

(****************************************************************************)
(* The inductive invariant.                                                 *)
(****************************************************************************)

InPush(p) == post[p].pc \in {"add", "copy"}

\* A push whose event has the promise: it overlaps no poll.
Promised(p) == InPush(p) /\ p \notin late

\* An event that was pushed has its number among those of its producer.
Numbered ==
    /\ \A p \in Producers : post[p].n <= MaxPosts[p] /\ (InPush(p) => post[p].n >= 1)
    /\ \A t \in line : \E p \in Producers : \E m \in 1..post[p].n : t.event = <<p, m>>

\* Late pushes are under way, and in a poll all that are under way are late.
LateInv ==
    /\ late \subseteq Busy
    /\ Draining => Busy \subseteq late

\* The poll drains the queue that takes no new events, within its total, and
\* leaves its loop with all turns served.
GameInv ==
    /\ Draining => game.queue = 1 - index /\ game.i <= total[game.queue]
    /\ game.pc = "clear" => line = {}

\* The place of a promised push is its own.
PlaceInv ==
    /\ \A p \in Producers : Promised(p) => post[p].queue = index
    /\ \A p \in Producers : Promised(p) /\ post[p].pc = "copy" => post[p].place < total[index]
    /\ \A p, q \in Producers :
        /\ Promised(p) /\ post[p].pc = "copy" /\ Promised(q) /\ post[q].pc = "copy"
        /\ post[p].place = post[q].place
        => p = q

\* A turn is written, or a promised push is about to write it.  Only a
\* promised push that has its place has its event in the line.
TurnInv ==
    /\ \A t \in line :
        \/ slot[t.queue][t.place] = t.event
        \/ \E p \in Producers : Promised(p) /\ post[p].pc = "copy" /\ t.event = EventOf(p)
    /\ \A t \in line, p \in Producers :
        InPush(p) /\ t.event = EventOf(p)
            => p \notin late /\ post[p].pc = "copy" /\ t.place = post[p].place
    /\ \A t \in line, p \in Producers :
        Promised(p) /\ post[p].pc = "copy" /\ t.place = post[p].place => t.event = EventOf(p)

\* The events that have taken a place: no more than the array holds.
Pushes == Events \ {NoEvent}
Taken ==
    {e \in Pushes :
        /\ e[2] <= post[e[1]].n
        /\ post[e[1]].pc = "add" => e[2] # post[e[1]].n}
TotalInv == total[0] + total[1] <= Cardinality(Taken)

\* What may still come out of turn: a place without a turn that is not yet
\* handled, and a late push that will take one.
StrayPlaces ==
    {s \in Queues \X Places :
        /\ s[2] < total[s[1]]
        /\ Draining /\ s[1] = game.queue => s[2] >= game.i
        /\ TurnsAt(s[1], s[2]) = {}}
LateAdds == {p \in late : post[p].pc = "add"}
StrayInv == Cardinality(StrayPlaces) + Cardinality(LateAdds) <= strays

IInv ==
    /\ TypeOK /\ Numbered /\ LateInv /\ GameInv /\ PlaceInv /\ TurnsInOrder /\ TurnInv
    /\ TotalInv /\ StrayInv

(****************************************************************************)
(* Events and cardinalities.                                                *)
(****************************************************************************)

LEMMA PushesAre ==
    /\ \A p \in Producers : \A m \in 1..MaxPosts[p] : <<p, m>> \in Pushes
    /\ \A e \in Pushes : e[1] \in Producers /\ e[2] \in 1..MaxPosts[e[1]] /\ e = <<e[1], e[2]>>
  <1>1. \A p \in Producers : \A m \in 1..MaxPosts[p] : <<p, m>> \in Events
    BY DEF Events
  <1>2. \A p, m : <<p, m>> # NoEvent
    BY DEF NoEvent
  <1>3. ASSUME NEW e \in Pushes
        PROVE  e[1] \in Producers /\ e[2] \in 1..MaxPosts[e[1]] /\ e = <<e[1], e[2]>>
    <2>1. PICK p \in Producers : e \in {p} \X (1..MaxPosts[p])
      BY <1>3 DEF Pushes, Events
    <2> QED BY <2>1
  <1> QED BY <1>1, <1>2, <1>3 DEF Pushes

LEMMA CapacityNat == Capacity \in Nat /\ Capacity >= 1 /\ 0 \in 0..Capacity /\ 0 \in Places
  <1>1. Capacity \in Nat /\ Capacity >= 1
    BY CapacityAssumption
  <1> QED BY <1>1 DEF Places

LEMMA PushesFinite == IsFiniteSet(Pushes) /\ Cardinality(Pushes) \in Nat /\ Cardinality(Pushes) <= Capacity
  <1>1. IsFiniteSet({{p} \X (1..MaxPosts[p]) : p \in Producers})
    <2> DEFINE f == [p \in Producers |-> {p} \X (1..MaxPosts[p])]
               T == {{p} \X (1..MaxPosts[p]) : p \in Producers}
    <2>1. f \in Surjection(Producers, T)
      BY DEF Surjection
    <2> QED BY <2>1, FS_Surjection, CapacityAssumption
  <1>2. ASSUME NEW p \in Producers PROVE IsFiniteSet({p} \X (1..MaxPosts[p]))
    <2>1. 1 \in Int /\ MaxPosts[p] \in Int
      BY CapacityAssumption
    <2>2. IsFiniteSet({p}) /\ IsFiniteSet(1..MaxPosts[p])
      BY <2>1, FS_Singleton, FS_Interval
    <2> QED BY <2>2, FS_Product
  <1>3. IsFiniteSet(UNION {{p} \X (1..MaxPosts[p]) : p \in Producers})
    BY <1>1, <1>2, FS_UNION
  <1>4. IsFiniteSet(Events)
    BY <1>3, FS_AddElement DEF Events
  <1>5. NoEvent \in Events
    BY DEF Events
  <1>6. IsFiniteSet(Pushes) /\ Cardinality(Pushes) = Cardinality(Events) - 1
    BY <1>4, <1>5, FS_RemoveElement DEF Pushes
  <1> QED BY <1>6, FS_CardinalityType, CapacityAssumption

\* The elements of two sets with none in common.
LEMMA DisjointUnion ==
  ASSUME NEW S, NEW T, IsFiniteSet(S), IsFiniteSet(T), S \cap T = {}
  PROVE  Cardinality(S \cup T) = Cardinality(S) + Cardinality(T)
  <1>1. Cardinality(S \cap T) = 0
    BY FS_EmptySet
  <1>2. Cardinality(S) \in Nat /\ Cardinality(T) \in Nat
    BY FS_CardinalityType
  <1>3. Cardinality(S \cup T) = Cardinality(S) + Cardinality(T) - Cardinality(S \cap T)
    BY FS_Union
  <1> QED BY <1>1, <1>2, <1>3

\* A set of positions or of producers in the invariant is finite.
LEMMA StraysFinite ==
  ASSUME TypeOK
  PROVE  /\ IsFiniteSet(StrayPlaces) /\ Cardinality(StrayPlaces) \in Nat
         /\ IsFiniteSet(LateAdds) /\ Cardinality(LateAdds) \in Nat
  <1>1. IsFiniteSet(Queues \X Places)
    <2>1. IsFiniteSet(Queues)
      <3>1. Queues = {0} \cup {1}
        BY DEF Queues
      <3> QED BY <3>1, FS_Singleton, FS_Union
    <2>2. IsFiniteSet(Places)
      BY FS_Interval, CapacityAssumption DEF Places
    <2> QED BY <2>1, <2>2, FS_Product
  <1>2. IsFiniteSet(StrayPlaces)
    BY <1>1, FS_Subset DEF StrayPlaces
  <1>3. IsFiniteSet(LateAdds)
    BY FS_Subset, CapacityAssumption DEF LateAdds, TypeOK
  <1> QED BY <1>2, <1>3, FS_CardinalityType

(****************************************************************************)
(* Steps that touch no push and no poll.                                    *)
(****************************************************************************)

\* The invariant speaks of the queue, of the pushes under way and of the
\* poll under way only.
LEMMA Quiet ==
  ASSUME IInv, TypeOK', UNCHANGED <<queueVars, line, late, strays>>,
         Draining' <=> Draining,
         Draining => /\ game'.queue = game.queue /\ game'.i = game.i
                     /\ game'.pc = "clear" => line = {},
         \A p \in Producers :
            \/ post'[p] = post[p]
            \/ /\ post'[p].n = post[p].n
               /\ post[p].pc \notin {"add", "copy"} /\ post'[p].pc \notin {"add", "copy"}
  PROVE  IInv'
  <1>1. index' = index /\ total' = total /\ slot' = slot /\ line' = line /\ late' = late
        /\ strays' = strays
    BY DEF queueVars
  <1>2. \A p \in Producers : EventOf(p)' = EventOf(p) /\ (Promised(p)' <=> Promised(p))
                             /\ (InPush(p)' <=> InPush(p))
    BY <1>1 DEF EventOf, Promised, InPush
  <1>3. \A p \in Producers :
           /\ post'[p].pc = "copy" <=> post[p].pc = "copy"
           /\ post'[p].pc = "add" <=> post[p].pc = "add"
    BY DEF InPush
  <1>4. Busy' = Busy
    BY <1>3 DEF Busy
  <1>5. Numbered'
    BY <1>1, <1>2 DEF IInv, Numbered
  <1>6. LateInv'
    BY <1>1, <1>4 DEF IInv, LateInv
  <1>7. GameInv'
    BY <1>1 DEF IInv, GameInv, Draining
  <1>8. \A p \in Producers : InPush(p) => post'[p].queue = post[p].queue
                                         /\ post'[p].place = post[p].place
    BY DEF InPush
  <1>9. PlaceInv'
    BY <1>1, <1>2, <1>3, <1>8 DEF IInv, PlaceInv, Promised
  <1>10. TurnsInOrder'
    BY <1>1 DEF IInv, TurnsInOrder
  <1>11. TurnInv'
    BY <1>1, <1>2, <1>3, <1>8 DEF IInv, TurnInv, Promised
  <1>12. Taken' = Taken
    <2>1. \A e \in Pushes : e[1] \in Producers
      BY PushesAre
    <2> QED BY <1>3, <2>1 DEF Taken, Pushes
  <1>13. TotalInv'
    BY <1>1, <1>12 DEF IInv, TotalInv
  <1>14. StrayPlaces' = StrayPlaces
    BY <1>1 DEF StrayPlaces, TurnsAt
  <1>15. LateAdds' = LateAdds
    <2>1. late \subseteq Producers
      BY DEF IInv, TypeOK
    <2> QED BY <1>1, <1>3, <2>1 DEF LateAdds
  <1>16. StrayInv'
    BY <1>1, <1>14, <1>15 DEF IInv, StrayInv
  <1> QED BY <1>5, <1>6, <1>7, <1>9, <1>10, <1>11, <1>13, <1>16 DEF IInv

GamePlaces == {"run", "send", "sendY", "reset", "check", "lock", "asleep", "flip", "drain", "clear",
               "done"}

\* A step of the game thread outside a poll.
LEMMA OutsidePoll ==
  ASSUME IInv,
         \/ \E op \in Calls : Call(op)
         \/ SendCursor \/ SendCursorY \/ ResetFlags \/ Return
         \/ WaitSteps \/ WaitSpurious
  PROVE  /\ UNCHANGED <<queueVars, post, history>> /\ ~Draining /\ ~Draining'
         /\ game' \in [pc : GamePlaces, op : {"poll", "wait", "timed"}, queue : Queues,
                       i : 0..Capacity, flagged : BOOLEAN]
  <1> USE DEF WaitSteps, WaitCheckTotal, WaitSleep, WaitTimeout, WaitSpurious,
              Call, SendCursor, SendCursorY, ResetFlags, Return, GameStep
  <1>1. game \in [pc : GamePlaces, op : {"poll", "wait", "timed"}, queue : Queues,
                  i : 0..Capacity, flagged : BOOLEAN]
    BY DEF IInv, TypeOK, GamePlaces
  <1>2. Running \in [pc : GamePlaces, op : {"poll", "wait", "timed"}, queue : Queues,
                     i : 0..Capacity, flagged : BOOLEAN] /\ Running.pc = "run"
    <2>1. 0 \in 0..Capacity /\ 0 \in Queues
      BY CapacityNat DEF Queues
    <2> QED BY <2>1 DEF Running, GamePlaces
  <1>3. CASE \E op \in Calls : Call(op)
    BY <1>1, <1>3, CallsAssumption DEF Draining, GamePlaces
  <1>4. CASE SendCursor
    BY <1>1, <1>4 DEF Draining, GamePlaces
  <1>8. CASE SendCursorY
    BY <1>1, <1>8 DEF Draining, GamePlaces
  <1>5. CASE ResetFlags
    BY <1>1, <1>2, <1>5 DEF Draining, GamePlaces
  <1>6. CASE Return
    BY <1>1, <1>2, <1>6 DEF Draining, GamePlaces
  <1>7. CASE WaitSteps \/ WaitSpurious
    BY <1>1, <1>7 DEF Draining, GamePlaces
  <1> QED BY <1>3, <1>4, <1>5, <1>6, <1>7, <1>8

LEMMA GameQuiet ==
  ASSUME IInv,
         \/ \E op \in Calls : Call(op)
         \/ SendCursor \/ SendCursorY \/ ResetFlags \/ Return
         \/ (WaitSteps \/ WaitSpurious) /\ UNCHANGED mouseVars
  PROVE  IInv'
  <1>1. /\ UNCHANGED <<queueVars, post, history>> /\ ~Draining /\ ~Draining'
        /\ game' \in [pc : GamePlaces, op : {"poll", "wait", "timed"}, queue : Queues,
                      i : 0..Capacity, flagged : BOOLEAN]
    BY OutsidePoll
  <1>2. flag' \in BOOLEAN /\ {xcursor', ycursor', xread', yread'} \subseteq 0..MaxMoves
    BY DEF IInv, TypeOK, mouseVars, Call, SendCursor, SendCursorY, ResetFlags, Return
  <1>3. TypeOK'
    BY <1>1, <1>2 DEF IInv, TypeOK, GamePlaces, queueVars, history
  <1> QED BY <1>1, <1>3, Quiet DEF history

LEMMA ProducerQuiet ==
  ASSUME IInv, NEW p \in Producers,
         \/ PushBroadcast(p) /\ UNCHANGED mouseVars
         \/ RaiseFlag(p) \/ MoveCursorY(p)
         \/ p \in Movers /\ MoveCursor(p)
  PROVE  IInv'
  <1>1. UNCHANGED <<queueVars, history>> /\ (Draining' <=> Draining)
        /\ (Draining => game' = game)
    BY DEF Draining, Woken, IInv, TypeOK, PushBroadcast, RaiseFlag, MoveCursor, MoveCursorY
  <1>2. PICK pc \in {"idle", "y", "flag", "broadcast"} :
           /\ post' = [post EXCEPT ![p].pc = pc]
           /\ post[p].pc \in {"idle", "y", "flag", "broadcast"}
    BY DEF PushBroadcast, RaiseFlag, MoveCursor, MoveCursorY
  <1>3. post \in [Producers -> [pc : {"idle", "add", "copy", "y", "flag", "broadcast"},
                                queue : Queues, place : Places, n : Nat]]
    BY DEF IInv, TypeOK
  <1>4. post' \in [Producers -> [pc : {"idle", "add", "copy", "y", "flag", "broadcast"},
                                 queue : Queues, place : Places, n : Nat]]
    BY <1>2, <1>3
  <1>5. /\ \A r \in Producers : r # p => post'[r] = post[r]
        /\ post'[p].n = post[p].n /\ post'[p].pc = pc
    BY <1>2, <1>3
  <1>6. \A r \in Producers :
           \/ post'[r] = post[r]
           \/ /\ post'[r].n = post[r].n
              /\ post[r].pc \notin {"add", "copy"} /\ post'[r].pc \notin {"add", "copy"}
    BY <1>2, <1>5
  <1>7. game' \in [pc : {"run", "send", "sendY", "reset", "check", "lock", "asleep", "flip",
                         "drain", "clear", "done"},
                   op : {"poll", "wait", "timed"}, queue : Queues, i : 0..Capacity,
                   flagged : BOOLEAN]
    BY DEF IInv, TypeOK, Woken, PushBroadcast, RaiseFlag, MoveCursor, MoveCursorY
  <1>8. flag' \in BOOLEAN /\ {ycursor', xread', yread'} \subseteq 0..MaxMoves
    BY DEF IInv, TypeOK, mouseVars, PushBroadcast, RaiseFlag, MoveCursor, MoveCursorY
  <1>9. xcursor' \in 0..MaxMoves
    BY CallsAssumption
       DEF IInv, TypeOK, mouseVars, PushBroadcast, RaiseFlag, MoveCursor, MoveCursorY
  <1>10. TypeOK'
    BY <1>1, <1>4, <1>7, <1>8, <1>9 DEF IInv, TypeOK, queueVars, history
  <1> QED BY <1>1, <1>6, <1>10, Quiet DEF history, IInv, GameInv

(****************************************************************************)
(* The steps of a poll.                                                     *)
(****************************************************************************)

LEMMA LeaveLoopInv ==
  ASSUME IInv, LeaveLoop, UNCHANGED mouseVars
  PROVE  IInv'
  <1>1. game \in [pc : GamePlaces, op : {"poll", "wait", "timed"}, queue : Queues,
                  i : 0..Capacity, flagged : BOOLEAN] /\ total \in [Queues -> 0..Capacity]
    BY DEF IInv, TypeOK, GamePlaces
  <1>2. /\ UNCHANGED <<queueVars, post, line, late, strays, last>>
        /\ Draining /\ Draining' /\ game'.queue = game.queue /\ game'.i = game.i
        /\ game' \in [pc : GamePlaces, op : {"poll", "wait", "timed"}, queue : Queues,
                      i : 0..Capacity, flagged : BOOLEAN]
    BY <1>1 DEF LeaveLoop, Draining, history, GamePlaces
  <1>3. line = {}
    <2>1. \A t \in line : t.queue = game.queue /\ t.place < total[game.queue]
                          /\ t.place >= game.i /\ t.place \in Nat
      BY <1>2, CapacityNat DEF IInv, TurnsInOrder, TypeOK, Places
    <2>2. game.i >= total[game.queue] /\ game.i \in Nat /\ total[game.queue] \in Nat
      BY <1>1, CapacityNat DEF LeaveLoop
    <2> QED BY <2>1, <2>2
  <1>4. TypeOK'
    BY <1>2 DEF IInv, TypeOK, GamePlaces, queueVars, mouseVars
  <1> QED BY <1>2, <1>3, <1>4, Quiet

LEMMA ClearTotalInv ==
  ASSUME IInv, ClearTotal, UNCHANGED mouseVars
  PROVE  IInv'
  <1>1. game \in [pc : GamePlaces, op : {"poll", "wait", "timed"}, queue : Queues,
                  i : 0..Capacity, flagged : BOOLEAN] /\ total \in [Queues -> 0..Capacity]
    BY DEF IInv, TypeOK, GamePlaces
  <1>2. /\ index' = index /\ slot' = slot /\ post' = post /\ line' = {} /\ line = {}
        /\ late' = late /\ strays' = strays /\ Draining /\ ~Draining' /\ game'.pc = "done"
    BY <1>1 DEF IInv, GameInv, ClearTotal, Draining
  <1>3. /\ total'[game.queue] = 0 /\ game.queue \in Queues
        /\ \A q \in Queues : q # game.queue => total'[q] = total[q]
    BY <1>1 DEF ClearTotal
  <1>4. TypeOK'
    <2>1. total' \in [Queues -> 0..Capacity] /\ last' \in Events
      BY <1>1, CapacityNat DEF ClearTotal, Events
    <2>2. game' \in [pc : GamePlaces, op : {"poll", "wait", "timed"}, queue : Queues,
                     i : 0..Capacity, flagged : BOOLEAN]
      BY <1>1, CapacityNat DEF ClearTotal, GamePlaces, Queues
    <2> QED BY <1>2, <2>1, <2>2 DEF IInv, TypeOK, GamePlaces, mouseVars
  <1>5. Busy' = Busy /\ \A p \in Producers : ~Promised(p) /\ ~Promised(p)'
    BY <1>2 DEF IInv, LateInv, Busy, Promised, InPush
  <1>6. Numbered' /\ LateInv' /\ GameInv'
    BY <1>2, <1>5 DEF IInv, Numbered, LateInv, GameInv, InPush
  <1>7. PlaceInv' /\ TurnsInOrder' /\ TurnInv'
    BY <1>2, <1>5 DEF PlaceInv, TurnsInOrder, TurnInv
  <1>8. TotalInv'
    <2>1. Taken' = Taken
      BY <1>2 DEF Taken
    <2>2. total'[0] + total'[1] <= total[0] + total[1]
      BY <1>1, <1>3, CapacityNat DEF Queues
    <2>3. Cardinality(Taken) \in Nat
      BY PushesFinite, FS_Subset, FS_CardinalityType DEF Taken
    <2>4. total[0] \in Nat /\ total[1] \in Nat /\ total'[0] \in Nat /\ total'[1] \in Nat
      BY <1>1, <1>4, CapacityNat DEF TypeOK, Queues
    <2> QED BY <2>1, <2>2, <2>3, <2>4 DEF IInv, TotalInv
  <1>9. StrayPlaces' \subseteq StrayPlaces
    <2> SUFFICES ASSUME NEW s \in StrayPlaces'
                 PROVE  s \in StrayPlaces
      OBVIOUS
    <2>1. s \in Queues \X Places /\ s[2] < total'[s[1]]
      BY DEF StrayPlaces
    <2>2. s[1] # game.queue
      BY <1>3, <2>1 DEF Places
    <2> QED BY <1>2, <1>3, <2>1, <2>2 DEF StrayPlaces, TurnsAt
  <1>10. LateAdds' = LateAdds
    BY <1>2 DEF LateAdds
  <1>11. StrayInv'
    <2>1. Cardinality(StrayPlaces') <= Cardinality(StrayPlaces)
          /\ Cardinality(StrayPlaces') \in Nat
      BY <1>9, FS_Subset, FS_CardinalityType, StraysFinite DEF IInv
    <2>2. Cardinality(StrayPlaces) \in Nat /\ Cardinality(LateAdds) \in Nat /\ strays \in Nat
      BY StraysFinite DEF IInv, TypeOK
    <2> QED BY <1>2, <1>10, <2>1, <2>2 DEF IInv, StrayInv
  <1> QED BY <1>4, <1>6, <1>7, <1>8, <1>11 DEF IInv

LEMMA HandleEventInv ==
  ASSUME IInv, HandleEvent, UNCHANGED mouseVars
  PROVE  IInv'
  <1> DEFINE served == TurnsAt(game.queue, game.i)
             here == <<game.queue, game.i>>
  <1>1. game \in [pc : GamePlaces, op : {"poll", "wait", "timed"}, queue : Queues,
                  i : 0..Capacity, flagged : BOOLEAN] /\ total \in [Queues -> 0..Capacity]
    BY DEF IInv, TypeOK, GamePlaces
  <1>2. /\ index' = index /\ total' = total /\ slot' = slot /\ post' = post /\ late' = late
        /\ line' = line \ served /\ strays' = IF served = {} THEN strays - 1 ELSE strays
        /\ game.pc = "drain" /\ Draining /\ Draining'
        /\ game'.pc = "drain" /\ game'.queue = game.queue /\ game'.i = game.i + 1
    BY <1>1 DEF HandleEvent, Draining, queueVars
  <1>3. game.queue \in Queues /\ game.i \in Places /\ game.i \in Nat /\ game.i < total[game.queue]
        /\ total[game.queue] \in 0..Capacity
    BY <1>1, CapacityNat DEF HandleEvent, Places
  <1>4. \A s \in Queues \X Places : s # here => (TurnsAt(s[1], s[2])' = TurnsAt(s[1], s[2]))
    BY <1>2, <1>3 DEF TurnsAt
  <1>5. here \notin StrayPlaces' /\ StrayPlaces' \subseteq StrayPlaces \cup {here}
        /\ (served # {} => here \notin StrayPlaces)
        /\ (served = {} => here \in StrayPlaces)
    <2>1. here \in Queues \X Places /\ here[1] = game.queue /\ here[2] = game.i
      BY <1>3
    <2>2. here \notin StrayPlaces'
      BY <1>2, <1>3, <2>1 DEF StrayPlaces
    <2>3. served # {} => here \notin StrayPlaces
      BY <2>1 DEF StrayPlaces
    <2>4. served = {} => here \in StrayPlaces
      BY <1>3, <2>1 DEF StrayPlaces
    <2>5. ASSUME NEW s \in StrayPlaces', s # here PROVE s \in StrayPlaces
      <3>1. s \in Queues \X Places /\ s[2] \in Nat /\ s[2] < total[s[1]]
            /\ (s[1] = game.queue => s[2] >= game.i + 1) /\ TurnsAt(s[1], s[2])' = {}
        BY <1>2 DEF StrayPlaces, Places
      <3> QED BY <1>3, <1>4, <2>5, <3>1 DEF StrayPlaces
    <2> QED BY <2>2, <2>3, <2>4, <2>5
  <1>6. /\ Cardinality(StrayPlaces') \in Nat /\ Cardinality(StrayPlaces) \in Nat
        /\ (served = {} => Cardinality(StrayPlaces') <= Cardinality(StrayPlaces) - 1)
        /\ (served # {} => Cardinality(StrayPlaces') <= Cardinality(StrayPlaces))
    <2>1. IsFiniteSet(StrayPlaces) /\ Cardinality(StrayPlaces) \in Nat
      BY StraysFinite DEF IInv
    <2>2. StrayPlaces' \subseteq StrayPlaces \ {here}
      BY <1>5
    <2>3. IsFiniteSet(StrayPlaces \ {here}) /\ Cardinality(StrayPlaces \ {here}) =
             IF here \in StrayPlaces THEN Cardinality(StrayPlaces) - 1 ELSE Cardinality(StrayPlaces)
      BY <2>1, FS_RemoveElement
    <2>4. IsFiniteSet(StrayPlaces') /\ Cardinality(StrayPlaces') <= Cardinality(StrayPlaces \ {here})
      BY <2>2, <2>3, FS_Subset
    <2>5. Cardinality(StrayPlaces') \in Nat
      BY <2>4, FS_CardinalityType
    <2> QED BY <1>5, <2>1, <2>3, <2>4, <2>5
  <1>7. LateAdds' = LateAdds /\ Cardinality(LateAdds) \in Nat /\ strays \in Nat
    BY <1>2, StraysFinite DEF LateAdds, IInv, TypeOK
  <1>8. StrayInv' /\ strays' \in Nat
    BY <1>2, <1>6, <1>7 DEF IInv, StrayInv
  <1>9. TypeOK'
    <2>1. last' \in Events
      BY <1>3 DEF HandleEvent, IInv, TypeOK
    <2>2. game' \in [pc : GamePlaces, op : {"poll", "wait", "timed"}, queue : Queues,
                     i : 0..Capacity, flagged : BOOLEAN]
      BY <1>1, <1>3, CapacityNat DEF HandleEvent, Places
    <2> QED BY <1>2, <1>8, <2>1, <2>2 DEF IInv, TypeOK, GamePlaces, mouseVars
  <1>10. Busy' = Busy /\ \A p \in Producers : ~Promised(p) /\ ~Promised(p)'
    BY <1>2 DEF IInv, LateInv, Busy, Promised, InPush
  <1>11. Numbered' /\ LateInv' /\ PlaceInv'
    BY <1>2, <1>10 DEF IInv, Numbered, LateInv, PlaceInv, InPush
  <1>12. GameInv'
    BY <1>2, <1>3 DEF IInv, GameInv
  <1>13. TurnsInOrder'
    <2>1. \A t \in line' : t.queue = game.queue /\ t.place >= game.i /\ t.place # game.i
                           /\ t.place \in Nat
      BY <1>2, CapacityNat DEF IInv, TurnsInOrder, TypeOK, TurnsAt, Places
    <2> QED BY <1>2, <1>3, <2>1 DEF IInv, TurnsInOrder
  <1>14. TurnInv'
    BY <1>2, <1>10 DEF IInv, TurnInv, EventOf, InPush, Promised
  <1>15. TotalInv'
    BY <1>2 DEF IInv, TotalInv, Taken
  <1> QED BY <1>8, <1>9, <1>11, <1>12, <1>13, <1>14, <1>15 DEF IInv

LEMMA FlipQueuesInv ==
  ASSUME IInv, FlipQueues, UNCHANGED mouseVars
  PROVE  IInv'
  <1> DEFINE New == Busy \ late
             NewCopies == {p \in New : post[p].pc = "copy"}
             NewAdds == {p \in New : post[p].pc = "add"}
             place == [p \in NewCopies |-> <<index, post[p].place>>]
             Opened == {place[p] : p \in NewCopies}
  <1>1. game \in [pc : GamePlaces, op : {"poll", "wait", "timed"}, queue : Queues,
                  i : 0..Capacity, flagged : BOOLEAN] /\ total \in [Queues -> 0..Capacity]
        /\ index \in Queues
    BY DEF IInv, TypeOK, GamePlaces
  <1>2. /\ index' = 1 - index /\ total' = total /\ slot' = slot /\ post' = post /\ late' = Busy
        /\ line' = {t \in line : \A p \in Busy : t.event # EventOf(p)}
        /\ strays' = strays + Cardinality(New) /\ last' = last
        /\ ~Draining /\ Draining' /\ game'.pc = "drain" /\ game'.queue = index /\ game'.i = 0
    BY <1>1 DEF FlipQueues, Draining
  <1>3. Busy' = Busy /\ Busy \subseteq Producers /\ IsFiniteSet(Busy)
        /\ \A p \in Producers : InPush(p) <=> p \in Busy
    <2>1. Busy' = Busy /\ Busy \subseteq Producers
          /\ \A p \in Producers : InPush(p) <=> p \in Busy
      BY <1>2 DEF Busy, InPush
    <2> QED BY <2>1, FS_Subset, CapacityAssumption
  <1>4. \A p \in Producers : ~Promised(p)' /\ (InPush(p)' <=> InPush(p))
                            /\ EventOf(p)' = EventOf(p)
    BY <1>2, <1>3 DEF Promised, InPush, EventOf
  <1>5. /\ IsFiniteSet(New) /\ IsFiniteSet(NewCopies) /\ IsFiniteSet(NewAdds)
        /\ Cardinality(New) = Cardinality(NewCopies) + Cardinality(NewAdds)
        /\ Cardinality(NewCopies) \in Nat /\ Cardinality(NewAdds) \in Nat
    <2>1. IsFiniteSet(New) /\ IsFiniteSet(NewCopies) /\ IsFiniteSet(NewAdds)
      BY <1>3, FS_Subset
    <2>2. New = NewCopies \cup NewAdds /\ NewCopies \cap NewAdds = {}
      BY DEF Busy
    <2>3. Cardinality(NewCopies) \in Nat /\ Cardinality(NewAdds) \in Nat
      BY <2>1, FS_CardinalityType
    <2>4. Cardinality(NewCopies \cup NewAdds) = Cardinality(NewCopies) + Cardinality(NewAdds)
      BY <2>1, <2>2, <2>3, DisjointUnion
    <2> QED BY <2>1, <2>2, <2>3, <2>4
  <1>6. IsFiniteSet(Opened) /\ Cardinality(Opened) <= Cardinality(NewCopies)
        /\ Cardinality(Opened) \in Nat
    <2>1. place \in Surjection(NewCopies, Opened)
      BY DEF Surjection
    <2>2. IsFiniteSet(Opened) /\ Cardinality(Opened) <= Cardinality(NewCopies)
      BY <1>5, <2>1, FS_Surjection
    <2> QED BY <2>2, FS_CardinalityType
  <1>7. LateAdds' = LateAdds \cup NewAdds /\ LateAdds \cap NewAdds = {}
    BY <1>2 DEF LateAdds, IInv, LateInv
  <1>8. StrayPlaces' \subseteq StrayPlaces \cup Opened
    <2> SUFFICES ASSUME NEW s \in StrayPlaces', s \notin StrayPlaces
                 PROVE  s \in Opened
      OBVIOUS
    <2>1. s \in Queues \X Places /\ s[2] < total[s[1]] /\ TurnsAt(s[1], s[2])' = {}
      BY <1>2 DEF StrayPlaces
    <2>2. TurnsAt(s[1], s[2]) # {}
      BY <1>2, <2>1 DEF StrayPlaces
    <2>3. PICK t \in line : t.queue = s[1] /\ t.place = s[2]
      BY <2>2 DEF TurnsAt
    <2>4. t \notin line'
      BY <2>1, <2>3 DEF TurnsAt
    <2>5. PICK p \in Busy : t.event = EventOf(p)
      BY <1>2, <2>4
    <2>6. p \in NewCopies /\ t.place = post[p].place
      BY <1>3, <2>5 DEF IInv, TurnInv
    <2>7. t.queue = index
      BY <1>2 DEF IInv, TurnsInOrder
    <2>8. s = <<s[1], s[2]>> /\ place[p] = <<index, post[p].place>>
      BY <2>1, <2>6
    <2>9. s = place[p]
      BY <2>3, <2>6, <2>7, <2>8
    <2> QED BY <2>6, <2>9
  <1>9. StrayInv' /\ strays' \in Nat
    <2>1. /\ IsFiniteSet(StrayPlaces) /\ Cardinality(StrayPlaces) \in Nat
          /\ IsFiniteSet(LateAdds) /\ Cardinality(LateAdds) \in Nat /\ strays \in Nat
      BY StraysFinite DEF IInv, TypeOK
    <2>2. IsFiniteSet(StrayPlaces \cup Opened)
          /\ Cardinality(StrayPlaces \cup Opened) <= Cardinality(StrayPlaces) + Cardinality(Opened)
      <3>1. Cardinality(StrayPlaces \cap Opened) \in Nat
        BY <2>1, FS_Intersection, FS_CardinalityType
      <3>2. IsFiniteSet(StrayPlaces \cup Opened) /\ Cardinality(StrayPlaces \cup Opened) =
               Cardinality(StrayPlaces) + Cardinality(Opened) - Cardinality(StrayPlaces \cap Opened)
        BY <1>6, <2>1, FS_Union
      <3> QED BY <1>6, <2>1, <3>1, <3>2
    <2>3. Cardinality(StrayPlaces') <= Cardinality(StrayPlaces \cup Opened)
          /\ Cardinality(StrayPlaces') \in Nat /\ Cardinality(StrayPlaces \cup Opened) \in Nat
      BY <1>8, <2>2, FS_Subset, FS_CardinalityType
    <2>4. Cardinality(LateAdds') = Cardinality(LateAdds) + Cardinality(NewAdds)
      BY <1>5, <1>7, <2>1, DisjointUnion
    <2> HIDE DEF New, NewCopies, NewAdds, Opened
    <2> QED BY <1>2, <1>5, <1>6, <2>1, <2>2, <2>3, <2>4 DEF IInv, StrayInv
  <1>10. TypeOK'
    <2>1. index' \in Queues
      BY <1>1, <1>2 DEF Queues
    <2>2. game' \in [pc : GamePlaces, op : {"poll", "wait", "timed"}, queue : Queues,
                     i : 0..Capacity, flagged : BOOLEAN]
      BY <1>1, CapacityNat DEF FlipQueues, GamePlaces
    <2>3. line' \subseteq line
      BY <1>2
    <2> QED BY <1>2, <1>3, <1>9, <2>1, <2>2, <2>3 DEF IInv, TypeOK, GamePlaces, mouseVars
  <1>11. Numbered' /\ LateInv' /\ PlaceInv'
    BY <1>2, <1>3, <1>4 DEF IInv, Numbered, LateInv, PlaceInv
  <1>12. GameInv'
    BY <1>1, <1>2, CapacityNat DEF GameInv, Queues
  <1>13. TurnsInOrder'
    <2>1. \A t \in line : t.queue = index /\ t.place \in Nat
      BY <1>2, CapacityNat DEF IInv, TurnsInOrder, TypeOK, Places
    <2> QED BY <1>2, <2>1 DEF IInv, TurnsInOrder
  <1>14. TurnInv'
    BY <1>2, <1>3, <1>4 DEF IInv, TurnInv, Promised
  <1>15. TotalInv'
    BY <1>2 DEF IInv, TotalInv, Taken
  <1> QED BY <1>9, <1>10, <1>11, <1>12, <1>13, <1>14, <1>15 DEF IInv

(****************************************************************************)
(* The steps of a push.                                                     *)
(****************************************************************************)

LEMMA PushLoadIndexInv ==
  ASSUME IInv, NEW p \in Producers, PushLoadIndex(p), UNCHANGED mouseVars
  PROVE  IInv'
  <1>1. /\ post \in [Producers -> [pc : {"idle", "add", "copy", "y", "flag", "broadcast"},
                                   queue : Queues, place : Places, n : Nat]]
        /\ index \in Queues /\ strays \in Nat /\ late \subseteq Producers
    BY DEF IInv, TypeOK
  <1>2. /\ index' = index /\ total' = total /\ slot' = slot /\ game' = game /\ line' = line
        /\ last' = last /\ (Draining' <=> Draining)
        /\ late' = IF Draining THEN late \cup {p} ELSE late
        /\ strays' = IF Draining THEN strays + 1 ELSE strays
    BY DEF PushLoadIndex, Draining
  <1>3. /\ post[p].pc = "idle" /\ post[p].n \in Nat /\ post[p].n < MaxPosts[p]
        /\ post'[p].pc = "add" /\ post'[p].queue = index /\ post'[p].n = post[p].n + 1
        /\ \A r \in Producers : r # p => post'[r] = post[r]
        /\ post' \in [Producers -> [pc : {"idle", "add", "copy", "y", "flag", "broadcast"},
                                    queue : Queues, place : Places, n : Nat]]
    <2> DEFINE c == [pc |-> "add", queue |-> index, place |-> post[p].place, n |-> post[p].n + 1]
    <2>1. post[p] \in [pc : {"idle", "add", "copy", "y", "flag", "broadcast"},
                       queue : Queues, place : Places, n : Nat]
      BY <1>1
    <2>2. c \in [pc : {"idle", "add", "copy", "y", "flag", "broadcast"},
                 queue : Queues, place : Places, n : Nat]
      BY <1>1, <2>1
    <2>3. post' = [post EXCEPT ![p] = c] /\ post[p].pc = "idle" /\ post[p].n < MaxPosts[p]
      BY <1>1, <2>1 DEF PushLoadIndex
    <2>4. c.pc = "add" /\ c.queue = index /\ c.n = post[p].n + 1 /\ post[p].n \in Nat
      BY <2>1
    <2> HIDE DEF c
    <2> QED BY <1>1, <2>2, <2>3, <2>4
  <1>4. p \notin late /\ p \notin Busy /\ Busy' = Busy \cup {p}
    BY <1>3 DEF IInv, LateInv, Busy
  <1>5. TypeOK'
    BY <1>1, <1>2, <1>3 DEF IInv, TypeOK, mouseVars
  <1>6. \A r \in Producers :
          /\ r # p => /\ InPush(r)' <=> InPush(r)
                      /\ Promised(r)' <=> Promised(r)
                      /\ EventOf(r)' = EventOf(r)
          /\ post'[r].pc = "copy" => r # p /\ post[r].pc = "copy"
    BY <1>2, <1>3 DEF InPush, Promised, EventOf
  <1>7. Numbered'
    <2>1. \A r \in Producers : post[r].n \in Nat /\ post[r].n <= post'[r].n
      BY <1>1, <1>3
    <2>2. ASSUME NEW r \in Producers
          PROVE  post'[r].n <= MaxPosts[r] /\ (InPush(r)' => post'[r].n >= 1)
      <3>1. MaxPosts[p] \in Nat
        BY CapacityAssumption
      <3>2. CASE r = p
        BY <1>3, <3>1, <3>2
      <3>3. CASE r # p
        BY <1>3, <1>6, <3>3 DEF IInv, Numbered
      <3> QED BY <3>2, <3>3
    <2>3. ASSUME NEW t \in line
          PROVE  \E r \in Producers : \E m \in 1..post'[r].n : t.event = <<r, m>>
      <3>1. PICK r \in Producers : \E m \in 1..post[r].n : t.event = <<r, m>>
        BY DEF IInv, Numbered
      <3>2. 1..post[r].n \subseteq 1..post'[r].n
        BY <2>1, <1>3
      <3> QED BY <3>1, <3>2
    <2> QED BY <1>2, <2>2, <2>3 DEF Numbered
  <1>8. LateInv' /\ GameInv'
    BY <1>2, <1>4 DEF IInv, LateInv, GameInv
  <1>9. PlaceInv'
    <2>1. \A r \in Producers : Promised(r)' => post'[r].queue = index
      BY <1>3, <1>6 DEF IInv, PlaceInv
    <2> QED BY <1>2, <1>3, <1>6, <2>1 DEF IInv, PlaceInv
  <1>10. TurnsInOrder'
    BY <1>2 DEF IInv, TurnsInOrder
  <1>11. \A t \in line : t.event # EventOf(p)'
    <2> SUFFICES ASSUME NEW t \in line, t.event = EventOf(p)'
                 PROVE  FALSE
      OBVIOUS
    <2>1. PICK r \in Producers : \E m \in 1..post[r].n : t.event = <<r, m>>
      BY DEF IInv, Numbered
    <2>2. t.event = <<p, post[p].n + 1>>
      BY <1>3 DEF EventOf
    <2> QED BY <1>3, <2>1, <2>2
  <1>12. TurnInv'
    BY <1>2, <1>3, <1>6, <1>11 DEF IInv, TurnInv
  <1>13. Taken' = Taken
    <2> SUFFICES ASSUME NEW e \in Pushes
                 PROVE  e \in Taken' <=> e \in Taken
      BY DEF Taken, Pushes
    <2>1. e[1] \in Producers /\ e[2] \in Nat
      BY PushesAre, CapacityAssumption
    <2>2. CASE e[1] = p
      <3>1. e \in Taken <=> e[2] <= post[p].n
        BY <1>3, <2>2 DEF Taken
      <3>2. e \in Taken' <=> e[2] <= post'[p].n /\ e[2] # post'[p].n
        BY <1>3, <2>2 DEF Taken, Pushes
      <3> QED BY <1>3, <2>1, <3>1, <3>2
    <2>3. CASE e[1] # p
      BY <1>3, <2>1, <2>3 DEF Taken, Pushes
    <2> QED BY <2>2, <2>3
  <1>14. TotalInv'
    BY <1>2, <1>13 DEF IInv, TotalInv
  <1>15. StrayInv'
    <2>1. StrayPlaces' = StrayPlaces
      BY <1>2 DEF StrayPlaces, TurnsAt
    <2>2. p \notin LateAdds /\ LateAdds' = IF Draining THEN LateAdds \cup {p} ELSE LateAdds
      BY <1>1, <1>2, <1>3, <1>4 DEF LateAdds
    <2>3. /\ Cardinality(StrayPlaces) \in Nat
          /\ IsFiniteSet(LateAdds) /\ Cardinality(LateAdds) \in Nat
      BY StraysFinite DEF IInv
    <2>4. Cardinality(LateAdds \cup {p}) = Cardinality(LateAdds) + 1
      BY <2>2, <2>3, FS_AddElement
    <2> QED BY <1>1, <1>2, <2>1, <2>2, <2>3, <2>4 DEF IInv, StrayInv
  <1> QED BY <1>5, <1>7, <1>8, <1>9, <1>10, <1>12, <1>14, <1>15 DEF IInv

\* The place that a push takes is in the array, and it is new.
LEMMA PushTakePlaceInv ==
  ASSUME IInv, NEW p \in Producers, PushTakePlace(p), UNCHANGED mouseVars
  PROVE  IInv'
  <1> DEFINE q == post[p].queue
             k == total[q]
             e == <<p, post[p].n>>
             turn == [queue |-> q, place |-> k, event |-> e]
             PostType == [Producers -> [pc : {"idle", "add", "copy", "y", "flag", "broadcast"},
                                        queue : Queues, place : Places, n : Nat]]
  <1>1. /\ post \in PostType /\ total \in [Queues -> 0..Capacity] /\ index \in Queues
        /\ strays \in Nat /\ late \subseteq Producers
        /\ line \subseteq [queue : Queues, place : Places, event : Events]
    BY DEF IInv, TypeOK
  <1>2. /\ post[p].pc = "add" /\ post[p].n \in Nat /\ post[p].n >= 1 /\ post[p].n <= MaxPosts[p]
        /\ q \in Queues /\ k \in 0..Capacity /\ k \in Nat
    BY <1>1, CapacityNat DEF IInv, Numbered, InPush, PushTakePlace
  <1>3. EventOf(p) = e /\ e \in Pushes /\ e \in Events /\ e # NoEvent
    <2>1. EventOf(p) = e
      BY <1>2 DEF EventOf
    <2>2. e \in Pushes
      BY <1>2, PushesAre, CapacityAssumption
    <2> QED BY <2>1, <2>2 DEF Pushes
  <1>4. /\ index' = index /\ slot' = slot /\ game' = game /\ late' = late /\ strays' = strays
        /\ last' = last /\ (Draining' <=> Draining)
        /\ total' = [total EXCEPT ![q] = @ + 1]
        /\ line' = IF p \in late THEN line ELSE line \cup {turn}
    BY <1>3 DEF PushTakePlace, Draining
  <1>5. /\ total'[q] = k + 1
        /\ \A r \in Queues : r # q => total'[r] = total[r]
        /\ \A r \in Queues : total[r] \in Nat /\ total'[r] \in Nat /\ total[r] <= total'[r]
    BY <1>1, <1>2, <1>4, CapacityNat
  <1>6. /\ post'[p].pc = "copy" /\ post'[p].place = k /\ post'[p].n = post[p].n
        /\ post'[p].queue = q
        /\ \A r \in Producers : r # p => post'[r] = post[r]
    <2>1. post' = [post EXCEPT ![p].pc = "copy", ![p].place = k]
      BY DEF PushTakePlace
    <2> QED BY <1>1, <2>1
  <1>7. e \notin Taken /\ Taken' = Taken \cup {e}
    <2>1. e \notin Taken
      BY <1>2 DEF Taken
    <2>2. ASSUME NEW x \in Pushes, x # e
          PROVE  x \in Taken' <=> x \in Taken
      <3>1. x[1] \in Producers /\ x = <<x[1], x[2]>>
        BY PushesAre
      <3>2. CASE x[1] = p
        <4>1. x[2] # post[p].n
          BY <2>2, <3>1, <3>2
        <4>2. x \in Taken <=> x[2] <= post[p].n
          BY <1>2, <3>2, <4>1 DEF Taken
        <4>3. x \in Taken' <=> x[2] <= post[p].n
          BY <1>6, <3>2 DEF Taken, Pushes
        <4> QED BY <4>2, <4>3
      <3>3. CASE x[1] # p
        BY <1>6, <3>1, <3>3 DEF Taken, Pushes
      <3> QED BY <3>2, <3>3
    <2>3. e \in Taken'
      BY <1>2, <1>3, <1>6 DEF Taken, Pushes
    <2> QED BY <1>3, <2>1, <2>2, <2>3 DEF Taken, Pushes
  <1>8. TotalInv' /\ total'[0] + total'[1] <= Capacity
    <2>1. total'[0] + total'[1] = total[0] + total[1] + 1
      BY <1>2, <1>5 DEF Queues
    <2>2. IsFiniteSet(Taken) /\ Cardinality(Taken) \in Nat
      BY PushesFinite, FS_Subset, FS_CardinalityType DEF Taken
    <2>3. Cardinality(Taken') = Cardinality(Taken) + 1
      BY <1>7, <2>2, FS_AddElement
    <2>4. Taken' \subseteq Pushes
      BY DEF Taken, Pushes
    <2>5. Cardinality(Taken') <= Cardinality(Pushes)
      BY <2>4, PushesFinite, FS_Subset
    <2>6. total[0] \in Nat /\ total[1] \in Nat /\ Cardinality(Pushes) \in Nat
          /\ Cardinality(Pushes) <= Capacity
      BY <1>5, PushesFinite DEF Queues
    <2> QED BY <2>1, <2>2, <2>3, <2>5, <2>6, CapacityNat DEF IInv, TotalInv
  <1>9. total' \in [Queues -> 0..Capacity] /\ k \in Places
    <2>1. ASSUME NEW r \in Queues PROVE total'[r] \in 0..Capacity
      BY <1>5, <1>8, CapacityNat DEF Queues
    <2>2. k + 1 \in 0..Capacity
      BY <1>2, <1>5, <2>1
    <2> QED BY <1>1, <1>2, <1>4, <2>1, <2>2, CapacityNat DEF Places
  <1>10. post' \in PostType
    BY <1>1, <1>9 DEF PushTakePlace
  <1>11. TypeOK'
    <2>1. turn \in [queue : Queues, place : Places, event : Events]
      BY <1>2, <1>3, <1>9
    <2>2. line' \subseteq [queue : Queues, place : Places, event : Events]
      BY <1>1, <1>4, <2>1
    <2> QED BY <1>4, <1>9, <1>10, <2>2 DEF IInv, TypeOK, mouseVars
  <1>12. \A r \in Producers :
          /\ InPush(r)' <=> InPush(r)
          /\ Promised(r)' <=> Promised(r)
          /\ EventOf(r)' = EventOf(r)
          /\ post'[r].n = post[r].n /\ post'[r].queue = post[r].queue
          /\ post'[r].pc = "copy" /\ r # p => post[r].pc = "copy" /\ post'[r].place = post[r].place
          /\ post[r].pc = "copy" => r # p /\ post'[r].pc = "copy"
    BY <1>2, <1>4, <1>6 DEF InPush, Promised, EventOf
  <1>13. p \notin late => ~Draining /\ q = index
    BY <1>2 DEF IInv, LateInv, PlaceInv, Busy, Promised, InPush
  <1>14. turn.queue = q /\ turn.place = k /\ turn.event = e
    OBVIOUS
  <1> HIDE DEF q, k, e, turn
  <1>15. Numbered'
    <2>1. e = <<p, post[p].n>> /\ post[p].n \in 1..post[p].n
      BY <1>2 DEF e
    <2>2. \A t \in line' : t \in line \/ t = turn
      BY <1>4
    <2> QED BY <1>12, <1>14, <2>1, <2>2 DEF IInv, Numbered
  <1>16. LateInv'
    BY <1>4, <1>12 DEF IInv, LateInv, Busy, InPush
  <1>17. GameInv'
    <2>1. Draining => game.queue \in Queues /\ game.i \in Nat
      BY CapacityNat DEF IInv, TypeOK
    <2>2. Draining => game.queue = 1 - index /\ game.i <= total'[game.queue]
      BY <1>5, <2>1 DEF IInv, GameInv
    <2>3. game.pc = "clear" => line' = {}
      BY <1>4, <1>13 DEF IInv, GameInv, Draining
    <2> QED BY <1>4, <2>2, <2>3 DEF GameInv
  <1>18. PlaceInv'
    <2>1. \A r \in Producers : Promised(r)' => post'[r].queue = index
      BY <1>12 DEF IInv, PlaceInv
    <2>2. \A r \in Producers : Promised(r)' /\ post'[r].pc = "copy" /\ r # p
                                => post'[r].place \in Nat /\ post'[r].place < total[index]
      BY <1>1, <1>12 DEF IInv, PlaceInv, Places
    <2>3. Promised(p)' => post'[p].place < total'[index] /\ post'[p].place = total[index]
      BY <1>2, <1>4, <1>5, <1>6, <1>13 DEF Promised, k
    <2>4. \A r \in Producers : Promised(r)' /\ post'[r].pc = "copy"
                                => post'[r].place < total'[index]
      BY <1>1, <1>5, <2>2, <2>3
    <2>5. \A r, r2 \in Producers :
             /\ Promised(r)' /\ post'[r].pc = "copy" /\ Promised(r2)' /\ post'[r2].pc = "copy"
             /\ post'[r].place = post'[r2].place
             => r = r2
      <3> SUFFICES ASSUME NEW r \in Producers, NEW r2 \in Producers,
                          Promised(r)', post'[r].pc = "copy",
                          Promised(r2)', post'[r2].pc = "copy",
                          post'[r].place = post'[r2].place
                   PROVE  r = r2
        OBVIOUS
      <3>1. r = p => r2 = p
        BY <1>1, <1>5, <2>2, <2>3
      <3>2. r2 = p => r = p
        BY <1>1, <1>5, <2>2, <2>3
      <3>3. r # p /\ r2 # p => r = r2
        BY <1>12 DEF IInv, PlaceInv
      <3> QED BY <3>1, <3>2, <3>3
    <2> QED BY <1>4, <2>1, <2>4, <2>5 DEF PlaceInv
  <1>19. \A t \in line' : t \in line \/ (t = turn /\ p \notin late)
    BY <1>4
  <1>20. \A t \in line : t.queue = (IF Draining THEN game.queue ELSE index)
                        /\ t.queue \in Queues /\ t.place \in Nat /\ t.place < total[t.queue]
    BY <1>1, CapacityNat DEF IInv, TurnsInOrder, Places
  <1>21. TurnsInOrder'
    <2>1. \A t \in line' : t.queue = IF Draining THEN game.queue ELSE index
      BY <1>13, <1>14, <1>19, <1>20
    <2>2. \A t \in line' : t.place < total'[t.queue]
      <3>1. turn.place < total'[turn.queue]
        BY <1>2, <1>5, <1>14
      <3> QED BY <1>5, <1>19, <1>20, <3>1
    <2>3. \A t \in line' : Draining => t.place >= game.i
      BY <1>13, <1>19 DEF IInv, TurnsInOrder
    <2>4. ASSUME NEW t \in line', NEW u \in line', t.place = u.place PROVE t = u
      <3>1. \A v \in line : p \notin late => v.place # turn.place
        BY <1>2, <1>13, <1>14, <1>20 DEF k
      <3> QED BY <1>19, <2>4, <3>1 DEF IInv, TurnsInOrder
    <2> QED BY <1>4, <2>1, <2>2, <2>3, <2>4 DEF TurnsInOrder
  <1>22. TurnInv'
    <2>1. \A t \in line' :
            \/ slot[t.queue][t.place] = t.event
            \/ \E r \in Producers : Promised(r)' /\ post'[r].pc = "copy" /\ t.event = EventOf(r)'
      <3>1. p \notin late => Promised(p)' /\ post'[p].pc = "copy" /\ turn.event = EventOf(p)'
        BY <1>2, <1>3, <1>4, <1>6, <1>12, <1>14 DEF Promised, InPush
      <3> QED BY <1>12, <1>19, <3>1 DEF IInv, TurnInv
    <2>2. \A t \in line', r \in Producers :
            InPush(r)' /\ t.event = EventOf(r)'
              => r \notin late /\ post'[r].pc = "copy" /\ t.place = post'[r].place
      <3> SUFFICES ASSUME NEW t \in line', NEW r \in Producers, InPush(r), t.event = EventOf(r)
                   PROVE  r \notin late /\ post'[r].pc = "copy" /\ t.place = post'[r].place
        BY <1>12
      <3>1. CASE t \in line
        <4>1. r \notin late /\ post[r].pc = "copy" /\ t.place = post[r].place
          BY <3>1 DEF IInv, TurnInv
        <4> QED BY <1>6, <1>12, <4>1
      <3>2. CASE t = turn /\ p \notin late
        <4>1. EventOf(r) = e
          BY <1>14, <3>2
        <4>2. r = p
          BY <1>3, <4>1 DEF EventOf, e
        <4> QED BY <1>6, <1>14, <3>2, <4>2
      <3> QED BY <1>19, <3>1, <3>2
    <2>3. \A t \in line', r \in Producers :
            Promised(r)' /\ post'[r].pc = "copy" /\ t.place = post'[r].place
              => t.event = EventOf(r)'
      <3> SUFFICES ASSUME NEW t \in line', NEW r \in Producers,
                          Promised(r), post'[r].pc = "copy", t.place = post'[r].place
                   PROVE  t.event = EventOf(r)
        BY <1>12
      <3>1. CASE r = p
        <4>1. p \notin late /\ post'[p].place = total[index]
          BY <1>6, <1>13, <3>1 DEF Promised, k
        <4>2. \A v \in line : v.place # total[index]
          BY <1>5, <1>13, <1>20, <4>1
        <4> QED BY <1>3, <1>14, <1>19, <3>1, <4>1, <4>2
      <3>2. CASE r # p
        <4>1. post[r].pc = "copy" /\ t.place = post[r].place
          BY <1>12, <3>2
        <4>2. post[r].place < total[index] /\ post[r].place \in Nat
          BY <1>1, <4>1 DEF IInv, PlaceInv, Places
        <4>3. t \in line
          BY <1>5, <1>13, <1>14, <1>19, <4>1, <4>2, <1>1 DEF k
        <4> QED BY <4>1, <4>3 DEF IInv, TurnInv
      <3> QED BY <3>1, <3>2
    <2> QED BY <1>4, <2>1, <2>2, <2>3 DEF TurnInv
  <1>23. StrayInv'
    <2>1. /\ IsFiniteSet(StrayPlaces) /\ Cardinality(StrayPlaces) \in Nat
          /\ IsFiniteSet(LateAdds) /\ Cardinality(LateAdds) \in Nat
      BY StraysFinite DEF IInv
    <2>2. StrayPlaces' \subseteq StrayPlaces \cup (IF p \in late THEN {<<q, k>>} ELSE {})
      <3> SUFFICES ASSUME NEW s \in StrayPlaces', s \notin StrayPlaces
                   PROVE  p \in late /\ s = <<q, k>>
        OBVIOUS
      <3>1. /\ s \in Queues \X Places /\ s = <<s[1], s[2]>> /\ s[2] \in Nat
            /\ s[2] < total'[s[1]] /\ (Draining /\ s[1] = game.queue => s[2] >= game.i)
            /\ TurnsAt(s[1], s[2])' = {}
        BY <1>4 DEF StrayPlaces, Places
      <3>2. TurnsAt(s[1], s[2]) = {}
        BY <1>4, <3>1 DEF TurnsAt
      <3>3. s[2] >= total[s[1]]
        BY <1>5, <3>1, <3>2 DEF StrayPlaces
      <3>4. s[1] = q /\ s[2] = k
        BY <1>2, <1>5, <3>1, <3>3 DEF k
      <3>5. p \in late
        <4>1. p \notin late => turn \in TurnsAt(s[1], s[2])'
          BY <1>4, <1>14, <3>4 DEF TurnsAt
        <4> QED BY <3>1, <4>1
      <3> QED BY <3>1, <3>4, <3>5
    <2>3. LateAdds' = LateAdds \ {p} /\ (p \in late => p \in LateAdds)
      BY <1>2, <1>4, <1>6, <1>1 DEF LateAdds
    <2>4. CASE p \in late
      <3>1. Cardinality(LateAdds') = Cardinality(LateAdds) - 1
        BY <2>1, <2>3, <2>4, FS_RemoveElement
      <3>2. IsFiniteSet(StrayPlaces \cup {<<q, k>>})
            /\ Cardinality(StrayPlaces \cup {<<q, k>>}) <= Cardinality(StrayPlaces) + 1
        <4>1. Cardinality(StrayPlaces \cup {<<q, k>>}) =
                IF <<q, k>> \in StrayPlaces THEN Cardinality(StrayPlaces)
                ELSE Cardinality(StrayPlaces) + 1
          BY <2>1, FS_AddElement
        <4> QED BY <2>1, <4>1, FS_AddElement
      <3>3. StrayPlaces' \subseteq StrayPlaces \cup {<<q, k>>}
        BY <2>2, <2>4
      <3>4. /\ IsFiniteSet(StrayPlaces')
            /\ Cardinality(StrayPlaces') <= Cardinality(StrayPlaces \cup {<<q, k>>})
            /\ Cardinality(StrayPlaces \cup {<<q, k>>}) \in Nat
        BY <3>2, <3>3, FS_Subset, FS_CardinalityType
      <3>5. Cardinality(StrayPlaces') \in Nat
        BY <3>4, FS_CardinalityType
      <3> QED BY <1>1, <1>4, <2>1, <3>1, <3>2, <3>4, <3>5 DEF IInv, StrayInv
    <2>5. CASE p \notin late
      <3>1. LateAdds' = LateAdds
        BY <2>3, <2>5 DEF LateAdds
      <3>2. StrayPlaces' \subseteq StrayPlaces
        BY <2>2, <2>5
      <3>3. IsFiniteSet(StrayPlaces') /\ Cardinality(StrayPlaces') <= Cardinality(StrayPlaces)
        BY <2>1, <3>2, FS_Subset
      <3>4. Cardinality(StrayPlaces') \in Nat
        BY <3>3, FS_CardinalityType
      <3> QED BY <1>1, <1>4, <2>1, <3>1, <3>3, <3>4 DEF IInv, StrayInv
    <2> QED BY <2>4, <2>5
  <1> QED BY <1>8, <1>11, <1>15, <1>16, <1>17, <1>18, <1>21, <1>22, <1>23 DEF IInv

\* A copy writes the place that the push took; a late one may overwrite the
\* one turn that has this place since.
LEMMA PushCopyInv ==
  ASSUME IInv, NEW p \in Producers, PushCopy(p), UNCHANGED mouseVars
  PROVE  IInv'
  <1> DEFINE q == post[p].queue
             k == post[p].place
             hit == IF p \in late THEN TurnsAt(q, k) ELSE {}
             PostType == [Producers -> [pc : {"idle", "add", "copy", "y", "flag", "broadcast"},
                                        queue : Queues, place : Places, n : Nat]]
  <1>1. /\ post \in PostType /\ slot \in [Queues -> [Places -> Events]] /\ index \in Queues
        /\ strays \in Nat /\ late \subseteq Producers
        /\ line \subseteq [queue : Queues, place : Places, event : Events]
    BY DEF IInv, TypeOK
  <1>2. /\ post[p].pc = "copy" /\ post[p].n \in Nat /\ post[p].n >= 1 /\ post[p].n <= MaxPosts[p]
        /\ q \in Queues /\ k \in Places
    BY <1>1 DEF IInv, Numbered, InPush, PushCopy
  <1>3. EventOf(p) \in Events
    <2>1. EventOf(p) = <<p, post[p].n>>
      BY <1>2 DEF EventOf
    <2>2. EventOf(p) \in Pushes
      BY <1>2, <2>1, PushesAre, CapacityAssumption
    <2> QED BY <2>2 DEF Pushes
  <1>4. /\ index' = index /\ total' = total /\ game' = game /\ last' = last
        /\ (Draining' <=> Draining)
        /\ late' = late \ {p} /\ line' = line \ hit /\ strays' = strays + Cardinality(hit)
    BY DEF PushCopy, Draining
  <1>5. /\ slot'[q][k] = EventOf(p)
        /\ \A r \in Queues, j \in Places : <<r, j>> # <<q, k>> => slot'[r][j] = slot[r][j]
        /\ slot' \in [Queues -> [Places -> Events]]
    <2>1. slot' = [slot EXCEPT ![q][k] = EventOf(p)]
      BY DEF PushCopy
    <2> QED BY <1>1, <1>2, <1>3, <2>1
  <1>6. /\ post'[p].pc = "broadcast" /\ post'[p].n = post[p].n
        /\ \A r \in Producers : r # p => post'[r] = post[r]
        /\ post' \in PostType
    <2>1. post' = [post EXCEPT ![p].pc = "broadcast", ![p].queue = 0, ![p].place = 0]
      BY DEF PushCopy
    <2>2. 0 \in Queues /\ 0 \in Places
      BY CapacityNat DEF Queues
    <2>3. post' \in PostType
      BY <1>1, <2>1, <2>2
    <2> QED BY <1>1, <2>1, <2>3
  <1>7. IsFiniteSet(hit) /\ Cardinality(hit) \in Nat /\ (hit # {} => Cardinality(hit) = 1)
    <2>1. CASE hit = {}
      BY <2>1, FS_EmptySet
    <2>2. CASE hit # {}
      <3>1. PICK t \in hit : TRUE
        BY <2>2
      <3>2. hit = {t}
        BY <3>1 DEF TurnsAt, IInv, TurnsInOrder
      <3> QED BY <3>2, FS_Singleton
    <2> QED BY <2>1, <2>2
  <1>8. hit \subseteq TurnsAt(q, k) /\ (p \notin late => hit = {})
        /\ (p \in late => hit = TurnsAt(q, k))
    OBVIOUS
  <1> HIDE DEF q, k, hit
  <1>9. TypeOK'
    BY <1>1, <1>4, <1>5, <1>6, <1>7 DEF IInv, TypeOK, mouseVars
  <1>10. \A r \in Producers :
          /\ EventOf(r)' = EventOf(r)
          /\ InPush(r)' <=> InPush(r) /\ r # p
          /\ Promised(r)' <=> Promised(r) /\ r # p
          /\ post'[r].n = post[r].n
    BY <1>2, <1>4, <1>6 DEF InPush, Promised, EventOf
  <1>11. Numbered'
    BY <1>4, <1>10 DEF IInv, Numbered
  <1>12. LateInv'
    <2>1. Busy' = Busy \ {p}
      BY <1>2, <1>6 DEF Busy
    <2> QED BY <1>4, <2>1 DEF IInv, LateInv
  <1>13. GameInv'
    BY <1>4 DEF IInv, GameInv
  <1>14. PlaceInv'
    BY <1>4, <1>6, <1>10 DEF IInv, PlaceInv
  <1>15. TurnsInOrder'
    BY <1>4 DEF IInv, TurnsInOrder
  <1>16. TurnInv'
    <2>1. ASSUME NEW t \in line'
          PROVE  \/ slot'[t.queue][t.place] = t.event
                 \/ \E r \in Producers : Promised(r)' /\ post'[r].pc = "copy"
                                          /\ t.event = EventOf(r)'
      <3>1. t \in line /\ t \notin hit /\ t.queue \in Queues /\ t.place \in Places
        BY <1>1, <1>4
      <3>2. CASE p \in late
        <4>1. <<t.queue, t.place>> # <<q, k>>
          BY <1>8, <3>1, <3>2 DEF TurnsAt
        <4>2. slot'[t.queue][t.place] = slot[t.queue][t.place]
          BY <1>5, <3>1, <4>1
        <4>3. \A r \in Producers : Promised(r) => r # p
          BY <3>2 DEF Promised
        <4> QED BY <1>6, <1>10, <3>1, <4>2, <4>3 DEF IInv, TurnInv
      <3>3. CASE p \notin late
        <4>1. Promised(p) /\ ~Draining /\ q = index /\ t.queue = index
          BY <1>2, <3>1, <3>3
          DEF IInv, LateInv, PlaceInv, TurnsInOrder, Busy, Promised, InPush, q
        <4>2. CASE t.place = k
          BY <1>2, <1>5, <3>1, <4>1, <4>2 DEF IInv, TurnInv, k
        <4>3. CASE t.place # k
          <5>1. slot'[t.queue][t.place] = slot[t.queue][t.place]
            BY <1>5, <3>1, <4>3
          <5>2. t.event # EventOf(p)
            BY <1>2, <3>1, <4>3 DEF IInv, TurnInv, InPush, k
          <5> QED BY <1>6, <1>10, <3>1, <5>1, <5>2 DEF IInv, TurnInv
        <4> QED BY <4>2, <4>3
      <3> QED BY <3>2, <3>3
    <2>2. \A t \in line', r \in Producers :
            InPush(r)' /\ t.event = EventOf(r)'
              => r \notin late' /\ post'[r].pc = "copy" /\ t.place = post'[r].place
      BY <1>4, <1>6, <1>10 DEF IInv, TurnInv
    <2>3. \A t \in line', r \in Producers :
            Promised(r)' /\ post'[r].pc = "copy" /\ t.place = post'[r].place
              => t.event = EventOf(r)'
      BY <1>4, <1>6, <1>10 DEF IInv, TurnInv
    <2> QED BY <2>1, <2>2, <2>3 DEF TurnInv
  <1>17. TotalInv'
    <2>1. ASSUME NEW e \in Pushes PROVE e \in Taken' <=> e \in Taken
      <3>1. e[1] \in Producers
        BY PushesAre
      <3>2. /\ post'[e[1]].n = post[e[1]].n
            /\ post'[e[1]].pc = "add" <=> post[e[1]].pc = "add"
        BY <1>2, <1>6, <3>1
      <3> QED BY <3>2 DEF Taken, Pushes
    <2>2. Taken' = Taken
      BY <2>1 DEF Taken, Pushes
    <2> QED BY <1>4, <2>2 DEF IInv, TotalInv
  <1>18. StrayInv'
    <2>1. /\ IsFiniteSet(StrayPlaces) /\ Cardinality(StrayPlaces) \in Nat
          /\ Cardinality(LateAdds) \in Nat
      BY StraysFinite DEF IInv
    <2>2. LateAdds' = LateAdds
      BY <1>1, <1>2, <1>4, <1>6 DEF LateAdds
    <2>3. CASE hit = {}
      <3>1. StrayPlaces' = StrayPlaces
        BY <1>4, <2>3 DEF StrayPlaces, TurnsAt
      <3> QED BY <1>1, <1>4, <1>7, <2>1, <2>2, <2>3, <3>1, FS_EmptySet DEF IInv, StrayInv
    <2>4. CASE hit # {}
      <3>1. StrayPlaces' \subseteq StrayPlaces \cup {<<q, k>>}
        <4> SUFFICES ASSUME NEW s \in StrayPlaces', s # <<q, k>>
                     PROVE  s \in StrayPlaces
          OBVIOUS
        <4>1. /\ s \in Queues \X Places /\ s = <<s[1], s[2]>> /\ s[2] < total[s[1]]
              /\ (Draining /\ s[1] = game.queue => s[2] >= game.i)
              /\ TurnsAt(s[1], s[2])' = {}
          BY <1>4 DEF StrayPlaces
        <4>2. TurnsAt(s[1], s[2]) = {}
          BY <1>4, <1>8, <4>1 DEF TurnsAt
        <4> QED BY <4>1, <4>2 DEF StrayPlaces
      <3>2. IsFiniteSet(StrayPlaces \cup {<<q, k>>})
            /\ Cardinality(StrayPlaces \cup {<<q, k>>}) <= Cardinality(StrayPlaces) + 1
        <4>1. Cardinality(StrayPlaces \cup {<<q, k>>}) =
                IF <<q, k>> \in StrayPlaces THEN Cardinality(StrayPlaces)
                ELSE Cardinality(StrayPlaces) + 1
          BY <2>1, FS_AddElement
        <4> QED BY <2>1, <4>1, FS_AddElement
      <3>3. /\ IsFiniteSet(StrayPlaces')
            /\ Cardinality(StrayPlaces') <= Cardinality(StrayPlaces \cup {<<q, k>>})
            /\ Cardinality(StrayPlaces \cup {<<q, k>>}) \in Nat
        BY <3>1, <3>2, FS_Subset, FS_CardinalityType
      <3>4. Cardinality(StrayPlaces') \in Nat
        BY <3>3, FS_CardinalityType
      <3> QED BY <1>1, <1>4, <1>7, <2>1, <2>2, <2>4, <3>2, <3>3, <3>4 DEF IInv, StrayInv
    <2> QED BY <2>3, <2>4
  <1> QED BY <1>9, <1>11, <1>12, <1>13, <1>14, <1>15, <1>16, <1>17, <1>18 DEF IInv

(****************************************************************************)
(* The theorems.                                                            *)
(****************************************************************************)

LEMMA InitInv == Init => IInv
  <1> SUFFICES ASSUME Init
               PROVE  IInv
    OBVIOUS
  <1> USE DEF Init, QueueInit
  <1>1. 0 \in Queues /\ NoEvent \in Events /\ \A p \in Producers : ~InPush(p)
    BY DEF Queues, Events, InPush
  <1>2. TypeOK
    <2>1. total \in [Queues -> 0..Capacity] /\ slot \in [Queues -> [Places -> Events]]
      BY <1>1, CapacityNat
    <2>2. post \in [Producers -> [pc : {"idle", "add", "copy", "y", "flag", "broadcast"},
                                  queue : Queues, place : Places, n : Nat]]
      BY <1>1, CapacityNat
    <2>3. game \in [pc : {"run", "send", "sendY", "reset", "check", "lock", "asleep", "flip",
                          "drain", "clear", "done"},
                    op : {"poll", "wait", "timed"}, queue : Queues, i : 0..Capacity,
                    flagged : BOOLEAN]
      BY <1>1, CapacityNat DEF Running
    <2>4. 0 \in 0..MaxMoves
      BY CallsAssumption
    <2> QED BY <1>1, <2>1, <2>2, <2>3, <2>4 DEF TypeOK
  <1>3. ~Draining
    BY DEF Draining, Running
  <1>4. Numbered /\ LateInv /\ GameInv /\ PlaceInv /\ TurnsInOrder /\ TurnInv
    <2>1. \A p \in Producers : post[p].n = 0 /\ MaxPosts[p] \in Nat
      BY CapacityAssumption
    <2> QED BY <1>1, <1>3, <2>1
        DEF Numbered, LateInv, GameInv, PlaceInv, TurnsInOrder, TurnInv, Promised, Draining
  <1>5. TotalInv
    <2>1. total[0] = 0 /\ total[1] = 0
      BY DEF Queues
    <2>2. Cardinality(Taken) \in Nat
      BY PushesFinite, FS_Subset, FS_CardinalityType DEF Taken
    <2> QED BY <2>1, <2>2 DEF TotalInv
  <1>6. StrayInv
    <2>1. StrayPlaces = {} /\ LateAdds = {}
      BY DEF StrayPlaces, LateAdds, Places
    <2> QED BY <2>1, FS_EmptySet DEF StrayInv
  <1> QED BY <1>2, <1>4, <1>5, <1>6 DEF IInv

LEMMA StepInv == IInv /\ [Next]_vars => IInv'
  <1> SUFFICES ASSUME IInv, [Next]_vars
               PROVE  IInv'
    OBVIOUS
  <1>1. CASE GameNext
    <2>1. CASE PollSteps /\ UNCHANGED mouseVars
      BY <2>1, FlipQueuesInv, HandleEventInv, LeaveLoopInv, ClearTotalInv DEF PollSteps
    <2>2. CASE \/ \E op \in Calls : Call(op)
               \/ SendCursor \/ SendCursorY \/ ResetFlags \/ Return
               \/ WaitSteps /\ UNCHANGED mouseVars
      BY <2>2, GameQuiet
    <2> QED BY <1>1, <2>1, <2>2 DEF GameNext
  <1>2. CASE WaitSpurious /\ UNCHANGED mouseVars
    BY <1>2, GameQuiet
  <1>3. CASE \E p \in Producers : PushLoadIndex(p) /\ UNCHANGED mouseVars
    BY <1>3, PushLoadIndexInv
  <1>4. CASE \E p \in Producers : PushSteps(p)
    BY <1>4, PushTakePlaceInv, PushCopyInv, ProducerQuiet DEF PushSteps
  <1>5. CASE \E p \in Movers : MoveCursor(p)
    BY <1>5, ProducerQuiet, CallsAssumption
  <1>6. CASE UNCHANGED vars
    <2>1. TypeOK'
      BY <1>6 DEF IInv, TypeOK, vars, queueVars, history, mouseVars
    <2> QED BY <1>6, <2>1, Quiet DEF vars, history, Draining, IInv, GameInv
  <1> QED BY <1>1, <1>2, <1>3, <1>4, <1>5, <1>6 DEF Next

\* The inductive invariant holds in every behaviour of the queue.
THEOREM Invariant == Spec => []IInv
  BY InitInv, StepInv, PTL DEF Spec

\* The variables keep their types.  For the totals and the places this says
\* that no push runs past events[], as long as there are no more events than
\* it holds: a cleared total gives no event a place twice.
THEOREM TypeCorrect == Spec => []TypeOK
  <1>1. IInv => TypeOK
    BY DEF IInv
  <1> QED BY <1>1, Invariant, PTL

\* The events that wait hold places of their own in one queue, within its
\* total and not behind the index of the loop of _input_queue_dequeue.
THEOREM InOrder == Spec => []TurnsInOrder
  <1>1. IInv => TurnsInOrder
    BY DEF IInv
  <1> QED BY <1>1, Invariant, PTL

(****************************************************************************)
(* The queue implements EventChannel.                                       *)
(****************************************************************************)

\* The line, the events and the posts as EventChannel sees them.
Line == {[turn |-> t.place, event |-> t.event] : t \in line}
Item == [p \in Producers |-> EventOf(p)]

LEMMA StageIs ==
  ASSUME TypeOK
  PROVE  /\ \A p \in Producers : /\ Stage[p] = "begun" <=> post[p].pc = "add"
                                 /\ Stage[p] = "entered" <=> post[p].pc = "copy"
                                 /\ Stage[p] = "idle" <=> post[p].pc \notin {"add", "copy"}
         /\ Channel!Busy = Busy
  <1>1. \A p \in Producers : Stage[p] = CASE post[p].pc = "add" -> "begun"
                                          [] post[p].pc = "copy" -> "entered"
                                          [] OTHER -> "idle"
    BY DEF Stage
  <1>2. \A p \in Producers : /\ Stage[p] = "begun" <=> post[p].pc = "add"
                             /\ Stage[p] = "entered" <=> post[p].pc = "copy"
                             /\ Stage[p] = "idle" <=> post[p].pc \notin {"add", "copy"}
    BY <1>1
  <1> QED BY <1>2 DEF Channel!Busy, Busy

\* A step that leaves the line, the posts and the poll as they are.
LEMMA QuietStep ==
  ASSUME UNCHANGED <<line, late, strays, last>>, Draining' <=> Draining,
         \A p \in Producers :
            \/ post'[p] = post[p]
            \/ /\ post'[p].n = post[p].n
               /\ post[p].pc \notin {"add", "copy"} /\ post'[p].pc \notin {"add", "copy"}
  PROVE  UNCHANGED Channel!vars
  <1>1. Stage' = Stage
    BY DEF Stage
  <1>2. Item' = Item
    BY DEF Item, EventOf
  <1>3. Line' = Line
    BY DEF Line
  <1>4. Draining' = Draining
    BY DEF Draining
  <1> QED BY <1>1, <1>2, <1>3, <1>4 DEF Channel!vars, Line, Item

\* A turn less in the line is an event less in the line of the channel.
LEMMA OneTurnLess ==
  ASSUME IInv, NEW t \in line, line' = line \ {t}
  PROVE  Line' = Line \ {[turn |-> t.place, event |-> t.event]}
  <1>1. \A u \in line : u # t => u.place # t.place
    BY DEF IInv, TurnsInOrder
  <1>2. ASSUME NEW x \in Line', x = [turn |-> t.place, event |-> t.event]
        PROVE  FALSE
    <2>1. PICK u \in line : u # t /\ x = [turn |-> u.place, event |-> u.event]
      BY DEF Line
    <2>2. x.turn = u.place /\ x.turn = t.place
      BY <1>2, <2>1
    <2> QED BY <1>1, <2>1, <2>2
  <1>3. Line' \subseteq Line /\ Line \subseteq Line' \cup {[turn |-> t.place, event |-> t.event]}
    BY DEF Line
  <1> QED BY <1>2, <1>3

LEMMA GameSteps ==
  ASSUME IInv,
         \/ \E op \in Calls : Call(op)
         \/ SendCursor \/ SendCursorY \/ ResetFlags \/ Return
         \/ WaitSteps \/ WaitSpurious
         \/ LeaveLoop
  PROVE  UNCHANGED Channel!vars
  <1>1. CASE LeaveLoop
    <2>1. UNCHANGED <<post, line, late, strays, last>> /\ (Draining' <=> Draining)
      BY <1>1 DEF LeaveLoop, history, Draining, IInv, TypeOK
    <2> QED BY <2>1, QuietStep
  <1>2. CASE ~LeaveLoop
    <2>1. UNCHANGED <<post, line, late, strays, last>> /\ (Draining' <=> Draining)
      BY <1>2, OutsidePoll DEF history
    <2> QED BY <2>1, QuietStep
  <1> QED BY <1>1, <1>2

LEMMA ProducerSteps ==
  ASSUME IInv, NEW p \in Producers, PushBroadcast(p) \/ RaiseFlag(p) \/ MoveCursor(p) \/ MoveCursorY(p)
  PROVE  UNCHANGED Channel!vars
  <1>1. UNCHANGED <<line, late, strays, last>>
    BY DEF PushBroadcast, RaiseFlag, MoveCursor, MoveCursorY, history
  <1>2. Draining' <=> Draining
    BY DEF PushBroadcast, RaiseFlag, MoveCursor, MoveCursorY, Draining, Woken, IInv, TypeOK
  <1>3. PICK pc \in {"idle", "y", "flag", "broadcast"} :
           /\ post' = [post EXCEPT ![p].pc = pc]
           /\ post[p].pc \in {"idle", "y", "flag", "broadcast"}
    BY DEF PushBroadcast, RaiseFlag, MoveCursor, MoveCursorY
  <1>4. post \in [Producers -> [pc : {"idle", "add", "copy", "y", "flag", "broadcast"},
                                queue : Queues, place : Places, n : Nat]]
    BY DEF IInv, TypeOK
  <1>5. \A r \in Producers :
           \/ post'[r] = post[r]
           \/ /\ post'[r].n = post[r].n
              /\ post[r].pc \notin {"add", "copy"} /\ post'[r].pc \notin {"add", "copy"}
    BY <1>3, <1>4
  <1> QED BY <1>1, <1>2, <1>5, QuietStep

LEMMA StartPostStep ==
  ASSUME IInv, IInv', NEW p \in Producers, PushLoadIndex(p)
  PROVE  Channel!Next
  <1>1. /\ line' = line /\ last' = last /\ Draining' = Draining
        /\ late' = IF Draining THEN late \cup {p} ELSE late
        /\ strays' = IF Draining THEN strays + 1 ELSE strays
    BY DEF PushLoadIndex, Draining
  <1>2. /\ post[p].pc = "idle" /\ post'[p].pc = "add"
        /\ \A r \in Producers : r # p => post'[r] = post[r]
    BY DEF PushLoadIndex, IInv, TypeOK
  <1>3. EventOf(p)' \in Events
    <2>1. post'[p].n \in 1..MaxPosts[p] /\ post'[p].n # 0
      BY <1>2, CapacityAssumption DEF IInv, Numbered, TypeOK, InPush
    <2>2. EventOf(p)' = <<p, post'[p].n>>
      BY <2>1 DEF EventOf
    <2> QED BY <2>1, <2>2, PushesAre DEF Pushes
  <1>4. Stage[p] = "idle" /\ Stage' = [Stage EXCEPT ![p] = "begun"]
    BY <1>2 DEF Stage
  <1>5. Item' = [Item EXCEPT ![p] = EventOf(p)']
    BY <1>2 DEF Item, EventOf
  <1>6. Channel!StartPost(p, EventOf(p)')
    BY <1>1, <1>4, <1>5 DEF Channel!StartPost, Item
  <1> QED BY <1>3, <1>6 DEF Channel!Next

LEMMA EnterStep ==
  ASSUME IInv, IInv', NEW p \in Producers, PushTakePlace(p)
  PROVE  Channel!Next
  <1> DEFINE k == total[post[p].queue]
             turn == [queue |-> post[p].queue, place |-> k, event |-> EventOf(p)]
  <1>1. /\ Draining' = Draining /\ late' = late /\ strays' = strays /\ last' = last
        /\ line' = IF p \in late THEN line ELSE line \cup {turn}
    BY DEF PushTakePlace, Draining
  <1>2. /\ post[p].pc = "add" /\ post'[p].pc = "copy"
        /\ \A r \in Producers : post'[r].n = post[r].n /\ (r # p => post'[r] = post[r])
    BY DEF PushTakePlace, IInv, TypeOK
  <1>3. Stage[p] = "begun" /\ Stage' = [Stage EXCEPT ![p] = "entered"]
    BY <1>2 DEF Stage
  <1>4. Item' = Item
    BY <1>2 DEF Item, EventOf
  <1>5. CASE p \in late
    <2>1. Line' = Line
      BY <1>1, <1>5 DEF Line
    <2> QED BY <1>1, <1>3, <1>4, <1>5, <2>1 DEF Channel!Next, Channel!Enter, Line, Item
  <1>6. CASE p \notin late
    <2>1. Line' = Line \cup {[turn |-> k, event |-> Item[p]]}
      <3>1. turn.place = k /\ turn.event = Item[p] /\ line' = line \cup {turn}
        BY <1>1, <1>6 DEF Item
      <3> HIDE DEF turn, k
      <3>2. Line' = Line \cup {[turn |-> turn.place, event |-> turn.event]}
        BY <3>1 DEF Line
      <3> QED BY <3>1, <3>2
    <2>2. post[p].queue = index /\ ~Draining
      BY <1>2, <1>6 DEF IInv, LateInv, PlaceInv, Busy, Promised, InPush
    <2>3. \A t \in Line : t.turn < k
      BY <2>2 DEF Line, IInv, TurnsInOrder
    <2>4. k \in Places
      <3>1. post'[p].place = k
        BY DEF PushTakePlace, IInv, TypeOK
      <3> QED BY <3>1 DEF IInv, TypeOK
    <2> QED BY <1>1, <1>3, <1>4, <1>6, <2>1, <2>3, <2>4 DEF Channel!Next, Channel!Enter, Line, Item
  <1> QED BY <1>5, <1>6

LEMMA EndPostStep ==
  ASSUME IInv, NEW p \in Producers, PushCopy(p)
  PROVE  Channel!Next
  <1> DEFINE hit == IF p \in late THEN TurnsAt(post[p].queue, post[p].place) ELSE {}
  <1>1. /\ Draining' = Draining /\ late' = late \ {p} /\ last' = last
        /\ line' = line \ hit /\ strays' = strays + Cardinality(hit) /\ strays \in Nat
    BY DEF PushCopy, Draining, IInv, TypeOK
  <1>2. /\ post[p].pc = "copy" /\ post'[p].pc = "broadcast"
        /\ \A r \in Producers : post'[r].n = post[r].n /\ (r # p => post'[r] = post[r])
    BY DEF PushCopy, IInv, TypeOK
  <1>3. Stage[p] = "entered" /\ Stage' = [Stage EXCEPT ![p] = "idle"]
    BY <1>2 DEF Stage
  <1>4. Item' = Item
    BY <1>2 DEF Item, EventOf
  <1>5. CASE hit = {}
    <2>1. Line' = Line /\ strays' = strays
      BY <1>1, <1>5, FS_EmptySet DEF Line
    <2>2. Channel!EndPost(p)
      BY <1>1, <1>3, <1>4, <2>1 DEF Channel!EndPost, Line, Item
    <2> QED BY <2>2 DEF Channel!Next
  <1>6. CASE hit # {}
    <2>1. PICK t \in line : hit = {t}
      BY <1>6 DEF TurnsAt, IInv, TurnsInOrder
    <2>2. p \in late /\ strays' = strays + 1
      BY <1>1, <1>6, <2>1, FS_Singleton
    <2>3. [turn |-> t.place, event |-> t.event] \in Line
      BY DEF Line
    <2>4. Line' = Line \ {[turn |-> t.place, event |-> t.event]}
      BY <1>1, <2>1, OneTurnLess
    <2>5. Channel!EndPost(p)
      BY <1>1, <1>3, <1>4, <2>2, <2>3, <2>4 DEF Channel!EndPost, Line, Item
    <2> QED BY <2>5 DEF Channel!Next
  <1> QED BY <1>5, <1>6

LEMMA StartPollStep ==
  ASSUME IInv, FlipQueues
  PROVE  Channel!Next
  <1>1. /\ ~Draining /\ Draining' /\ post' = post /\ last' = last /\ late' = Busy
        /\ line' = {t \in line : \A p \in Busy : t.event # EventOf(p)}
        /\ strays' = strays + Cardinality(Busy \ late)
    BY DEF FlipQueues, Draining, IInv, TypeOK
  <1>2. Stage' = Stage /\ Item' = Item /\ Channel!Busy = Busy
    BY <1>1, StageIs DEF Stage, Item, EventOf, IInv
  <1>3. Line' = {t \in Line : \A p \in Channel!Busy : t.event # Item[p]}
    <2>1. Busy \subseteq Producers
      BY DEF Busy
    <2>2. \A p \in Busy : Item[p] = EventOf(p)
      BY <2>1 DEF Item
    <2>3. Line' = {[turn |-> t.place, event |-> t.event] : t \in line'}
      BY DEF Line
    <2>4. ASSUME NEW x \in Line' PROVE x \in Line /\ \A p \in Busy : x.event # Item[p]
      <3>1. PICK t \in line' : x = [turn |-> t.place, event |-> t.event]
        BY <2>3
      <3>2. x.event = t.event /\ t \in line /\ \A p \in Busy : t.event # EventOf(p)
        BY <1>1, <3>1
      <3> QED BY <2>2, <3>1, <3>2 DEF Line
    <2>5. ASSUME NEW x \in Line, \A p \in Busy : x.event # Item[p] PROVE x \in Line'
      <3>1. PICK t \in line : x = [turn |-> t.place, event |-> t.event]
        BY DEF Line
      <3>2. x.event = t.event
        BY <3>1
      <3> QED BY <1>1, <2>2, <2>3, <2>5, <3>1, <3>2
    <2> QED BY <1>2, <2>4, <2>5
  <1>4. Channel!StartPoll
    <2>1. strays' = strays + Cardinality(Channel!Busy \ late) /\ late' = Channel!Busy
      BY <1>1, <1>2
    <2>2. \A S : Channel!Cardinality(S) = Cardinality(S)
      BY DEF Channel!Cardinality, Cardinality, Channel!IsFiniteSet, IsFiniteSet
    <2> QED BY <1>1, <1>2, <1>3, <2>1, <2>2 DEF Channel!StartPoll, Line, Item
  <1> QED BY <1>4 DEF Channel!Next

\* What the loop finds at a place with a turn is the event of that turn: no
\* push with a promise is under way in a poll.
LEMMA HandleStep ==
  ASSUME IInv, IInv', HandleEvent
  PROVE  Channel!Next
  <1> DEFINE served == TurnsAt(game.queue, game.i)
  <1>1. /\ game.pc = "drain" /\ Draining /\ Draining' /\ post' = post /\ late' = late
        /\ last' = slot[game.queue][game.i] /\ line' = line \ served
        /\ strays' = IF served = {} THEN strays - 1 ELSE strays
    BY DEF HandleEvent, Draining, IInv, TypeOK
  <1>2. Stage' = Stage /\ Item' = Item /\ Draining' = Draining
    BY <1>1 DEF Stage, Item, EventOf
  <1>3. CASE served = {}
    <2>1. Line' = Line
      BY <1>1, <1>3 DEF Line
    <2>2. strays > 0 /\ last' \in Events /\ strays' = strays - 1
      BY <1>1, <1>3 DEF IInv, TypeOK
    <2>3. Channel!HandleStray
      BY <1>1, <1>2, <2>1, <2>2 DEF Channel!HandleStray, Line, Item
    <2> QED BY <2>3 DEF Channel!Next
  <1>4. CASE served # {}
    <2>1. PICK t \in line : served = {t} /\ t.queue = game.queue /\ t.place = game.i
      BY <1>4 DEF TurnsAt, IInv, TurnsInOrder
    <2>2. last' = t.event
      <3>1. \A p \in Producers : ~Promised(p)
        BY <1>1 DEF IInv, LateInv, Busy, Promised, InPush
      <3> QED BY <1>1, <2>1, <3>1 DEF IInv, TurnInv
    <2>3. \A u \in Line : t.place <= u.turn
      BY <1>1, <2>1 DEF Line, IInv, TurnsInOrder
    <2>4. Line' = Line \ {[turn |-> t.place, event |-> t.event]}
      BY <1>1, <2>1, OneTurnLess
    <2>5. [turn |-> t.place, event |-> t.event] \in Line
      BY DEF Line
    <2>6. Channel!HandleNext
      BY <1>1, <1>2, <1>4, <2>2, <2>3, <2>4, <2>5 DEF Channel!HandleNext, Line, Item
    <2> QED BY <2>6 DEF Channel!Next
  <1> QED BY <1>3, <1>4

LEMMA EndPollStep ==
  ASSUME IInv, ClearTotal
  PROVE  Channel!Next
  <1>1. /\ Draining /\ ~Draining' /\ post' = post /\ last' = NoEvent
        /\ line = {} /\ line' = line /\ late' = late /\ strays' = strays
    BY DEF ClearTotal, Draining, IInv, TypeOK, GameInv
  <1>2. Stage' = Stage /\ Item' = Item /\ Line = {} /\ Line' = Line
    BY <1>1 DEF Stage, Item, EventOf, Line
  <1>3. Channel!EndPoll
    BY <1>1, <1>2 DEF Channel!EndPoll, Line, Item
  <1> QED BY <1>3 DEF Channel!Next

\* android_input_queue.c keeps the promise of EventChannel: every step of a
\* push, a poll or a wait is a step of the channel or changes nothing in it.
\* An event whose push overlaps no poll is handled by the next poll, once and
\* in its turn, and each push that overlaps one costs at most one callback
\* out of turn, and one more for a turn that it overwrites.
THEOREM KeepsPromise == Spec => ChannelPromise
  <1>1. Init => Channel!Init
    <2> SUFFICES ASSUME Init
                 PROVE  Channel!Init
      OBVIOUS
    <2>1. Stage = [p \in Producers |-> "idle"]
      BY DEF Init, QueueInit, Stage
    <2>2. Item \in [Producers -> Events]
      BY DEF Init, QueueInit, Item, EventOf, Events
    <2>3. Line = {} /\ ~Draining
      BY DEF Init, QueueInit, Line, Draining, Running
    <2> QED BY <2>1, <2>2, <2>3 DEF Init, QueueInit, Channel!Init, Line, Item
  <1>2. IInv /\ IInv' /\ [Next]_vars => [Channel!Next]_Channel!vars
    <2> SUFFICES ASSUME IInv, IInv', [Next]_vars
                 PROVE  Channel!Next \/ UNCHANGED Channel!vars
      OBVIOUS
    <2>1. CASE GameNext
      <3>1. CASE FlipQueues \/ HandleEvent \/ ClearTotal
        BY <3>1, StartPollStep, HandleStep, EndPollStep
      <3>2. CASE \/ \E op \in Calls : Call(op)
                 \/ SendCursor \/ SendCursorY \/ ResetFlags \/ Return
                 \/ WaitSteps \/ LeaveLoop
        BY <3>2, GameSteps
      <3> QED BY <2>1, <3>1, <3>2 DEF GameNext, PollSteps
    <2>2. CASE WaitSpurious
      BY <2>2, GameSteps
    <2>3. CASE \E p \in Producers : PushLoadIndex(p)
      BY <2>3, StartPostStep
    <2>4. CASE \E p \in Producers : PushSteps(p)
      BY <2>4, EnterStep, EndPostStep, ProducerSteps DEF PushSteps
    <2>5. CASE \E p \in Movers : MoveCursor(p)
      BY <2>5, ProducerSteps, CallsAssumption
    <2>6. CASE UNCHANGED vars
      BY <2>6, QuietStep DEF vars, history, Draining
    <2> QED BY <2>1, <2>2, <2>3, <2>4, <2>5, <2>6 DEF Next
  <1> QED BY <1>1, <1>2, Invariant, PTL DEF Spec, ChannelPromise, Channel!Spec
=============================================================================
