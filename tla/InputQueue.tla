---------------------------- MODULE InputQueue ----------------------------
(* android_input_queue.c: the double queue between the threads of Android, *)
(* which push input events, and the thread of the game, which drains them. *)
(* Every action is one access to the shared memory.  GlfwEvents composes   *)
(* the threads from these steps.                                           *)
EXTENDS Naturals, FiniteSets

CONSTANTS
    Producers,   \* threads that push events
    MaxPosts,    \* bound: MaxPosts[p] is how many events producer p pushes
    Capacity     \* length of events[], 512 in the code

NoEvent == <<>>   \* the zeroed memory of a slot reads as an empty event
Events == (UNION {{p} \X (1..MaxPosts[p]) : p \in Producers}) \cup {NoEvent}
Queues == {0, 1}
Places == 0..(Capacity - 1)

\* More than Capacity events between two polls run past the array: the
\* bounds keep to what the array holds.
ASSUME CapacityAssumption ==
    /\ MaxPosts \in [Producers -> Nat] /\ IsFiniteSet(Producers)
    /\ Capacity \in Nat \ {0} /\ Cardinality(Events) - 1 <= Capacity

VARIABLES
    index,     \* the queue that takes new events
    total,     \* events_total of either queue
    slot,      \* events[] of either queue
    post,      \* post[p]: the call of _input_queue_push of producer p
    game,      \* the game thread: where it is, in which call, and its loop
    line,      \* history: turns of the events pushed while no poll ran and
               \* not yet handled
    late,      \* history: producers whose push overlapped a poll
    strays,    \* history: callbacks that may come out of turn
    last       \* history: the event of the last callback of this poll

queueVars == <<index, total, slot>>
history == <<line, late, strays, last>>

QueueInit ==
    /\ index = 0
    /\ total = [q \in Queues |-> 0]
    /\ post = [p \in Producers |-> [pc |-> "idle", queue |-> 0, place |-> 0, n |-> 0]]
    /\ slot = [q \in Queues |-> [k \in Places |-> NoEvent]]
    /\ line = {} /\ late = {} /\ strays = 0 /\ last = NoEvent

EventOf(p) == IF post[p].n = 0 THEN NoEvent ELSE <<p, post[p].n>>
Busy == {p \in Producers : post[p].pc \in {"add", "copy"}}
TurnsAt(q, k) == {t \in line : t.queue = q /\ t.place = k}
Draining == game.pc \in {"drain", "clear"}

------------------------------------------------------------------------------
(* _input_queue_push *)

PushLoadIndex(p) ==
    /\ post[p].pc = "idle" /\ post[p].n < MaxPosts[p]
    /\ post' = [post EXCEPT ![p].pc = "add", ![p].queue = index, ![p].n = @ + 1]
    /\ late' = IF Draining THEN late \cup {p} ELSE late
    /\ strays' = IF Draining THEN strays + 1 ELSE strays
    /\ UNCHANGED <<index, total, slot, game, line, last>>

\* The place the increment leads to instead of the one it came from.
PushTakePlace_AddFetch(p) ==
    LET q == post[p].queue  k == total[q] + 1 IN
    /\ post[p].pc = "add"
    /\ total' = [total EXCEPT ![q] = k]
    /\ post' = [post EXCEPT ![p].pc = "copy", ![p].place = k]
    /\ line' = IF p \in late THEN line
               ELSE line \cup {[queue |-> q, place |-> k, event |-> EventOf(p)]}
    /\ UNCHANGED <<index, slot, game, late, strays, last>>

\* atomic_fetch_add: the place is this producer's until total is cleared.
PushTakePlace(p) ==
    LET q == post[p].queue  k == total[q] IN
    /\ post[p].pc = "add"
    /\ total' = [total EXCEPT ![q] = @ + 1]
    /\ post' = [post EXCEPT ![p].pc = "copy", ![p].place = k]
    /\ line' = IF p \in late THEN line
               ELSE line \cup {[queue |-> q, place |-> k, event |-> EventOf(p)]}
    /\ UNCHANGED <<index, slot, game, late, strays, last>>

\* memcpy.  A late copy may land on the place of another event.
PushCopy(p) ==
    LET q == post[p].queue  k == post[p].place
        hit == IF p \in late THEN TurnsAt(q, k) ELSE {}
    IN
    /\ post[p].pc = "copy"
    /\ slot' = [slot EXCEPT ![q][k] = EventOf(p)]
    /\ post' = [post EXCEPT ![p].pc = "broadcast", ![p].queue = 0, ![p].place = 0]
    /\ late' = late \ {p}
    /\ line' = line \ hit
    /\ strays' = strays + Cardinality(hit)
    /\ UNCHANGED <<index, total, game, last>>

\* pthread_cond_broadcast, without the mutex: it wakes who sleeps already.
Woken == IF game.pc = "asleep" THEN [game EXCEPT !.pc = "flip"] ELSE game

PushBroadcast(p) ==
    /\ post[p].pc = "broadcast"
    /\ post' = [post EXCEPT ![p].pc = "idle"]
    /\ game' = Woken
    /\ UNCHANGED <<queueVars, history>>

------------------------------------------------------------------------------
(* _input_queue_dequeue; "done" hands back to the caller *)

\* index read after it is flipped.
FlipQueues_ReadLate ==
    /\ game.pc = "flip"
    /\ index' = 1 - index
    /\ game' = [game EXCEPT !.pc = "drain", !.op = "poll", !.queue = index', !.i = 0]
    /\ line' = {t \in line : \A p \in Busy : t.event # EventOf(p)}
    /\ late' = Busy
    /\ strays' = strays + Cardinality(Busy \ late)
    /\ UNCHANGED <<total, slot, post, last>>

FlipQueues ==
    /\ game.pc = "flip"
    /\ index' = 1 - index
    /\ game' = [game EXCEPT !.pc = "drain", !.op = "poll", !.queue = index, !.i = 0]
    /\ line' = {t \in line : \A p \in Busy : t.event # EventOf(p)}
    /\ late' = Busy
    /\ strays' = strays + Cardinality(Busy \ late)
    /\ UNCHANGED <<total, slot, post, last>>

\* One turn of the loop, which reads events_total anew each time, and then
\* the slot.  Until this thread clears it the total only grows: what held of
\* it when it was read holds when the slot is read, and one step is enough.
HandleEvent ==
    LET served == TurnsAt(game.queue, game.i) IN
    /\ game.pc = "drain" /\ game.i < total[game.queue]
    /\ last' = slot[game.queue][game.i]
    /\ game' = [game EXCEPT !.i = @ + 1]
    /\ line' = line \ served
    /\ strays' = IF served = {} THEN strays - 1 ELSE strays
    /\ UNCHANGED <<queueVars, post, late>>

LeaveLoop_OneLeft ==
    /\ game.pc = "drain" /\ game.i + 1 >= total[game.queue]
    /\ game' = [game EXCEPT !.pc = "clear"]
    /\ UNCHANGED <<queueVars, post, history>>

LeaveLoop ==
    /\ game.pc = "drain" /\ game.i >= total[game.queue]
    /\ game' = [game EXCEPT !.pc = "clear"]
    /\ UNCHANGED <<queueVars, post, history>>

ClearTotal_Kept ==
    /\ game.pc = "clear"
    /\ game' = [game EXCEPT !.pc = "done", !.queue = 0, !.i = 0]
    /\ last' = NoEvent
    /\ UNCHANGED <<queueVars, post, line, late, strays>>

ClearTotal ==
    /\ game.pc = "clear"
    /\ total' = [total EXCEPT ![game.queue] = 0]
    /\ game' = [game EXCEPT !.pc = "done", !.queue = 0, !.i = 0]
    /\ last' = NoEvent
    /\ UNCHANGED <<index, slot, post, line, late, strays>>

------------------------------------------------------------------------------
(* _input_queue_wait and _input_queue_timedwait *)

\* The two reads of index and total; nothing holds the answer still.
WaitCheckTotal ==
    /\ game.pc = "check"
    /\ game' = [game EXCEPT !.pc = IF total[index] = 0 THEN "lock" ELSE "flip"]
    /\ UNCHANGED <<queueVars, post, history>>

\* Nobody else takes wait_mutex; pthread_cond_wait is not in a loop.
WaitSleep ==
    /\ game.pc = "lock"
    /\ game' = [game EXCEPT !.pc = "asleep"]
    /\ UNCHANGED <<queueVars, post, history>>

\* pthread_cond_timedwait ends at its time.
WaitTimeout ==
    /\ game.pc = "asleep" /\ game.op = "timed"
    /\ game' = [game EXCEPT !.pc = "flip"]
    /\ UNCHANGED <<queueVars, post, history>>

\* POSIX lets pthread_cond_wait return without a broadcast.
WaitSpurious ==
    /\ game.pc = "asleep" /\ game.op = "wait"
    /\ game' = [game EXCEPT !.pc = "flip"]
    /\ UNCHANGED <<queueVars, post, history>>
==============================================================================
