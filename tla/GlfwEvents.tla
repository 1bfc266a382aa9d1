---------------------------- MODULE GlfwEvents ----------------------------
(* The event functions of android_window.c over the input queue: threads   *)
(* of Android push events and set the mouse position, the game thread      *)
(* calls glfwPollEvents, glfwWaitEvents or glfwWaitEventsTimeout, over and *)
(* over.  The first window exists, so no event is dropped for lack of one. *)
EXTENDS InputQueue

CONSTANTS
    Calls,       \* which calls the game makes: "poll", "wait", "timed"
    Movers,      \* the producer that sets the mouse position too, if any:
                 \* the UI thread, where all callers of it run
    MaxMoves     \* bound: mouse moves

ASSUME CallsAssumption ==
    /\ Calls \subseteq {"poll", "wait", "timed"}
    /\ Movers \subseteq Producers /\ \A p, q \in Movers : p = q
    /\ MaxMoves \in Nat

VARIABLES
    flag,      \* FLAG_MOUSE_POS of update_flags
    xcursor, ycursor,  \* the numbers of the moves that set them
    xread, yread       \* what of them was read last to be given to the game

mouseVars == <<flag, xcursor, ycursor, xread, yread>>
vars == <<queueVars, post, game, history, mouseVars>>

Running == [pc |-> "run", op |-> "poll", queue |-> 0, i |-> 0, flagged |-> FALSE]

Init ==
    /\ QueueInit
    /\ game = Running
    /\ flag = FALSE /\ xcursor = 0 /\ ycursor = 0 /\ xread = 0 /\ yread = 0

------------------------------------------------------------------------------
(* sendMousePosition, on a thread that pushes nothing meanwhile *)

MoveCursor(p) ==
    /\ post[p].pc = "idle" /\ xcursor < MaxMoves
    /\ xcursor' = xcursor + 1
    /\ post' = [post EXCEPT ![p].pc = "y"]
    /\ UNCHANGED <<queueVars, game, history, flag, ycursor, xread, yread>>

MoveCursorY(p) ==
    /\ post[p].pc = "y"
    /\ ycursor' = xcursor
    /\ post' = [post EXCEPT ![p].pc = "flag"]
    /\ UNCHANGED <<queueVars, game, history, flag, xcursor, xread, yread>>

\* The broadcast that follows is that of _input_queue_wait_unlock.
RaiseFlag(p) ==
    /\ post[p].pc = "flag"
    /\ post' = [post EXCEPT ![p].pc = "broadcast"]
    /\ flag' = TRUE
    /\ UNCHANGED <<queueVars, game, history, xcursor, ycursor, xread, yread>>

------------------------------------------------------------------------------
(* The game thread *)

GameStep(pc) ==
    /\ game' = IF pc = "run" THEN Running ELSE [game EXCEPT !.pc = pc]
    /\ UNCHANGED <<queueVars, post, history>>

\* A poll that only drains the queue.
Call_PollWithoutFlags(op) ==
    /\ game.pc = "run"
    /\ game' = IF op = "poll" THEN [game EXCEPT !.pc = "flip", !.flagged = TRUE]
               ELSE IF flag THEN [game EXCEPT !.pc = "send", !.flagged = TRUE]
               ELSE [game EXCEPT !.pc = "check", !.op = op]
    /\ UNCHANGED <<queueVars, post, history, mouseVars>>

\* The call starts with the test of update_flags; "flagged" is whether the
\* flags are done with before the queue is drained.
Call(op) ==
    /\ game.pc = "run"
    /\ game' = IF flag \/ op = "poll"
               THEN [game EXCEPT !.pc = IF flag THEN "send" ELSE "flip", !.flagged = TRUE]
               ELSE [game EXCEPT !.pc = "check", !.op = op]
    /\ UNCHANGED <<queueVars, post, history, mouseVars>>

\* push_flag_events: read the position, x first, then forget the flags.
SendCursor ==
    /\ game.pc = "send"
    /\ xread' = IF flag THEN xcursor ELSE xread
    /\ GameStep(IF flag THEN "sendY" ELSE "reset")
    /\ UNCHANGED <<flag, xcursor, ycursor, yread>>

SendCursorY ==
    /\ game.pc = "sendY"
    /\ yread' = ycursor
    /\ GameStep("reset")
    /\ UNCHANGED <<flag, xcursor, ycursor, xread>>

ResetFlags ==
    /\ game.pc = "reset"
    /\ flag' = FALSE
    /\ GameStep(IF game.flagged THEN "flip" ELSE "run")
    /\ UNCHANGED <<xcursor, ycursor, xread, yread>>

\* After the queue: a wait that began without flags looks at them now.
Return ==
    /\ game.pc = "done"
    /\ GameStep(IF ~game.flagged /\ flag THEN "send" ELSE "run")
    /\ UNCHANGED mouseVars

PollSteps == FlipQueues \/ HandleEvent \/ LeaveLoop \/ ClearTotal
WaitSteps == WaitCheckTotal \/ WaitSleep \/ WaitTimeout
PushSteps(p) ==
    \/ (PushTakePlace(p) \/ PushCopy(p) \/ PushBroadcast(p)) /\ UNCHANGED mouseVars
    \/ MoveCursorY(p) \/ RaiseFlag(p)

GameNext ==
    \/ \E op \in Calls : Call(op)
    \/ SendCursor \/ SendCursorY \/ ResetFlags \/ Return
    \/ (PollSteps \/ WaitSteps) /\ UNCHANGED mouseVars

Next ==
    \/ GameNext
    \/ WaitSpurious /\ UNCHANGED mouseVars
    \/ \E p \in Producers : PushLoadIndex(p) /\ UNCHANGED mouseVars
    \/ \E p \in Producers : PushSteps(p)
    \/ \E p \in Movers : MoveCursor(p)

Spec == Init /\ [][Next]_vars

\* The game calls again and again, runs on unless it sleeps, and a timed
\* wait ends.  Nothing is assumed of who pushes.
GameSpec == Spec /\ WF_vars(GameNext)

\* Besides, who has begun a push or a move ends it.
FairSpec == GameSpec /\ \A p \in Producers : WF_vars(PushSteps(p))

------------------------------------------------------------------------------
TypeOK ==
    /\ index \in Queues
    /\ total \in [Queues -> 0..Capacity]
    /\ slot \in [Queues -> [Places -> Events]]
    /\ post \in [Producers -> [pc : {"idle", "add", "copy", "y", "flag", "broadcast"}, queue : Queues,
                               place : Places, n : Nat]]
    /\ game \in [pc : {"run", "send", "sendY", "reset", "check", "lock", "asleep", "flip",
                       "drain", "clear", "done"},
                 op : {"poll", "wait", "timed"}, queue : Queues, i : 0..Capacity,
                 flagged : BOOLEAN]
    /\ line \subseteq [queue : Queues, place : Places, event : Events]
    /\ late \subseteq Producers /\ strays \in Nat /\ last \in Events
    /\ flag \in BOOLEAN
    /\ {xcursor, ycursor, xread, yread} \subseteq 0..MaxMoves

\* The queue keeps the promise of EventChannel: an event whose push
\* overlaps no poll is handled by the next poll, in its turn and once.
Stage == [p \in Producers |-> CASE post[p].pc = "add" -> "begun"
                                [] post[p].pc = "copy" -> "entered"
                                [] OTHER -> "idle"]
Channel == INSTANCE EventChannel WITH
    Turns <- Places,
    line <- {[turn |-> t.place, event |-> t.event] : t \in line},
    stage <- Stage,
    item <- [p \in Producers |-> EventOf(p)],
    polling <- Draining
ChannelPromise == Channel!Spec

\* Such events do not stay: the line is empty again and again, unless the
\* game sleeps in a glfwWaitEvents that nobody ends.
SleepsForGood == game.pc = "asleep" /\ game.op = "wait"
PostedIsHandled == (line # {}) ~> (line = {} \/ SleepsForGood)

\* A mouse position whose flag is set outside push_flag_events reaches the
\* game in the end, x and y, though later positions take its place and one of
\* them may be half written when the game reads it.
MoveIsReported ==
    \A m \in 1..MaxMoves :
        (ycursor = m /\ flag /\ game.pc \notin {"send", "sendY", "reset"})
            ~> ((xread >= m /\ yread >= m) \/ SleepsForGood)

\* Each taken place is below the total of its queue and not handled yet, and
\* two events that wait in line hold two places.
TurnsInOrder ==
    /\ \A t \in line :
        /\ t.queue = IF Draining THEN game.queue ELSE index
        /\ t.place < total[t.queue]
        /\ Draining => t.place >= game.i
    /\ \A t, u \in line : t.place = u.place => t = u

\* glfw3.h: an empty event makes a waiting call return.
EmptyEventEndsWait ==
    \A p \in Producers :
        (post[p].pc = "copy" /\ game.pc \in {"check", "lock", "asleep"}) ~> (game.pc = "run")
==============================================================================
