--------------------------- MODULE EventChannel ---------------------------
(* What the input queue of the GLFW backend promises to the game: an event *)
(* posted while no poll is running is handled by the next poll, once and   *)
(* in its turn.  A post that overlaps a poll (a late post) has no such     *)
(* promise: its event may be lost, repeated or delayed.  But it costs no   *)
(* more than one wrong callback (a stray), and one more with every event   *)
(* of another producer that it overwrites.                                 *)
EXTENDS Naturals, FiniteSets

CONSTANTS Producers, Events, NoEvent,
    Turns     \* numbers of the turns that events take

VARIABLES
    line,      \* events with a promise that are not yet handled, each with
               \* its turn
    stage,     \* stage[p]: where the post of producer p stands
    item,      \* item[p]: the event p posts, or posted last
    late,      \* the producers whose post has overlapped a poll
    polling,   \* whether the game is inside a poll
    strays,    \* callbacks that may still come out of turn
    last       \* the event of the last callback of this poll

vars == <<line, stage, item, late, polling, strays, last>>

Init ==
    /\ line = {} /\ late = {} /\ polling = FALSE /\ strays = 0
    /\ stage = [p \in Producers |-> "idle"]
    /\ item \in [Producers -> Events] /\ last = NoEvent

Busy == {p \in Producers : stage[p] # "idle"}

StartPost(p, e) ==
    /\ stage[p] = "idle"
    /\ stage' = [stage EXCEPT ![p] = "begun"]
    /\ item' = [item EXCEPT ![p] = e]
    /\ late' = IF polling THEN late \cup {p} ELSE late
    /\ strays' = IF polling THEN strays + 1 ELSE strays
    /\ UNCHANGED <<line, polling, last>>

\* The event takes a turn behind all that are in the line.
Enter(p) ==
    /\ stage[p] = "begun"
    /\ stage' = [stage EXCEPT ![p] = "entered"]
    /\ \/ p \in late /\ UNCHANGED line
       \/ /\ p \notin late
          /\ \E k \in Turns :
                /\ \A t \in line : t.turn < k
                /\ line' = line \cup {[turn |-> k, event |-> item[p]]}
    /\ UNCHANGED <<item, late, polling, strays, last>>

\* Only a late post can take an event out of the line.
EndPost(p) ==
    /\ stage[p] = "entered"
    /\ stage' = [stage EXCEPT ![p] = "idle"]
    /\ late' = late \ {p}
    /\ \/ UNCHANGED <<line, strays>>
       \/ /\ p \in late
          /\ \E t \in line : line' = line \ {t}
          /\ strays' = strays + 1
    /\ UNCHANGED <<item, polling, last>>

\* The promise covers the posts that are over when the poll starts.
StartPoll ==
    /\ ~polling /\ polling' = TRUE
    /\ line' = {t \in line : \A p \in Busy : t.event # item[p]}
    /\ late' = Busy
    /\ strays' = strays + Cardinality(Busy \ late)
    /\ UNCHANGED <<stage, item, last>>

HandleNext ==
    /\ polling
    /\ \E t \in line :
          /\ \A u \in line : t.turn <= u.turn
          /\ last' = t.event /\ line' = line \ {t}
    /\ UNCHANGED <<stage, item, late, polling, strays>>

HandleStray ==
    /\ polling /\ strays > 0
    /\ strays' = strays - 1 /\ last' \in Events
    /\ UNCHANGED <<line, stage, item, late, polling>>

\* A poll leaves no event behind that was promised to it.
EndPoll ==
    /\ polling /\ line = {}
    /\ polling' = FALSE /\ last' = NoEvent
    /\ UNCHANGED <<line, stage, item, late, strays>>

Next ==
    \/ \E p \in Producers :
        \/ \E e \in Events : StartPost(p, e)
        \/ Enter(p) \/ EndPost(p)
    \/ StartPoll \/ HandleNext \/ HandleStray \/ EndPoll

Spec == Init /\ [][Next]_vars
===========================================================================
