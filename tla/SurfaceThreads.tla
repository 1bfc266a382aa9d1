--------------------------- MODULE SurfaceThreads ---------------------------
(* The two threads that call into the backends: the UI thread of Android,   *)
(* which delivers the surface callbacks, and the thread of the game.  A     *)
(* thread is at a label, holds the surface it was called with, and knows    *)
(* the label of its caller.                                                 *)
EXTENDS Naturals

CONSTANT MaxSurfaces   \* bound: surfaces the view gets, one after the other

ASSUME MaxSurfacesAssumption == MaxSurfaces \in Nat \ {0}

None == 0
Surfaces == 1..MaxSurfaces
Threads == {"ui", "game"}

VARIABLES
    pc,     \* pc[t]: the label of thread t
    arg,    \* arg[t]: the surface of the call it is in
    ret     \* ret[t]: where the call returns to

threadVars == <<pc, arg, ret>>

Goto(t, l) == pc' = [pc EXCEPT ![t] = l] /\ UNCHANGED <<arg, ret>>

Enter(t, l, s, r) ==
    /\ pc' = [pc EXCEPT ![t] = l]
    /\ arg' = [arg EXCEPT ![t] = s]
    /\ ret' = [ret EXCEPT ![t] = r]

Return(t) ==
    /\ pc' = [pc EXCEPT ![t] = ret[t]]
    /\ arg' = [arg EXCEPT ![t] = None]
    /\ ret' = [ret EXCEPT ![t] = "none"]

\* A broadcast: the thread t that sleeps at label l goes on at label m.
Wake(here, next, t, l, m) ==
    pc' = [pc EXCEPT ![here] = next, ![t] = IF pc[t] = l THEN m ELSE @]
=============================================================================
