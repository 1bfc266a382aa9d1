----------------------------- MODULE AwtRender -----------------------------
(* The surface of the AWT backend (awt_window.c, awt.c): a render thread    *)
(* copies the screen of the Java VM to the native window; beginning and     *)
(* ending stop the thread that runs and join it.  The critical sections of  *)
(* vm_wait_mutex are one action each.                                       *)
EXTENDS SurfaceThreads

VARIABLES
    isRendering,      \* is_rendering
    isVmConnected,
    renderThread,     \* render_thread; a thread is named for who created it
                      \* and the surface of its window, NoThread is 0
    renderer          \* renderer[r]: where render thread r is

Renderers == Threads \X Surfaces
NoThread == <<>>

awtVars == <<isRendering, isVmConnected, renderThread, renderer>>

AwtInit ==
    /\ isRendering = FALSE /\ isVmConnected = FALSE
    /\ renderThread = NoThread /\ renderer = [r \in Renderers |-> "none"]

------------------------------------------------------------------------------
(* render_loop_thread *)

\* The first thing the thread does.
RenderStart(r) ==
    /\ renderer[r] = "start"
    /\ isRendering' = TRUE
    /\ renderer' = [renderer EXCEPT ![r] = "check"]
    /\ UNCHANGED <<isVmConnected, renderThread, threadVars>>

RenderCheckVm(r) ==
    /\ renderer[r] = "check"
    /\ renderer' = [renderer EXCEPT ![r] = IF isVmConnected THEN "attach" ELSE "lock"]
    /\ UNCHANGED <<isRendering, isVmConnected, renderThread, threadVars>>

RenderWait(r) ==
    /\ renderer[r] = "lock"
    /\ renderer' = [renderer EXCEPT ![r] = "asleep"]
    /\ UNCHANGED <<isRendering, isVmConnected, renderThread, threadVars>>

\* pthread_cond_wait may return without a broadcast, and is not in a loop.
RenderSpurious(r) ==
    /\ renderer[r] = "asleep"
    /\ renderer' = [renderer EXCEPT ![r] = "awake"]
    /\ UNCHANGED <<isRendering, isVmConnected, renderThread, threadVars>>

\* A thread that was woken looks whether it is still wanted, and there has
\* to be a VM to attach to.
RenderWoken(r) ==
    /\ renderer[r] = "awake"
    /\ renderer' = [renderer EXCEPT ![r] = IF isRendering THEN "attach" ELSE "over"]
    /\ UNCHANGED <<isRendering, isVmConnected, renderThread, threadVars>>

RenderAttach(r) ==
    /\ renderer[r] = "attach"
    /\ renderer' = [renderer EXCEPT ![r] = IF isVmConnected THEN "loop" ELSE "crashed"]
    /\ UNCHANGED <<isRendering, isVmConnected, renderThread, threadVars>>

RenderLook(r) ==
    /\ renderer[r] = "loop"
    /\ renderer' = [renderer EXCEPT ![r] = IF isRendering THEN "draw" ELSE "over"]
    /\ UNCHANGED <<isRendering, isVmConnected, renderThread, threadVars>>

RenderFrame(r) ==
    /\ renderer[r] = "draw"
    /\ renderer' = [renderer EXCEPT ![r] = "loop"]
    /\ UNCHANGED <<isRendering, isVmConnected, renderThread, threadVars>>

Render(r) ==
    \/ RenderStart(r) \/ RenderCheckVm(r) \/ RenderWait(r) \/ RenderWoken(r)
    \/ RenderAttach(r) \/ RenderLook(r) \/ RenderFrame(r)

Awaken == [r \in Renderers |-> IF renderer[r] = "asleep" THEN "awake" ELSE renderer[r]]

------------------------------------------------------------------------------
(* render_loop_shutdown, nativeBeginRendering and nativeEndRendering *)

\* Only the beginning looks whether there is a thread to stop.
Begin(t) ==
    /\ pc[t] = "awt_begin"
    /\ Goto(t, IF renderThread # NoThread THEN "awt_stop" ELSE "awt_create")
    /\ UNCHANGED awtVars

Stop(t) ==
    /\ pc[t] = "awt_stop"
    /\ isRendering' = FALSE
    /\ Goto(t, "awt_signal")
    /\ UNCHANGED <<isVmConnected, renderThread, renderer>>

StopSignal_Silent(t) ==
    /\ pc[t] = "awt_signal"
    /\ Goto(t, "awt_join")
    /\ UNCHANGED awtVars

StopSignal(t) ==
    /\ pc[t] = "awt_signal"
    /\ renderer' = Awaken
    /\ Goto(t, "awt_join")
    /\ UNCHANGED <<isRendering, isVmConnected, renderThread>>

Join_NoWait(t) ==
    /\ pc[t] = "awt_join"
    /\ renderThread' = NoThread
    /\ IF arg[t] = None THEN Return(t) ELSE Goto(t, "awt_create")
    /\ UNCHANGED <<isRendering, isVmConnected, renderer>>

\* An end that goes on to create a thread, for a surface it was not given.
Join_AlwaysCreates(t) ==
    /\ pc[t] = "awt_join"
    /\ renderThread # NoThread => renderer[renderThread] = "over"
    /\ renderThread' = NoThread
    /\ Goto(t, "awt_create")
    /\ UNCHANGED <<isRendering, isVmConnected, renderer>>

\* pthread_join; there is no thread 0 to wait for.
Join(t) ==
    /\ pc[t] = "awt_join"
    /\ renderThread # NoThread => renderer[renderThread] = "over"
    /\ renderThread' = NoThread
    /\ IF arg[t] = None THEN Return(t) ELSE Goto(t, "awt_create")
    /\ UNCHANGED <<isRendering, isVmConnected, renderer>>

CreateThread(t) ==
    /\ pc[t] = "awt_create"
    /\ renderThread' = <<t, arg[t]>>
    /\ renderer' = [renderer EXCEPT ![renderThread'] = "start"]
    /\ Return(t)
    /\ UNCHANGED <<isRendering, isVmConnected>>

RenderCall(t) == Begin(t) \/ Stop(t) \/ StopSignal(t) \/ Join(t) \/ CreateThread(t)

------------------------------------------------------------------------------
(* JNI_OnLoad in the VM of the game: the broadcast is outside the mutex *)

ConnectVm ==
    /\ pc["game"] = "connect"
    /\ isVmConnected' = TRUE
    /\ Goto("game", "connected")
    /\ UNCHANGED <<isRendering, renderThread, renderer>>

ConnectSignal(next) ==
    /\ pc["game"] = "connected"
    /\ renderer' = Awaken
    /\ Goto("game", next)
    /\ UNCHANGED <<isRendering, isVmConnected, renderThread>>
=============================================================================
