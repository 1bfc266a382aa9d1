------------------------------ MODULE Platform ------------------------------
(* Platform.java over its backends: the view of the game delivers surfaces  *)
(* on the UI thread, the library the game loads puts its own backend in the *)
(* place of the first one on the thread of the game.                        *)
EXTENDS GlfwSurface, AwtRender

CONSTANTS
    Clients,     \* what may run: "gl", "vulkan", "awt", or "awtActivity"
    MaxResizes   \* bound: resizes of the surface

ASSUME PlatformAssumption ==
    Clients \subseteq {"gl", "vulkan", "awt", "awtActivity"} /\ MaxResizes \in Nat

VARIABLES
    client,      \* the program that runs
    backend,     \* PLATFORM: "dummy", "glfw" or "awt"
    pending,     \* mPendingSurface, as the thread of the game sees it
    late,        \* whether the last store of the UI thread to it is still to come
    screen,      \* the surface of the view, or None
    made,        \* surfaces the view has had
    missed       \* history: whether the game looked too early at a late store

viewVars == <<pending, late, screen, made>>
platformVars == <<client, backend, viewVars, missed>>
vars == <<threadVars, glfwVars, awtVars, platformVars>>

\* The GameActivity starts with the dummy backend, the AWTActivity with its own.
Init ==
    /\ GlfwInit /\ AwtInit
    /\ client \in Clients
    /\ backend = IF client = "awtActivity" THEN "awt" ELSE "dummy"
    /\ pending = None /\ late = FALSE /\ screen = None /\ made = 0
    /\ missed = FALSE
    /\ pc = [t \in Threads |-> IF t = "ui" THEN "idle" ELSE "off"]
    /\ arg = [t \in Threads |-> None] /\ ret = [t \in Threads |-> "none"]

------------------------------------------------------------------------------
(* The backend in force: what its method does, or nothing for the dummy *)

SurfaceCreated(t, s, r) ==
    CASE backend = "glfw" -> Enter(t, "gl_created", s, r)
      [] backend = "awt" -> Enter(t, "awt_begin", s, r)
      [] backend = "dummy" -> Goto(t, r)

SurfaceDestroyed(t, r) ==
    CASE backend = "glfw" -> Enter(t, "gl_destroyed", None, r)
      [] backend = "awt" -> Enter(t, "awt_stop", None, r)
      [] backend = "dummy" -> Goto(t, r)

------------------------------------------------------------------------------
(* UI thread: the callbacks of the view.  The AWTView keeps nothing pending. *)

\* updateSurface stores the surface and then looks at PLATFORM.  Both are plain
\* static fields, so the thread of the game may see the store later than that.
ViewCreated ==
    /\ pc["ui"] = "idle" /\ screen = None /\ made < MaxSurfaces
    /\ made' = made + 1 /\ screen' = made'
    /\ late' = (client # "awtActivity")
    /\ Goto("ui", "deliver")
    /\ UNCHANGED <<glfwVars, awtVars, client, backend, pending, missed>>

\* A pending surface that is never replaced.
PendingSeen_First ==
    /\ late
    /\ pending' = IF pending = None THEN screen ELSE pending
    /\ late' = FALSE
    /\ UNCHANGED <<threadVars, glfwVars, awtVars, client, backend, screen, made, missed>>

PendingSeen ==
    /\ late
    /\ pending' = screen
    /\ late' = FALSE
    /\ UNCHANGED <<threadVars, glfwVars, awtVars, client, backend, screen, made, missed>>

Deliver ==
    /\ pc["ui"] = "deliver"
    /\ SurfaceCreated("ui", screen, "idle")
    /\ UNCHANGED <<glfwVars, awtVars, platformVars>>

\* nativeSurfaceUpdated; the size the AWT backend takes is for its input only.
ViewResized ==
    /\ pc["ui"] = "idle" /\ screen # None /\ size < MaxResizes
    /\ size' = size + 1
    /\ surfaceUpdated' = IF backend = "glfw" THEN TRUE ELSE surfaceUpdated
    /\ UNCHANGED <<threadVars, callbackVars, surfaceInUse, ownedByVulkan, windowVars, awtVars,
                   platformVars>>

\* The lock of the message queue between two callbacks publishes the store.
ViewDestroyed ==
    /\ pc["ui"] = "idle" /\ screen # None /\ ~late
    /\ SurfaceDestroyed("ui", "gone")
    /\ UNCHANGED <<glfwVars, awtVars, platformVars>>

\* Android takes the surface back when the callback has returned.
ViewGone ==
    /\ pc["ui"] = "gone"
    /\ screen' = None
    /\ Goto("ui", "idle")
    /\ UNCHANGED <<glfwVars, awtVars, client, backend, pending, late, made, missed>>

------------------------------------------------------------------------------
(* Game thread: it starts with the first surface; setPlatformLibrary *)

\* realStart follows the first updateSurface; the AWTActivity waits for
\* none.  To start a thread publishes what its creator stored.  An AWT
\* program connects its VM before it opens a window.
Launch ==
    /\ pc["game"] = "off"
    /\ client = "awtActivity" \/ (made > 0 /\ pc["ui"] = "idle" /\ ~late)
    /\ Goto("game", IF client \in {"awt", "awtActivity"} THEN "connect" ELSE "init")
    /\ UNCHANGED <<glfwVars, awtVars, platformVars>>

ClientBackend == IF client = "awt" THEN "awt" ELSE "glfw"
AfterInit == IF client = "awt" THEN "ended" ELSE "open"

LeaveBackend ==
    /\ pc["game"] = "init"
    /\ SurfaceDestroyed("game", "assign")
    /\ UNCHANGED <<glfwVars, awtVars, platformVars>>

AssignBackend ==
    /\ pc["game"] = "assign"
    /\ backend' = ClientBackend
    /\ Goto("game", "pick")
    /\ UNCHANGED <<glfwVars, awtVars, client, viewVars, missed>>

PickPending ==
    /\ pc["game"] = "pick"
    /\ IF pending = None THEN Goto("game", AfterInit)
       ELSE SurfaceCreated("game", pending, AfterInit)
    /\ missed' = (missed \/ (late /\ pc["ui"] # "deliver"))
    /\ UNCHANGED <<glfwVars, awtVars, client, backend, viewVars>>

\* The surface that was picked may be gone by now: ANativeWindow_fromSurface
\* returns NULL for it, which cannot be acquired.
DeadSurface ==
    /\ pc["game"] = "gl_created" /\ arg["game"] # screen
    /\ Enter("game", "crashed", None, "none")
    /\ UNCHANGED <<glfwVars, awtVars, platformVars>>

AfterConnect == IF client = "awtActivity" THEN "ended" ELSE "init"
AfterOpen == IF client = "vulkan" THEN "vk_own" ELSE "manage"

GameNext ==
    \/ Launch \/ LeaveBackend \/ AssignBackend \/ PickPending \/ DeadSurface
    \/ (OpenWindow(AfterOpen) \/ GlLoop \/ VulkanLoop) /\ UNCHANGED <<awtVars, platformVars>>
    \/ (ConnectVm \/ ConnectSignal(AfterConnect)) /\ UNCHANGED <<glfwVars, platformVars>>

\* A thread inside a call of a backend.
InCall(t) ==
    \/ Callback(t) /\ UNCHANGED <<awtVars, platformVars>>
    \/ RenderCall(t) /\ UNCHANGED <<glfwVars, platformVars>>

Next ==
    \/ ViewCreated \/ PendingSeen \/ ViewResized \/ ViewDestroyed
    \/ Deliver \/ ViewGone \/ InCall("ui")
    \/ GameNext \/ InCall("game")
    \/ CloseWindow /\ UNCHANGED <<awtVars, platformVars>>
    \/ \E t \in Threads : SpuriousWake(t) /\ UNCHANGED <<awtVars, platformVars>>
    \/ \E r \in Renderers :
          (Render(r) \/ RenderSpurious(r)) /\ UNCHANGED <<glfwVars, platformVars>>

Spec == Init /\ [][Next]_vars

\* A thread goes on unless it sleeps or joins: the game, which draws and
\* polls for ever, a call of the UI thread, a render thread.
FairSpec ==
    /\ Spec
    /\ WF_vars(GameNext \/ InCall("game"))
    /\ WF_vars(InCall("ui"))
    /\ WF_vars(\E r \in Renderers : Render(r) /\ UNCHANGED <<glfwVars, platformVars>>)

------------------------------------------------------------------------------
TypeOK ==
    /\ DOMAIN pc = Threads /\ arg \in [Threads -> Surfaces \cup {None}]
    /\ nativeWindow \in Surfaces \cup {None}
    /\ refs \in [Surfaces -> 0..4]
    /\ {surfaceDestroyed, surfaceUpdated, surfaceInUse, ownedByVulkan, isOwner,
        isRendering, isVmConnected, late, missed} \subseteq BOOLEAN
    /\ windows \in 0..MaxWindows /\ {size, dims} \subseteq 0..MaxResizes
    /\ mode \in {"undefined", "pbuffer", "surface"}
    /\ renderThread \in Renderers \cup {NoThread}
    /\ renderer \in [Renderers -> {"none", "start", "check", "lock", "asleep", "awake",
                                   "attach", "loop", "draw", "over", "crashed"}]
    /\ backend \in {"dummy", "glfw", "awt"}
    /\ {pending, screen} \subseteq Surfaces \cup {None} /\ made \in 0..MaxSurfaces

\* What the game draws on in GL keeps a reference, also in the races with
\* nativeSurfaceDestroyed: the second reference taken by
\* nativeSurfaceCreated, which nobody gives back, sees to it.
DrawnWindowIsHeld ==
    client = "gl" => /\ target \in Surfaces => refs[target] > 0
                     /\ pc["game"] \in {"manage_use", "manage_create"} /\ nativeWindow # None
                        => refs[nativeWindow] > 0

\* A surface that comes while the backend is replaced is handed to the new one
\* by either thread, which keeps a reference for good: updateSurface stores it
\* before it looks at PLATFORM, setPlatformLibrary sets PLATFORM before it
\* looks there.  Not so when the game missed a store that was still late.
InitOver == pc["game"] \notin {"off", "init", "assign", "pick", "gl_created"}
SurfaceIsHandedOver ==
    (/\ backend = "glfw" /\ InitOver /\ ~missed
     /\ screen # None /\ pc["ui"] = "idle")
        => refs[screen] > 0

\* In the AWTActivity no render thread outlives the surface it draws on, so
\* there are never two of them: each end and each beginning joins the last.
Alive(r) == renderer[r] \notin {"none", "over", "crashed"}
RendererHasScreen ==
    client = "awtActivity" => \A r \in Renderers : Alive(r) => r = <<"ui", screen>>

\* There, stopping a render thread that draws, is about to, or sleeps until
\* the VM is there ends: the join is not waited for in vain.
StopEnds ==
    (/\ client = "awtActivity" /\ pc["ui"] = "awt_stop" /\ renderThread # NoThread
     /\ renderer[renderThread] \in {"asleep", "attach", "loop", "draw"})
        ~> (pc["ui"] = "gone" \/ \E r \in Renderers : renderer[r] = "crashed")

\* The UI thread that waits in nativeSurfaceDestroyed is let go by the next
\* swap of the window that draws on the surface, unless the game closes it.
HandshakeEnds ==
    (/\ pc["ui"] = "gl_asleep" /\ pc["game"] \in {"run", "swap", "poll"}
     /\ mode = "surface" /\ isOwner /\ surfaceDestroyed)
        ~> (pc["ui"] # "gl_asleep" \/ pc["game"] = "open")

\* A new surface is drawn on in the end when the owner was on its pbuffer,
\* unless it goes away before.
NewSurfaceIsDrawn ==
    \A s \in Surfaces :
        (/\ nativeWindow = s /\ ~surfaceDestroyed /\ client = "gl"
         /\ isOwner /\ mode = "pbuffer" /\ pc["game"] = "run")
            ~> (target = s \/ surfaceDestroyed \/ pc["game"] = "open")

\* A resize that is reported while the game looks at nothing reaches the
\* window in the end, unless the surface goes away or the window is closed.
ResizeIsTaken ==
    \A n \in 1..MaxResizes :
        (/\ size = n /\ surfaceUpdated /\ client = "gl" /\ isOwner /\ mode = "surface"
         /\ pc["game"] \in {"run", "swap", "poll"})
            ~> (dims >= n \/ nativeWindow = None \/ surfaceDestroyed \/ pc["game"] = "open")
=============================================================================
