---------------------------- MODULE GlfwSurface ----------------------------
(* The surface of the GLFW backend (android_window.c, egl_context.c): the   *)
(* callbacks nativeSurfaceCreated and nativeSurfaceDestroyed of the Android *)
(* side, and the game thread, which swaps between an EGL surface on the     *)
(* native window and a pbuffer, or makes a Vulkan surface.  A critical      *)
(* section of nw_egl_mutex or nw_vulkan_mutex is one action.                *)
EXTENDS SurfaceThreads

CONSTANT MaxWindows    \* bound: windows the game opens, one after the other

ASSUME MaxWindowsAssumption == MaxWindows \in Nat \ {0}

VARIABLES
    nativeWindow,       \* the ANativeWindow in use, or None
    refs,               \* refs[s]: references held on the window of surface s
    surfaceDestroyed, surfaceUpdated, surfaceInUse, ownedByVulkan,
    windows,            \* windows opened so far
    isOwner,            \* whether surfaceOwner is the open window
    mode,               \* android.mode of the window
    want,               \* wantedMode of the running _glfwManageEglSurfaceAndroid
    size,               \* the size the windows of the view have now
    dims,               \* android.width and height: the size the game knows
    target              \* what the game draws on: a surface, Pbuffer or None

Pbuffer == MaxSurfaces + 1

callbackVars == <<nativeWindow, refs, surfaceDestroyed>>
windowVars == <<windows, isOwner, mode, want, dims, target>>
glfwVars == <<callbackVars, surfaceUpdated, surfaceInUse, ownedByVulkan, size, windowVars>>

GlfwInit ==
    /\ nativeWindow = None /\ refs = [s \in Surfaces |-> 0]
    /\ surfaceDestroyed = TRUE /\ surfaceUpdated = FALSE
    /\ surfaceInUse = FALSE /\ ownedByVulkan = FALSE
    /\ windows = 0 /\ isOwner = FALSE
    /\ mode = "undefined" /\ want = "undefined" /\ target = None
    /\ size = 0 /\ dims = 0

------------------------------------------------------------------------------
(* nativeSurfaceCreated *)

\* Without ANativeWindow_acquire.
CreatedWindow_OneReference(t) ==
    /\ pc[t] = "gl_created"
    /\ refs' = [refs EXCEPT ![arg[t]] = @ + 1]
    /\ nativeWindow' = arg[t]
    /\ Goto(t, "gl_alive")
    /\ UNCHANGED <<surfaceDestroyed, surfaceUpdated, surfaceInUse, ownedByVulkan, size, windowVars>>

\* ANativeWindow_fromSurface takes a reference, ANativeWindow_acquire another.
CreatedWindow(t) ==
    /\ pc[t] = "gl_created"
    /\ refs' = [refs EXCEPT ![arg[t]] = @ + 2]
    /\ nativeWindow' = arg[t]
    /\ Goto(t, "gl_alive")
    /\ UNCHANGED <<surfaceDestroyed, surfaceUpdated, surfaceInUse, ownedByVulkan, size, windowVars>>

CreatedAlive(t) ==
    /\ pc[t] = "gl_alive"
    /\ surfaceDestroyed' = FALSE
    /\ IF ownedByVulkan THEN Goto(t, "gl_signal") ELSE Return(t)
    /\ UNCHANGED <<nativeWindow, refs, surfaceUpdated, surfaceInUse, ownedByVulkan, size, windowVars>>

CreatedSignal(t) ==
    /\ pc[t] = "gl_signal"
    /\ Wake(t, ret[t], "game", "vk_asleep", "vk_make")
    /\ arg' = [arg EXCEPT ![t] = None] /\ ret' = [ret EXCEPT ![t] = "none"]
    /\ UNCHANGED glfwVars

------------------------------------------------------------------------------
(* nativeSurfaceDestroyed *)

DestroyedMark(t) ==
    /\ pc[t] = "gl_destroyed"
    /\ surfaceDestroyed' = TRUE
    /\ Goto(t, "gl_test")
    /\ UNCHANGED <<nativeWindow, refs, surfaceUpdated, surfaceInUse, ownedByVulkan, size, windowVars>>

DestroyedTest(t) ==
    /\ pc[t] = "gl_test"
    /\ Goto(t, IF ~ownedByVulkan /\ surfaceInUse THEN "gl_wait" ELSE "gl_release")
    /\ UNCHANGED glfwVars

DestroyedWait(t) ==
    /\ pc[t] = "gl_wait"
    /\ Goto(t, "gl_asleep")
    /\ UNCHANGED glfwVars

\* pthread_cond_wait may return without a broadcast, and is not in a loop.
SpuriousWake(t) ==
    /\ \/ pc[t] = "gl_asleep" /\ Goto(t, "gl_release")
       \/ pc[t] = "vk_asleep" /\ Goto(t, "vk_make")
    /\ UNCHANGED glfwVars

\* Of the two references one is given back.  Without a window: undefined.
DestroyedRelease(t) ==
    /\ pc[t] = "gl_release"
    /\ IF nativeWindow = None
       THEN Goto(t, "crashed") /\ UNCHANGED refs
       ELSE /\ refs' = [refs EXCEPT ![nativeWindow] = @ - 1]
            /\ Goto(t, "gl_forget")
    /\ UNCHANGED <<nativeWindow, surfaceDestroyed, surfaceUpdated, surfaceInUse,
                   ownedByVulkan, size, windowVars>>

DestroyedForget(t) ==
    /\ pc[t] = "gl_forget"
    /\ nativeWindow' = None
    /\ Return(t)
    /\ UNCHANGED <<refs, surfaceDestroyed, surfaceUpdated, surfaceInUse, ownedByVulkan,
                   size, windowVars>>

Callback(t) ==
    \/ CreatedWindow(t) \/ CreatedAlive(t) \/ CreatedSignal(t)
    \/ DestroyedMark(t) \/ DestroyedTest(t) \/ DestroyedWait(t)
    \/ DestroyedRelease(t) \/ DestroyedForget(t)

------------------------------------------------------------------------------
(* The windows of the game; surfaceOwner is never reset, so a window opened *)
(* after the first one is its owner only if it got the same address.        *)

OpenWindow(next) ==
    /\ pc["game"] = "open"
    /\ windows' = windows + 1
    /\ isOwner' \in (IF windows = 0 THEN {TRUE} ELSE BOOLEAN)
    /\ mode' = "undefined"
    /\ Enter("game", next, None, "run")
    /\ UNCHANGED <<callbackVars, surfaceUpdated, surfaceInUse, ownedByVulkan, size, want, dims, target>>

\* destroyContextEGL: the EGL surface goes, surfaceInUse stays.
CloseWindow ==
    /\ pc["game"] = "run" /\ windows < MaxWindows
    /\ target' = None
    /\ Goto("game", "open")
    /\ UNCHANGED <<callbackVars, surfaceUpdated, surfaceInUse, ownedByVulkan,
                   size, windows, isOwner, mode, want, dims>>

------------------------------------------------------------------------------
(* _glfwManageEglSurfaceAndroid, called by makeContextCurrentEGL *)

ManageChoose ==
    /\ pc["game"] = "manage"
    /\ want' = IF ~isOwner \/ surfaceDestroyed THEN "pbuffer" ELSE "surface"
    /\ IF want' = mode THEN Return("game") ELSE Goto("game", "manage_drop")
    /\ UNCHANGED <<callbackVars, surfaceUpdated, surfaceInUse, ownedByVulkan,
                   size, windows, isOwner, mode, dims, target>>

ManageDrop ==
    /\ pc["game"] = "manage_drop"
    /\ target' = None
    /\ Goto("game", IF mode = "surface" THEN "manage_signal" ELSE "manage_make")
    /\ UNCHANGED <<callbackVars, surfaceUpdated, surfaceInUse, ownedByVulkan,
                   size, windows, isOwner, mode, want, dims>>

ManageSignal ==
    /\ pc["game"] = "manage_signal"
    /\ Wake("game", "manage_unuse", "ui", "gl_asleep", "gl_release")
    /\ UNCHANGED <<arg, ret, glfwVars>>

ManageUnuse ==
    /\ pc["game"] = "manage_unuse"
    /\ surfaceInUse' = FALSE
    /\ Goto("game", "manage_make")
    /\ UNCHANGED <<callbackVars, surfaceUpdated, ownedByVulkan, size, windowVars>>

ManagePbuffer ==
    /\ pc["game"] = "manage_make" /\ want = "pbuffer"
    /\ mode' = want /\ target' = Pbuffer
    /\ Return("game")
    /\ UNCHANGED <<callbackVars, surfaceUpdated, surfaceInUse, ownedByVulkan,
                   size, windows, isOwner, want, dims>>

\* updateNativeWindowDimensions reads nativeWindow three times: it sets the
\* geometry of the buffers, which may refuse NULL, and asks the window, which
\* must be there, for width and height.  At the end it resets surfaceUpdated.
AskDimensions(l) ==
    \/ Goto("game", l)
    \/ nativeWindow = None /\ Goto("game", "crashed")

\* Between the two last reads nothing changes that shows: a window is as wide
\* as it is high here, and one that goes in between might go before.
MeasureWindow ==
    /\ pc["game"] \in {"manage_ask", "poll_ask"}
    /\ IF nativeWindow = None
       THEN Goto("game", "crashed") /\ UNCHANGED dims
       ELSE /\ Goto("game", IF pc["game"] = "manage_ask" THEN "manage_known" ELSE "poll_known")
            /\ dims' = IF isOwner THEN size ELSE dims
    /\ UNCHANGED <<callbackVars, surfaceUpdated, surfaceInUse, ownedByVulkan,
                   size, windows, isOwner, mode, want, target>>

\* The size goes to surfaceOwner; in one that was freed anything may happen.
DimensionsKnown ==
    /\ pc["game"] \in {"manage_known", "poll_known"}
    /\ surfaceUpdated' = FALSE
    /\ \/ Goto("game", IF pc["game"] = "manage_known" THEN "manage_use" ELSE "run")
       \/ ~isOwner /\ Goto("game", "crashed")
    /\ UNCHANGED <<callbackVars, surfaceInUse, ownedByVulkan, size, windowVars>>

ManageDimensions ==
    /\ pc["game"] = "manage_make" /\ want = "surface"
    /\ AskDimensions("manage_ask")
    /\ UNCHANGED glfwVars

ManageUse ==
    /\ pc["game"] = "manage_use"
    /\ surfaceInUse' = TRUE
    /\ Goto("game", "manage_create")
    /\ UNCHANGED <<callbackVars, surfaceUpdated, ownedByVulkan, size, windowVars>>

\* Without a window eglCreateWindowSurface fails: EGL_NO_SURFACE.
ManageCreate ==
    /\ pc["game"] = "manage_create"
    /\ mode' = want /\ target' = nativeWindow
    /\ Return("game")
    /\ UNCHANGED <<callbackVars, surfaceUpdated, surfaceInUse, ownedByVulkan,
                   size, windows, isOwner, want, dims>>

Manage ==
    \/ ManageChoose \/ ManageDrop \/ ManageSignal \/ ManageUnuse
    \/ ManagePbuffer \/ ManageDimensions \/ ManageUse \/ ManageCreate

------------------------------------------------------------------------------
(* swapBuffersEGL and _glfwPollEventsAndroid, over and over *)

Attention_ResizeOnly ==
    IF isOwner /\ ~ownedByVulkan
    THEN CASE mode = "undefined" -> TRUE
           [] mode = "surface" -> surfaceUpdated
           [] mode = "pbuffer" -> ~surfaceDestroyed
    ELSE mode # "pbuffer"

Attention_StayOnPbuffer ==
    IF isOwner /\ ~ownedByVulkan
    THEN CASE mode = "undefined" -> TRUE
           [] mode = "surface" -> surfaceDestroyed \/ surfaceUpdated
           [] mode = "pbuffer" -> FALSE
    ELSE mode # "pbuffer"

\* _glfwSwapBuffersAttentionEglAndroid
Attention ==
    IF isOwner /\ ~ownedByVulkan
    THEN CASE mode = "undefined" -> TRUE
           [] mode = "surface" -> surfaceDestroyed \/ surfaceUpdated
           [] mode = "pbuffer" -> ~surfaceDestroyed
    ELSE mode # "pbuffer"

SwapAttention ==
    /\ pc["game"] = "run" /\ ~ownedByVulkan
    /\ IF Attention THEN Enter("game", "manage", None, "swap") ELSE Goto("game", "swap")
    /\ UNCHANGED glfwVars

Swap ==
    /\ pc["game"] = "swap"
    /\ Goto("game", "poll")
    /\ UNCHANGED glfwVars

Poll_VulkanOnly ==
    /\ pc["game"] = "poll"
    /\ IF surfaceUpdated /\ ownedByVulkan
       THEN AskDimensions("poll_ask")
       ELSE Goto("game", "run")
    /\ UNCHANGED glfwVars

\* The mode is read from surfaceOwner: when that is not the open window it is
\* the first one, which was freed, and what is read there may be anything.
Poll ==
    /\ pc["game"] = "poll"
    /\ \E draws \in IF isOwner THEN {mode = "surface"} ELSE BOOLEAN :
          IF surfaceUpdated /\ (draws \/ ownedByVulkan)
          THEN AskDimensions("poll_ask")
          ELSE Goto("game", "run")
    /\ UNCHANGED glfwVars

------------------------------------------------------------------------------
(* _glfwCreateWindowSurfaceAndroid *)

VulkanOwn ==
    /\ pc["game"] = "vk_own"
    /\ ownedByVulkan' = TRUE
    /\ Goto("game", "vk_test")
    /\ UNCHANGED <<callbackVars, surfaceUpdated, surfaceInUse, size, windowVars>>

VulkanTest ==
    /\ pc["game"] = "vk_test"
    /\ Goto("game", IF nativeWindow = None THEN "vk_wait" ELSE "vk_make")
    /\ UNCHANGED glfwVars

VulkanWait ==
    /\ pc["game"] = "vk_wait"
    /\ Goto("game", "vk_asleep")
    /\ UNCHANGED glfwVars

\* _glfwDisablePrerotationAndroid needs a window.
VulkanMake ==
    /\ pc["game"] = "vk_make"
    /\ target' = nativeWindow
    /\ Goto("game", IF nativeWindow = None THEN "crashed" ELSE "poll")
    /\ UNCHANGED <<callbackVars, surfaceUpdated, surfaceInUse, ownedByVulkan,
                   size, windows, isOwner, mode, want, dims>>

\* The game presents, and makes its surface anew when its window is gone.
VulkanPresent ==
    /\ pc["game"] = "run" /\ ownedByVulkan
    /\ \/ Goto("game", "poll")
       \/ /\ target # nativeWindow
          /\ Goto("game", "vk_own")
    /\ UNCHANGED glfwVars

GlLoop ==
    \/ Manage \/ MeasureWindow \/ DimensionsKnown
    \/ SwapAttention \/ Swap \/ Poll
VulkanLoop == VulkanOwn \/ VulkanTest \/ VulkanWait \/ VulkanMake \/ VulkanPresent
==============================================================================
