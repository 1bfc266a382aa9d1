--------------------------- MODULE PlatformProofs ---------------------------
(* The invariants of Platform, for any number of surfaces, windows and      *)
(* resizes and for every program that runs.                                 *)
EXTENDS Platform, TLAPS

------------------------------------------------------------------------------
(* The inductive invariant.  Where the threads are:                         *)

GlCreated == {"gl_created", "gl_alive", "gl_signal"}
GlDestroyed == {"gl_destroyed", "gl_test", "gl_wait", "gl_asleep", "gl_release", "gl_forget"}
AwtStop == {"awt_stop", "awt_signal", "awt_join"}
AwtCall == {"awt_begin", "awt_create"} \cup AwtStop

ManageLabels == {"manage", "manage_drop", "manage_signal", "manage_unuse", "manage_make",
                 "manage_ask", "manage_known", "manage_use", "manage_create"}
LoopLabels == ManageLabels \cup
    {"run", "swap", "poll", "poll_ask", "poll_known", "crashed",
     "vk_own", "vk_test", "vk_wait", "vk_asleep", "vk_make"}
BeforeBackend == {"off", "connect", "connected", "init", "assign"}

\* What the game's thread does under each client, and whether it has put
\* its backend in place.
BackendInv ==
    /\ client \in {"gl", "vulkan", "awt", "awtActivity"}
    /\ client = "awtActivity" =>
          backend = "awt" /\ pc["game"] \in {"off", "connect", "connected", "ended"}
    /\ client = "awt" =>
          \/ backend = "dummy" /\ pc["game"] \in BeforeBackend
          \/ backend = "awt" /\ pc["game"] \in {"pick", "ended"} \cup AwtCall
    /\ client \in {"gl", "vulkan"} =>
          \/ backend = "dummy" /\ pc["game"] \in {"off", "init", "assign"}
          \/ backend = "glfw" /\ pc["game"] \in {"pick", "open"} \cup GlCreated \cup LoopLabels

\* The UI thread is in a call of the backend in force, with a surface on the
\* screen.
UiInv ==
    /\ screen \in {None, made}
    /\ late => /\ screen # None /\ client # "awtActivity"
               /\ pc["ui"] \notin {"gone"} \cup GlDestroyed
               /\ pc["ui"] \in AwtStop => arg["ui"] # None
    /\ pending = CASE client = "awtActivity" -> None
                   [] late -> made - 1
                   [] OTHER -> made
    /\ pc["ui"] \in {"idle", "deliver", "gone", "crashed"}
          \cup (IF backend = "glfw" THEN GlCreated \cup GlDestroyed ELSE {})
          \cup (IF backend = "awt" THEN AwtCall ELSE {})
    /\ pc["ui"] # "idle" => screen # None
    /\ pc["ui"] \in GlCreated \cup {"awt_begin", "awt_create"} =>
          arg["ui"] = screen /\ ret["ui"] = "idle"
    /\ pc["ui"] \in GlDestroyed => arg["ui"] = None /\ ret["ui"] = "gone"
    /\ pc["ui"] \in AwtStop =>
          \/ arg["ui"] = screen /\ ret["ui"] = "idle"
          \/ arg["ui"] = None /\ ret["ui"] = "gone"

\* The game is in a call of a backend with a surface only, and goes on where
\* its caller left.
GameInv ==
    /\ pc["game"] \in GlCreated \cup AwtCall =>
          arg["game"] # None /\ ret["game"] = AfterInit
    /\ pc["game"] \notin GlCreated \cup AwtCall => arg["game"] = None
    /\ pc["game"] \in ManageLabels => ret["game"] \in {"run", "swap"}
    /\ pc["game"] \in BeforeBackend \cup {"pick"} \cup GlCreated => windows = 0
    /\ pc["game"] = "open" => windows < MaxWindows

------------------------------------------------------------------------------
(* The references on the windows *)

UiHasDelivered(s) == s < made \/ (s = made /\ pc["ui"] \notin {"deliver", "gl_created"})
GameHasDelivered == pc["game"] \notin {"pick", "gl_created"} \cup BeforeBackend

\* Each thread hands over a surface once, for two references.  The window in
\* use holds both, but for the moment between the release and the
\* assignment of NULL; a window that was ever in use keeps one.
RefsInv ==
    /\ \A s \in Surfaces :
          refs[s] <= (IF UiHasDelivered(s) THEN 2 ELSE 0) + (IF GameHasDelivered THEN 2 ELSE 0)
    /\ nativeWindow # None =>
          refs[nativeWindow] >= IF pc["ui"] = "gl_forget" THEN 1 ELSE 2
    /\ target \in Surfaces => refs[target] >= 1

\* The surface on the screen has been handed over once the UI thread has
\* delivered it, unless the game still has to do it.
Delivered == {"idle", "gl_alive", "gl_signal"}
KeptInv ==
    (backend = "glfw" /\ screen # None /\ pc["ui"] \in Delivered /\ ~missed)
        => \/ refs[screen] > 0
           \/ pc["game"] = "pick"
           \/ pc["game"] = "gl_created" /\ arg["game"] = screen

------------------------------------------------------------------------------
(* The render threads of the AWTActivity *)

RenderInv ==
    client = "awtActivity" =>
        /\ \A r \in Renderers : Alive(r) => r = renderThread
        /\ renderThread # NoThread =>
              renderThread = <<"ui", screen>> /\ pc["ui"] \in {"idle"} \cup AwtStop
        /\ pc["ui"] \in AwtStop => arg["ui"] = None
        /\ renderThread # NoThread /\ pc["ui"] = "idle" => screen # None

IInv ==
    /\ TypeOK
    /\ DOMAIN ret = Threads
    /\ want \in {"undefined", "pbuffer", "surface"}
    /\ BackendInv /\ UiInv /\ GameInv /\ RefsInv /\ KeptInv /\ RenderInv

LEMMA Initially == Init => IInv
  <1> SUFFICES ASSUME Init PROVE IInv
    OBVIOUS
  <1> USE DEF Init, GlfwInit, AwtInit
  <1>1. "ui" \in Threads /\ "game" \in Threads
    BY DEF Threads
  <1>2. pc["ui"] = "idle" /\ pc["game"] = "off"
    BY <1>1
  <1>3. TypeOK
    <2>1. DOMAIN pc = Threads /\ arg \in [Threads -> Surfaces \cup {None}]
      OBVIOUS
    <2>2. refs \in [Surfaces -> 0..4]
      OBVIOUS
    <2>3. windows \in 0..MaxWindows /\ {size, dims} \subseteq 0..MaxResizes
      BY MaxWindowsAssumption, PlatformAssumption
    <2>4. made \in 0..MaxSurfaces
      BY MaxSurfacesAssumption
    <2> QED BY <2>1, <2>2, <2>3, <2>4, Zenon DEF TypeOK
  <1>4. DOMAIN ret = Threads
    OBVIOUS
  <1>5. BackendInv
    BY <1>2, PlatformAssumption DEF BackendInv, BeforeBackend
  <1>6. UiInv
    BY <1>2 DEF UiInv, None, GlCreated, GlDestroyed, AwtStop, AwtCall
  <1>7. GameInv
    BY <1>1, <1>2 DEF GameInv, None, GlCreated, AwtStop, AwtCall, ManageLabels
  <1>8. RefsInv
    BY <1>2 DEF RefsInv, None, Surfaces, UiHasDelivered, GameHasDelivered, BeforeBackend
  <1>9. KeptInv
    BY DEF KeptInv
  <1>10. RenderInv
    <2>1. \A r \in Renderers : ~Alive(r)
      BY DEF Alive
    <2> QED BY <1>2, <2>1 DEF RenderInv, AwtStop
  <1> QED BY <1>3, <1>4, <1>5, <1>6, <1>7, <1>8, <1>9, <1>10 DEF IInv

------------------------------------------------------------------------------
(* The loop of the game: what all its actions have in common *)

\* A step of the game that leaves the surface, the view and the render
\* threads alone, and may wake the UI thread.
LoopStep ==
    /\ pc["game"] \in LoopLabels \cup {"open"}
    /\ DOMAIN pc' = Threads /\ pc'["game"] \in LoopLabels \cup {"open"}
    /\ pc'["ui"] = pc["ui"] \/ (pc["ui"] = "gl_asleep" /\ pc'["ui"] = "gl_release")
    /\ arg' = arg /\ DOMAIN ret' = Threads /\ ret'["ui"] = ret["ui"]
    /\ pc'["game"] \in ManageLabels => ret'["game"] \in {"run", "swap"}
    /\ windows' \in 0..MaxWindows /\ (pc'["game"] = "open" => windows' < MaxWindows)
    /\ {surfaceUpdated', surfaceInUse', ownedByVulkan', isOwner'} \subseteq BOOLEAN
    /\ dims' \in 0..MaxResizes
    /\ {mode', want'} \subseteq {"undefined", "pbuffer", "surface"}
    /\ target' \in {target, nativeWindow, None, Pbuffer}
    /\ UNCHANGED <<callbackVars, size, awtVars, platformVars>>

LEMMA LoopStepInv == ASSUME IInv, LoopStep PROVE IInv'
  <1> USE DEF LoopStep, callbackVars, awtVars, platformVars, viewVars
  <1>0. LoopLabels \cap (GlCreated \cup AwtCall \cup BeforeBackend \cup {"pick", "ended"}) = {}
    BY DEF LoopLabels, ManageLabels, GlCreated, AwtStop, AwtCall, BeforeBackend
  <1>1. TypeOK'
    BY DEF IInv, TypeOK
  <1>2. BackendInv'
    BY <1>0 DEF IInv, BackendInv, BeforeBackend, AwtStop, AwtCall, GlCreated
  <1>3. UiInv'
    BY DEF IInv, UiInv, GlDestroyed, GlCreated, AwtStop, AwtCall
  <1>4. GameInv'
    BY <1>0 DEF IInv, GameInv, GlCreated, AwtStop, AwtCall, BeforeBackend, AfterInit
  <1>5. RefsInv'
    <2>1. \A s \in Surfaces : UiHasDelivered(s)' = UiHasDelivered(s)
      BY DEF UiHasDelivered
    <2>2. GameHasDelivered' = GameHasDelivered
      BY <1>0 DEF GameHasDelivered, BeforeBackend, GlCreated
    <2>3. None \notin Surfaces /\ Pbuffer \notin Surfaces
      BY MaxSurfacesAssumption DEF None, Surfaces, Pbuffer
    <2> QED BY <2>1, <2>2, <2>3 DEF IInv, RefsInv, TypeOK
  <1>6. KeptInv'
    BY <1>0 DEF IInv, KeptInv, GlCreated, Delivered
  <1>7. RenderInv'
    BY DEF IInv, RenderInv, Alive, AwtStop
  <1> QED BY <1>1, <1>2, <1>3, <1>4, <1>5, <1>6, <1>7 DEF IInv

LEMMA NoArgument ==
    ASSUME arg \in [Threads -> Surfaces \cup {None}], arg["game"] = None
    PROVE  [arg EXCEPT !["game"] = None] = arg
  BY DEF Threads

\* What the invariant says while the game is in its loop.
LoopFacts ==
    /\ DOMAIN pc = Threads /\ DOMAIN ret = Threads
    /\ arg \in [Threads -> Surfaces \cup {None}] /\ arg["game"] = None
    /\ pc["game"] \in ManageLabels => ret["game"] \in {"run", "swap"}
    /\ windows \in 0..MaxWindows /\ (pc["game"] = "open" => windows < MaxWindows)
    /\ {surfaceUpdated, surfaceInUse, ownedByVulkan, isOwner} \subseteq BOOLEAN
    /\ dims \in 0..MaxResizes /\ size \in 0..MaxResizes
    /\ {mode, want} \subseteq {"undefined", "pbuffer", "surface"}

LEMMA InLoop == ASSUME IInv, pc["game"] \in LoopLabels \cup {"open"} PROVE LoopFacts
  BY DEF IInv, TypeOK, GameInv, LoopLabels, ManageLabels, GlCreated, AwtStop, AwtCall, LoopFacts

LEMMA ManageStep == ASSUME IInv, Manage, UNCHANGED <<awtVars, platformVars>> PROVE LoopStep
  <1>0. pc["game"] \in ManageLabels
    BY DEF Manage, ManageChoose, ManageDrop, ManageSignal, ManageUnuse, ManagePbuffer,
           ManageDimensions, ManageUse, ManageCreate, ManageLabels
  <1>1. ManageLabels \subseteq LoopLabels /\ {"run", "swap", "crashed"} \subseteq LoopLabels
    BY DEF LoopLabels
  <1>2. /\ {"manage_drop", "manage_signal", "manage_unuse", "manage_make", "manage_ask",
            "manage_known", "manage_create"} \subseteq ManageLabels
        /\ {"run", "swap", "open", "crashed"} \cap ManageLabels = {}
    BY DEF ManageLabels
  <1>3. LoopFacts
    BY <1>0, <1>1, InLoop
  <1>13. [arg EXCEPT !["game"] = None] = arg
    BY <1>3, NoArgument DEF LoopFacts
  <1> USE <1>0, <1>1, <1>2, <1>3, <1>13
  <1> USE DEF LoopStep, LoopFacts, callbackVars, windowVars, glfwVars, Goto, Return, Threads
  <1>4. CASE ManageChoose
    BY <1>4 DEF ManageChoose
  <1>5. CASE ManageDrop
    BY <1>5 DEF ManageDrop
  <1>6. CASE ManageSignal
    BY <1>6 DEF ManageSignal, Wake
  <1>7. CASE ManageUnuse
    BY <1>7 DEF ManageUnuse
  <1>8. CASE ManagePbuffer
    BY <1>8 DEF ManagePbuffer
  <1>9. CASE ManageDimensions
    BY <1>9 DEF ManageDimensions, AskDimensions
  <1>10. CASE ManageUse
    BY <1>10 DEF ManageUse
  <1>11. CASE ManageCreate
    BY <1>11 DEF ManageCreate
  <1> QED BY <1>4, <1>5, <1>6, <1>7, <1>8, <1>9, <1>10, <1>11 DEF Manage

LEMMA DrawStep ==
    ASSUME IInv, GlLoop \/ VulkanLoop, ~Manage, UNCHANGED <<awtVars, platformVars>>
    PROVE  LoopStep
  <1>0. pc["game"] \in {"manage_ask", "poll_ask", "manage_known", "poll_known", "run", "swap",
                        "poll", "vk_own", "vk_test", "vk_wait", "vk_make"}
    BY DEF GlLoop, MeasureWindow, DimensionsKnown, SwapAttention, Swap, Poll,
           VulkanLoop, VulkanOwn, VulkanTest, VulkanWait, VulkanMake, VulkanPresent
  <1>1. {"run", "swap", "poll", "poll_ask", "poll_known", "crashed", "vk_own", "vk_test",
         "vk_wait", "vk_asleep", "vk_make", "manage", "manage_ask", "manage_known",
         "manage_use"} \subseteq LoopLabels
    BY DEF LoopLabels, ManageLabels
  <1>2. /\ {"run", "swap", "poll", "poll_ask", "poll_known", "crashed", "vk_own", "vk_test",
             "vk_wait", "vk_asleep", "vk_make", "open"} \cap ManageLabels = {}
        /\ {"manage_ask", "manage_known"} \subseteq ManageLabels
    BY DEF ManageLabels
  <1>3. LoopFacts
    BY <1>0, <1>1, InLoop
  <1>13. [arg EXCEPT !["game"] = None] = arg
    BY <1>3, NoArgument DEF LoopFacts
  <1> USE <1>0, <1>1, <1>2, <1>3, <1>13
  <1> USE DEF LoopStep, LoopFacts, callbackVars, windowVars, glfwVars, Goto, Enter, Threads
  <1>4. CASE DimensionsKnown
    BY <1>4 DEF DimensionsKnown
  <1>5. CASE SwapAttention
    BY <1>5 DEF SwapAttention
  <1>6. CASE Swap
    BY <1>6 DEF Swap
  <1>7. CASE Poll
    BY <1>7 DEF Poll, AskDimensions
  <1>8. CASE VulkanOwn
    BY <1>8 DEF VulkanOwn
  <1>9. CASE VulkanTest
    BY <1>9 DEF VulkanTest
  <1>10. CASE VulkanWait
    BY <1>10 DEF VulkanWait
  <1>11. CASE VulkanMake
    BY <1>11 DEF VulkanMake
  <1>12. CASE VulkanPresent
    BY <1>12 DEF VulkanPresent
  <1>14. CASE MeasureWindow
    BY <1>14 DEF MeasureWindow
  <1> QED BY <1>4, <1>5, <1>6, <1>7, <1>8, <1>9, <1>10, <1>11, <1>12, <1>14
          DEF GlLoop, VulkanLoop

LEMMA WindowStep ==
    ASSUME IInv, OpenWindow(AfterOpen) \/ CloseWindow, UNCHANGED <<awtVars, platformVars>>
    PROVE  LoopStep
  <1>0. pc["game"] \in {"open", "run"}
    BY DEF OpenWindow, CloseWindow
  <1>1. {"run", "vk_own", "manage"} \subseteq LoopLabels
    BY DEF LoopLabels, ManageLabels
  <1>2. {"run", "vk_own", "open"} \cap ManageLabels = {} /\ AfterOpen \in {"vk_own", "manage"}
    BY DEF ManageLabels, AfterOpen
  <1>3. LoopFacts
    BY <1>0, <1>1, InLoop
  <1>13. [arg EXCEPT !["game"] = None] = arg
    BY <1>3, NoArgument DEF LoopFacts
  <1> USE <1>0, <1>1, <1>2, <1>3, <1>13, MaxWindowsAssumption
  <1> USE DEF LoopStep, LoopFacts, callbackVars, windowVars, glfwVars, Goto, Enter, Threads
  <1>4. CASE OpenWindow(AfterOpen)
    <2>1. windows' \in 0..MaxWindows
      BY <1>4 DEF OpenWindow
    <2>2. isOwner' \in BOOLEAN
      BY <1>4 DEF OpenWindow
    <2> QED BY <1>4, <2>1, <2>2 DEF OpenWindow
  <1>5. CASE CloseWindow
    BY <1>5 DEF CloseWindow
  <1> QED BY <1>4, <1>5

------------------------------------------------------------------------------
(* The render threads *)

\* A step that only moves render threads on and starts none.
RenderStep ==
    /\ renderer' \in [Renderers -> {"none", "start", "check", "lock", "asleep", "awake",
                                    "attach", "loop", "draw", "over", "crashed"}]
    /\ \A r \in Renderers : Alive(r)' => Alive(r)
    /\ isRendering' \in BOOLEAN
    /\ UNCHANGED <<threadVars, glfwVars, isVmConnected, renderThread, platformVars>>

LEMMA RenderStepInv == ASSUME IInv, RenderStep PROVE IInv'
  <1> USE DEF RenderStep, threadVars, glfwVars, callbackVars, windowVars, platformVars, viewVars
  <1>1. TypeOK'
    BY DEF IInv, TypeOK
  <1>2. BackendInv' /\ UiInv' /\ GameInv' /\ KeptInv'
    BY DEF IInv, BackendInv, UiInv, GameInv, KeptInv, AfterInit
  <1>3. RefsInv'
    BY DEF IInv, RefsInv, UiHasDelivered, GameHasDelivered
  <1>4. RenderInv'
    BY DEF IInv, RenderInv
  <1> QED BY <1>1, <1>2, <1>3, <1>4 DEF IInv

LEMMA RenderMoves ==
    ASSUME IInv, NEW r \in Renderers, Render(r) \/ RenderSpurious(r),
           UNCHANGED <<glfwVars, platformVars>>
    PROVE  RenderStep
  <1> USE DEF IInv, TypeOK, RenderStep, Alive
  <1>1. CASE RenderStart(r)
    BY <1>1 DEF RenderStart
  <1>2. CASE RenderCheckVm(r)
    BY <1>2 DEF RenderCheckVm
  <1>3. CASE RenderWait(r)
    BY <1>3 DEF RenderWait
  <1>4. CASE RenderWoken(r)
    BY <1>4 DEF RenderWoken
  <1>5. CASE RenderAttach(r)
    BY <1>5 DEF RenderAttach
  <1>6. CASE RenderLook(r)
    BY <1>6 DEF RenderLook
  <1>7. CASE RenderFrame(r)
    BY <1>7 DEF RenderFrame
  <1>8. CASE RenderSpurious(r)
    BY <1>8 DEF RenderSpurious
  <1> QED BY <1>1, <1>2, <1>3, <1>4, <1>5, <1>6, <1>7, <1>8 DEF Render

------------------------------------------------------------------------------
(* The UI thread: what its steps inside a callback have in common *)

AwtTypes ==
    /\ isRendering \in BOOLEAN
    /\ renderThread \in Renderers \cup {NoThread}
    /\ renderer \in [Renderers -> {"none", "start", "check", "lock", "asleep", "awake",
                                   "attach", "loop", "draw", "over", "crashed"}]

UiStep ==
    /\ DOMAIN pc' = Threads /\ DOMAIN ret' = Threads
    /\ arg' \in [Threads -> Surfaces \cup {None}]
    /\ pc'["game"] = pc["game"] \/ (pc["game"] = "vk_asleep" /\ pc'["game"] = "vk_make")
    /\ arg'["game"] = arg["game"] /\ ret'["game"] = ret["game"]
    /\ pc'["ui"] \in {"deliver", "gl_created"} => pc["ui"] \in {"deliver", "gl_created"}
    /\ pc["ui"] # "gl_forget" /\ pc'["ui"] # "gl_forget"
    /\ backend = "glfw" /\ pc'["ui"] \in Delivered => pc["ui"] \in Delivered
    /\ surfaceDestroyed' \in BOOLEAN
    /\ UNCHANGED <<nativeWindow, refs, surfaceUpdated, surfaceInUse, ownedByVulkan, size,
                   windowVars, isVmConnected, platformVars>>
    /\ AwtTypes' /\ UiInv' /\ RenderInv'

LEMMA UiStepInv == ASSUME IInv, UiStep PROVE IInv'
  <1> USE DEF UiStep, windowVars, platformVars, viewVars
  <1>1. TypeOK'
    BY DEF IInv, TypeOK, AwtTypes
  <1>2. BackendInv'
    BY DEF IInv, BackendInv, BeforeBackend, GlCreated, AwtStop, AwtCall, LoopLabels
  <1>3. GameInv'
    BY DEF IInv, GameInv, BeforeBackend, GlCreated, AwtStop, AwtCall, ManageLabels, AfterInit
  <1>4. RefsInv'
    <2>1. \A s \in Surfaces : UiHasDelivered(s) => UiHasDelivered(s)'
      BY DEF UiHasDelivered
    <2>2. GameHasDelivered' = GameHasDelivered
      BY DEF GameHasDelivered, BeforeBackend
    <2>3. \A s \in Surfaces : refs[s] \in Nat
      BY DEF IInv, TypeOK
    <2> QED BY <2>1, <2>2, <2>3 DEF IInv, RefsInv
  <1>5. KeptInv'
    BY DEF IInv, KeptInv, Delivered
  <1> QED BY <1>1, <1>2, <1>3, <1>4, <1>5 DEF IInv

\* What the invariant says of the UI thread.
UiFacts ==
    /\ DOMAIN pc = Threads /\ DOMAIN ret = Threads
    /\ arg \in [Threads -> Surfaces \cup {None}]
    /\ screen \in Surfaces \cup {None} /\ surfaceDestroyed \in BOOLEAN
    /\ backend \in {"dummy", "glfw", "awt"}
    /\ client = "awtActivity" => backend = "awt"
    /\ AwtTypes /\ UiInv /\ RenderInv

LEMMA InUi == IInv => UiFacts
  BY DEF IInv, TypeOK, BackendInv, UiFacts, AwtTypes

LEMMA ViewStep ==
    ASSUME IInv, ViewDestroyed \/ Deliver
    PROVE  UiStep
  <1>1. UiFacts
    BY InUi
  <1> USE <1>1 DEF UiFacts, UiStep, glfwVars, callbackVars, windowVars, awtVars, platformVars, viewVars,
                   Threads
  <1>2. pc["ui"] \in {"idle", "deliver"} /\ screen # None
    BY DEF ViewDestroyed, Deliver, UiInv
  <1>3. DOMAIN pc' = Threads /\ DOMAIN ret' = Threads /\ arg' \in [Threads -> Surfaces \cup {None}]
    BY DEF ViewDestroyed, Deliver, SurfaceCreated, SurfaceDestroyed, Enter, Goto
  <1>4. pc'["game"] = pc["game"] /\ arg'["game"] = arg["game"] /\ ret'["game"] = ret["game"]
    BY DEF ViewDestroyed, Deliver, SurfaceCreated, SurfaceDestroyed, Enter, Goto
  <1>5. UNCHANGED <<glfwVars, awtVars, platformVars>>
    BY DEF ViewDestroyed, Deliver
  <1>6. CASE ViewDestroyed
    <2>1. \/ backend = "glfw" /\ pc'["ui"] = "gl_destroyed" /\ arg'["ui"] = None /\ ret'["ui"] = "gone"
          \/ backend = "awt" /\ pc'["ui"] = "awt_stop" /\ arg'["ui"] = None /\ ret'["ui"] = "gone"
          \/ backend = "dummy" /\ pc'["ui"] = "gone"
      BY <1>6 DEF ViewDestroyed, SurfaceDestroyed, Enter, Goto
    <2>2. UiInv'
      BY <1>2, <1>5, <1>6, <2>1 DEF ViewDestroyed, UiInv, GlCreated, GlDestroyed, AwtStop, AwtCall
    <2>3. RenderInv'
      BY <1>2, <1>5, <1>6, <2>1 DEF ViewDestroyed, RenderInv, Alive, AwtStop
    <2> QED BY <1>3, <1>4, <1>5, <1>6, <2>1, <2>2, <2>3 DEF ViewDestroyed, Delivered, AwtTypes
  <1>7. CASE Deliver
    <2>1. \/ backend = "glfw" /\ pc'["ui"] = "gl_created" /\ arg'["ui"] = screen /\ ret'["ui"] = "idle"
          \/ backend = "awt" /\ pc'["ui"] = "awt_begin" /\ arg'["ui"] = screen /\ ret'["ui"] = "idle"
          \/ backend = "dummy" /\ pc'["ui"] = "idle"
      BY <1>7 DEF Deliver, SurfaceCreated, Enter, Goto
    <2>2. UiInv'
      BY <1>2, <1>5, <2>1 DEF UiInv, GlCreated, GlDestroyed, AwtStop, AwtCall
    <2>3. RenderInv'
      BY <1>2, <1>5, <1>7, <2>1 DEF Deliver, RenderInv, Alive, AwtStop
    <2> QED BY <1>3, <1>4, <1>5, <1>7, <2>1, <2>2, <2>3 DEF Deliver, Delivered, AwtTypes
  <1> QED BY <1>6, <1>7

LEMMA UiCallbackStep ==
    ASSUME IInv, UNCHANGED <<awtVars, platformVars>>,
           \/ CreatedAlive("ui") \/ CreatedSignal("ui")
           \/ DestroyedMark("ui") \/ DestroyedTest("ui") \/ DestroyedWait("ui")
           \/ pc["ui"] = "gl_asleep" /\ Goto("ui", "gl_release") /\ UNCHANGED glfwVars
    PROVE  UiStep
  <1>1. UiFacts
    BY InUi
  <1>2. /\ pc["ui"] \in {"gl_alive", "gl_signal"} => arg["ui"] = screen /\ ret["ui"] = "idle"
        /\ pc["ui"] \in {"gl_destroyed", "gl_test", "gl_wait", "gl_asleep"} =>
              arg["ui"] = None /\ ret["ui"] = "gone"
    BY <1>1 DEF UiFacts, UiInv, GlCreated, GlDestroyed
  <1>3. /\ pc["ui"] \in {"gl_alive", "gl_signal", "gl_destroyed", "gl_test", "gl_wait", "gl_asleep"}
        /\ backend = "glfw" /\ screen # None
    BY <1>1 DEF UiFacts, UiInv, AwtCall, AwtStop, CreatedAlive, CreatedSignal,
           DestroyedMark, DestroyedTest, DestroyedWait
  <1> USE <1>1, <1>2, <1>3
  <1> USE DEF UiFacts, UiStep, glfwVars, callbackVars, windowVars, awtVars, platformVars, viewVars,
              Threads, Goto, Return
  <1> DEFINE Moved ==
        /\ DOMAIN pc' = Threads /\ DOMAIN ret' = Threads
        /\ arg' \in [Threads -> Surfaces \cup {None}]
        /\ pc'["game"] = pc["game"] \/ (pc["game"] = "vk_asleep" /\ pc'["game"] = "vk_make")
        /\ arg'["game"] = arg["game"] /\ ret'["game"] = ret["game"]
        /\ surfaceDestroyed' \in BOOLEAN
        /\ \/ /\ pc["ui"] \in {"gl_alive", "gl_signal"}
              /\ \/ pc'["ui"] = "gl_signal" /\ arg'["ui"] = screen /\ ret'["ui"] = "idle"
                 \/ pc'["ui"] = "idle"
           \/ /\ pc["ui"] \in {"gl_destroyed", "gl_test", "gl_wait", "gl_asleep"}
              /\ pc'["ui"] \in {"gl_test", "gl_wait", "gl_asleep", "gl_release"}
              /\ arg'["ui"] = None /\ ret'["ui"] = "gone"
  <1>4. Moved
    <2>1. CASE CreatedAlive("ui")
      BY <2>1 DEF CreatedAlive
    <2>2. CASE CreatedSignal("ui")
      BY <2>2 DEF CreatedSignal, Wake, None
    <2>3. CASE DestroyedMark("ui")
      BY <2>3 DEF DestroyedMark
    <2>4. CASE DestroyedTest("ui")
      BY <2>4 DEF DestroyedTest
    <2>5. CASE DestroyedWait("ui")
      BY <2>5 DEF DestroyedWait
    <2>6. CASE pc["ui"] = "gl_asleep" /\ Goto("ui", "gl_release") /\ UNCHANGED glfwVars
      BY <2>6
    <2> QED BY <2>1, <2>2, <2>3, <2>4, <2>5, <2>6
  <1>5. UNCHANGED <<nativeWindow, refs, surfaceUpdated, surfaceInUse, ownedByVulkan, size,
                    windowVars, awtVars, platformVars>>
    BY DEF CreatedAlive, CreatedSignal, DestroyedMark, DestroyedTest, DestroyedWait
  <1>6. UiInv'
    BY <1>4, <1>5 DEF UiInv, GlCreated, GlDestroyed, AwtStop, AwtCall
  <1>7. RenderInv'
    BY <1>5 DEF RenderInv
  <1> QED BY <1>4, <1>5, <1>6, <1>7 DEF AwtTypes, Delivered

LEMMA UiAwtStep ==
    ASSUME IInv, RenderCall("ui"), UNCHANGED <<glfwVars, platformVars>>
    PROVE  UiStep
  <1>1. UiFacts
    BY InUi
  <1>0. pc["ui"] \in AwtCall
    BY DEF RenderCall, Begin, Stop, StopSignal, Join, CreateThread, AwtCall, AwtStop
  <1>2. /\ pc["ui"] \in AwtCall /\ backend = "awt" /\ screen # None
        /\ pc["ui"] \in {"awt_begin", "awt_create"} => arg["ui"] = screen /\ ret["ui"] = "idle"
        /\ pc["ui"] \in AwtStop => \/ arg["ui"] = screen /\ ret["ui"] = "idle"
                                   \/ arg["ui"] = None /\ ret["ui"] = "gone"
    BY <1>0, <1>1 DEF UiFacts, UiInv, AwtCall, AwtStop, GlCreated, GlDestroyed
  <1> USE <1>1, <1>2
  <1> USE DEF UiFacts, UiStep, glfwVars, callbackVars, windowVars, platformVars, viewVars, Threads, Goto,
              Return
  <1> DEFINE Moved ==
        /\ DOMAIN pc' = Threads /\ DOMAIN ret' = Threads
        /\ arg' \in [Threads -> Surfaces \cup {None}]
        /\ pc'["game"] = pc["game"] /\ arg'["game"] = arg["game"] /\ ret'["game"] = ret["game"]
        /\ \/ pc'["ui"] \in AwtCall /\ arg'["ui"] = arg["ui"] /\ ret'["ui"] = ret["ui"]
           \/ pc'["ui"] = ret["ui"] /\ arg'["ui"] = None
        /\ isVmConnected' = isVmConnected
        /\ AwtTypes' /\ UiInv' /\ RenderInv'
  <1>3. Moved
    <2>1. CASE Begin("ui")
      <3>1. /\ pc["ui"] = "awt_begin" /\ pc'["ui"] \in {"awt_stop", "awt_create"}
            /\ arg' = arg /\ ret' = ret /\ UNCHANGED awtVars
            /\ pc'["ui"] = "awt_stop" => renderThread # NoThread
        BY <2>1 DEF Begin
      <3>2. UiInv'
        BY <3>1 DEF UiInv, GlCreated, GlDestroyed, AwtStop, AwtCall
      <3>3. RenderInv'
        BY <3>1 DEF RenderInv, Alive, AwtStop, awtVars
      <3> QED BY <2>1, <3>1, <3>2, <3>3 DEF Begin, AwtCall, AwtStop, AwtTypes, awtVars
    <2>2. CASE Stop("ui")
      <3>1. /\ pc["ui"] = "awt_stop" /\ pc'["ui"] = "awt_signal" /\ arg' = arg /\ ret' = ret
        BY <2>2 DEF Stop
      <3>2. UiInv'
        BY <3>1 DEF UiInv, GlCreated, GlDestroyed, AwtStop, AwtCall
      <3>3. RenderInv'
        BY <2>2, <3>1 DEF Stop, RenderInv, Alive, AwtStop
      <3> QED BY <2>2, <3>1, <3>2, <3>3 DEF Stop, AwtCall, AwtStop, AwtTypes
    <2>3. CASE StopSignal("ui")
      <3>1. /\ pc["ui"] = "awt_signal" /\ pc'["ui"] = "awt_join" /\ arg' = arg /\ ret' = ret
        BY <2>3 DEF StopSignal
      <3>2. UiInv'
        BY <3>1 DEF UiInv, GlCreated, GlDestroyed, AwtStop, AwtCall
      <3>3. /\ AwtTypes'
            /\ \A r \in Renderers : Alive(r)' => Alive(r)
        BY <2>3 DEF StopSignal, Awaken, Alive, AwtTypes
      <3>4. RenderInv'
        BY <2>3, <3>1, <3>3 DEF StopSignal, RenderInv, AwtStop
      <3> QED BY <2>3, <3>1, <3>2, <3>3, <3>4 DEF StopSignal, AwtCall, AwtStop
    <2>4. CASE Join("ui")
      <3>1. /\ pc["ui"] = "awt_join" /\ renderThread' = NoThread /\ renderer' = renderer
            /\ isRendering' = isRendering /\ isVmConnected' = isVmConnected
            /\ renderThread # NoThread => renderer[renderThread] = "over"
            /\ \/ arg["ui"] = None /\ pc'["ui"] = "gone"
               \/ arg["ui"] = screen /\ pc'["ui"] = "awt_create" /\ arg' = arg /\ ret' = ret
        BY <2>4 DEF Join, AwtStop
      <3>2. UiInv'
        BY <3>1 DEF UiInv, GlCreated, GlDestroyed, AwtStop, AwtCall
      <3>3. RenderInv'
        <4> SUFFICES ASSUME client = "awtActivity" PROVE RenderInv'
          BY DEF RenderInv
        <4>0. \A r \in Renderers : Alive(r) => r = renderThread
          BY DEF RenderInv
        <4>1. \A r \in Renderers : ~Alive(r)
          BY <3>1, <4>0 DEF Alive, Renderers, NoThread
        <4>2. \A r \in Renderers : ~Alive(r)'
          BY <3>1, <4>1 DEF Alive
        <4> QED BY <3>1, <4>2 DEF RenderInv, AwtStop
      <3> QED BY <2>4, <3>1, <3>2, <3>3 DEF Join, AwtCall, AwtStop, AwtTypes
    <2>5. CASE CreateThread("ui")
      <3>1. /\ pc["ui"] = "awt_create" /\ renderThread' = <<"ui", screen>> /\ pc'["ui"] = "idle"
            /\ renderer' = [renderer EXCEPT ![renderThread'] = "start"]
            /\ isRendering' = isRendering /\ isVmConnected' = isVmConnected
        BY <2>5 DEF CreateThread
      <3>2. UiInv'
        BY <3>1 DEF UiInv, GlCreated, GlDestroyed, AwtStop, AwtCall
      <3>3. renderThread' \in Renderers
        BY <3>1 DEF Renderers
      <3>4. AwtTypes'
        BY <3>1, <3>3 DEF AwtTypes
      <3>5. RenderInv'
        <4> SUFFICES ASSUME client = "awtActivity" PROVE RenderInv'
          BY DEF RenderInv
        <4>1. \A r \in Renderers : ~Alive(r)
          BY <3>1 DEF RenderInv, AwtStop, Renderers, NoThread
        <4>2. \A r \in Renderers : Alive(r)' => r = renderThread'
          BY <3>1, <3>3, <4>1 DEF Alive, AwtTypes
        <4> QED BY <3>1, <4>2 DEF RenderInv, AwtStop
      <3> QED BY <2>5, <3>1, <3>2, <3>4, <3>5 DEF CreateThread
    <2> QED BY <2>1, <2>2, <2>3, <2>4, <2>5 DEF RenderCall
  <1>4. pc'["ui"] \notin {"deliver", "gl_created", "gl_forget"} /\ pc["ui"] # "gl_forget"
    BY <1>3 DEF AwtCall, AwtStop
  <1> QED BY <1>3, <1>4

------------------------------------------------------------------------------
(* The view and its surfaces *)

LEMMA ViewCreatedInv == ASSUME IInv, ViewCreated PROVE IInv'
  <1> USE DEF ViewCreated, Goto, glfwVars, callbackVars, windowVars, awtVars
  <1>1. /\ DOMAIN pc' = Threads /\ pc["ui"] = "idle" /\ pc'["ui"] = "deliver"
        /\ pc'["game"] = pc["game"] /\ arg' = arg /\ ret' = ret
    BY DEF IInv, TypeOK, Threads
  <1>2. /\ made \in Nat /\ made' = made + 1 /\ screen' = made' /\ screen = None
        /\ made' \in Surfaces
    BY MaxSurfacesAssumption DEF IInv, TypeOK, Surfaces
  <1>3. TypeOK'
    BY <1>1, <1>2, MaxSurfacesAssumption DEF IInv, TypeOK, Surfaces
  <1>4. BackendInv' /\ GameInv'
    BY <1>1 DEF IInv, BackendInv, GameInv, AfterInit
  <1>5. UiInv'
    <2>1. /\ ~late /\ (late' <=> client # "awtActivity") /\ pending' = pending
          /\ client' = client
      BY <1>2 DEF IInv, UiInv
    <2>2. pending' = CASE client' = "awtActivity" -> None
                       [] late' -> made' - 1
                       [] OTHER -> made'
      BY <1>2, <2>1 DEF IInv, UiInv
    <2> QED BY <1>1, <1>2, <2>1, <2>2
            DEF IInv, UiInv, GlCreated, GlDestroyed, AwtStop, AwtCall, None
  <1>6. RefsInv'
    <2>1. \A s \in Surfaces : UiHasDelivered(s) => UiHasDelivered(s)'
      BY <1>1, <1>2 DEF UiHasDelivered, Surfaces
    <2>2. GameHasDelivered' = GameHasDelivered
      BY <1>1 DEF GameHasDelivered
    <2>3. \A s \in Surfaces : refs[s] \in Nat
      BY DEF IInv, TypeOK
    <2> QED BY <1>1, <2>1, <2>2, <2>3 DEF IInv, RefsInv
  <1>7. KeptInv'
    BY <1>1 DEF KeptInv, Delivered
  <1>8. RenderInv'
    BY <1>1, <1>2 DEF IInv, RenderInv, Alive, AwtStop
  <1> QED BY <1>1, <1>3, <1>4, <1>5, <1>6, <1>7, <1>8 DEF IInv

LEMMA PendingSeenInv == ASSUME IInv, PendingSeen PROVE IInv'
  <1> USE DEF PendingSeen, threadVars, glfwVars, callbackVars, windowVars, awtVars
  <1>1. late /\ pending' = screen /\ ~late' /\ screen = made /\ client # "awtActivity"
    BY DEF IInv, TypeOK, UiInv
  <1>2. TypeOK'
    BY <1>1 DEF IInv, TypeOK
  <1>3. BackendInv' /\ GameInv' /\ KeptInv'
    BY DEF IInv, BackendInv, GameInv, KeptInv, AfterInit
  <1>4. UiInv'
    BY <1>1 DEF IInv, UiInv
  <1>5. RefsInv'
    BY DEF IInv, RefsInv, UiHasDelivered, GameHasDelivered
  <1>6. RenderInv'
    BY DEF IInv, RenderInv, Alive
  <1> QED BY <1>2, <1>3, <1>4, <1>5, <1>6 DEF IInv

LEMMA ViewResizedInv == ASSUME IInv, ViewResized PROVE IInv'
  <1> USE DEF ViewResized, threadVars, callbackVars, windowVars, awtVars, platformVars, viewVars
  <1>0. size' \in 0..MaxResizes
    BY PlatformAssumption DEF IInv, TypeOK
  <1>00. surfaceUpdated' \in BOOLEAN
    BY DEF IInv, TypeOK
  <1>1. TypeOK'
    BY <1>0, <1>00 DEF IInv, TypeOK
  <1>2. BackendInv' /\ UiInv' /\ GameInv' /\ KeptInv'
    BY DEF IInv, BackendInv, UiInv, GameInv, KeptInv, AfterInit
  <1>3. RefsInv'
    BY DEF IInv, RefsInv, UiHasDelivered, GameHasDelivered
  <1>4. RenderInv'
    BY DEF IInv, RenderInv, Alive
  <1> QED BY <1>1, <1>2, <1>3, <1>4 DEF IInv

LEMMA ViewGoneInv == ASSUME IInv, ViewGone PROVE IInv'
  <1> USE DEF ViewGone, Goto, glfwVars, callbackVars, windowVars, awtVars
  <1>1. /\ DOMAIN pc' = Threads /\ pc["ui"] = "gone" /\ pc'["ui"] = "idle"
        /\ pc'["game"] = pc["game"] /\ arg' = arg /\ ret' = ret
    BY DEF IInv, TypeOK, Threads
  <1>2. TypeOK'
    BY <1>1 DEF IInv, TypeOK
  <1>3. BackendInv' /\ GameInv'
    BY <1>1 DEF IInv, BackendInv, GameInv, AfterInit
  <1>4. UiInv'
    <2>1. ~late
      BY <1>1 DEF IInv, UiInv
    <2> QED BY <1>1, <2>1 DEF IInv, UiInv, GlCreated, GlDestroyed, AwtStop, AwtCall
  <1>5. RefsInv'
    <2>1. \A s \in Surfaces : UiHasDelivered(s)' = UiHasDelivered(s)
      BY <1>1 DEF UiHasDelivered
    <2>2. GameHasDelivered' = GameHasDelivered
      BY <1>1 DEF GameHasDelivered
    <2> QED BY <1>1, <2>1, <2>2 DEF IInv, RefsInv
  <1>6. KeptInv'
    BY <1>1 DEF KeptInv
  <1>7. RenderInv'
    BY <1>1 DEF IInv, RenderInv, Alive, AwtStop
  <1> QED BY <1>1, <1>2, <1>3, <1>4, <1>5, <1>6, <1>7 DEF IInv

------------------------------------------------------------------------------
(* The window in use and its references *)

LEMMA UiCreatedInv ==
    ASSUME IInv, CreatedWindow("ui"), UNCHANGED <<awtVars, platformVars>>
    PROVE  IInv'
  <1> USE DEF CreatedWindow, Goto, windowVars, awtVars, platformVars, viewVars
  <1>1. /\ DOMAIN pc' = Threads /\ pc["ui"] = "gl_created" /\ pc'["ui"] = "gl_alive"
        /\ pc'["game"] = pc["game"] /\ arg' = arg /\ ret' = ret
    BY DEF IInv, TypeOK, Threads
  <1>2. /\ backend = "glfw" /\ arg["ui"] = screen /\ ret["ui"] = "idle"
        /\ screen = made /\ screen # None
    BY <1>1 DEF IInv, UiInv, GlCreated, AwtCall, AwtStop
  <1>3. /\ screen \in Surfaces /\ nativeWindow' = screen
        /\ refs' = [refs EXCEPT ![screen] = @ + 2]
    BY <1>2 DEF IInv, TypeOK
  <1>4. RefsInv'
    <2>1. ~UiHasDelivered(screen) /\ UiHasDelivered(screen)'
      BY <1>1, <1>2, <1>3 DEF UiHasDelivered, Surfaces
    <2>2. \A s \in Surfaces : UiHasDelivered(s) => UiHasDelivered(s)'
      BY <1>1 DEF UiHasDelivered
    <2>3. GameHasDelivered' = GameHasDelivered
      BY <1>1 DEF GameHasDelivered
    <2>4. refs \in [Surfaces -> Nat]
      BY DEF IInv, TypeOK
    <2> QED BY <1>1, <1>3, <2>1, <2>2, <2>3, <2>4 DEF IInv, RefsInv
  <1>5. refs' \in [Surfaces -> 0..4]
    BY <1>3, <1>4 DEF IInv, TypeOK, RefsInv
  <1>6. TypeOK'
    BY <1>1, <1>3, <1>5 DEF IInv, TypeOK
  <1>7. BackendInv' /\ GameInv'
    BY <1>1 DEF IInv, BackendInv, GameInv, AfterInit
  <1>8. UiInv'
    BY <1>1, <1>2 DEF IInv, UiInv, GlCreated, GlDestroyed, AwtStop, AwtCall
  <1>9. KeptInv'
    BY <1>3 DEF IInv, TypeOK, KeptInv
  <1>10. RenderInv'
    BY <1>2 DEF IInv, RenderInv, BackendInv
  <1> QED BY <1>1, <1>4, <1>6, <1>7, <1>8, <1>9, <1>10 DEF IInv

LEMMA UiReleaseInv ==
    ASSUME IInv, DestroyedRelease("ui"), UNCHANGED <<awtVars, platformVars>>
    PROVE  IInv'
  <1> USE DEF DestroyedRelease, Goto, windowVars, awtVars, platformVars, viewVars
  <1>1. /\ DOMAIN pc' = Threads /\ pc["ui"] = "gl_release" /\ pc'["ui"] \in {"crashed", "gl_forget"}
        /\ pc'["game"] = pc["game"] /\ arg' = arg /\ ret' = ret
        /\ pc'["ui"] = "crashed" <=> nativeWindow = None
    BY DEF IInv, TypeOK, Threads
  <1>2. /\ backend = "glfw" /\ arg["ui"] = None /\ ret["ui"] = "gone"
        /\ screen = made /\ screen # None
    BY <1>1 DEF IInv, UiInv, GlDestroyed, AwtCall, AwtStop
  <1>3. refs \in [Surfaces -> 0..4]
    BY DEF IInv, TypeOK
  <1>4. /\ refs' \in [Surfaces -> 0..4] /\ RefsInv'
    <2>1. \A s \in Surfaces : UiHasDelivered(s)' = UiHasDelivered(s)
      BY <1>1 DEF UiHasDelivered
    <2>2. GameHasDelivered' = GameHasDelivered
      BY <1>1 DEF GameHasDelivered
    <2>3. CASE nativeWindow = None
      BY <1>1, <1>3, <2>1, <2>2, <2>3 DEF IInv, RefsInv
    <2>4. CASE nativeWindow # None
      <3>1. /\ nativeWindow \in Surfaces /\ refs[nativeWindow] >= 2
            /\ refs' = [refs EXCEPT ![nativeWindow] = @ - 1]
        BY <1>1, <2>4 DEF IInv, TypeOK, RefsInv
      <3>2. refs' \in [Surfaces -> 0..4]
        BY <1>3, <3>1
      <3>3. \A s \in Surfaces : refs'[s] <= refs[s]
        BY <1>3, <3>1
      <3>4. \A s \in Surfaces : refs[s] >= 1 => refs'[s] >= 1
        BY <1>3, <3>1
      <3> QED BY <1>1, <1>3, <2>1, <2>2, <3>1, <3>2, <3>3, <3>4 DEF IInv, RefsInv
    <2> QED BY <2>3, <2>4
  <1>5. TypeOK'
    BY <1>1, <1>4 DEF IInv, TypeOK
  <1>6. BackendInv' /\ GameInv'
    BY <1>1 DEF IInv, BackendInv, GameInv, AfterInit
  <1>7. UiInv'
    BY <1>1, <1>2 DEF IInv, UiInv, GlCreated, GlDestroyed, AwtStop, AwtCall
  <1>8. KeptInv'
    BY <1>1 DEF KeptInv, Delivered
  <1>9. RenderInv'
    BY <1>2 DEF IInv, RenderInv, BackendInv
  <1> QED BY <1>1, <1>4, <1>5, <1>6, <1>7, <1>8, <1>9 DEF IInv

LEMMA UiForgetInv ==
    ASSUME IInv, DestroyedForget("ui"), UNCHANGED <<awtVars, platformVars>>
    PROVE  IInv'
  <1> USE DEF DestroyedForget, Return, windowVars, awtVars, platformVars, viewVars
  <1>1. /\ pc["ui"] = "gl_forget" /\ backend = "glfw" /\ ret["ui"] = "gone"
        /\ screen = made /\ screen # None
    BY DEF IInv, UiInv, GlDestroyed, AwtCall, AwtStop, GlCreated
  <1>2. /\ DOMAIN pc' = Threads /\ DOMAIN ret' = Threads /\ pc'["ui"] = "gone"
        /\ pc'["game"] = pc["game"] /\ arg'["game"] = arg["game"] /\ ret'["game"] = ret["game"]
    BY <1>1 DEF IInv, TypeOK, Threads
  <1>3. TypeOK'
    BY <1>2 DEF IInv, TypeOK
  <1>4. BackendInv' /\ GameInv'
    BY <1>2 DEF IInv, BackendInv, GameInv, AfterInit
  <1>5. UiInv'
    BY <1>1, <1>2 DEF IInv, UiInv, GlCreated, GlDestroyed, AwtStop, AwtCall
  <1>6. RefsInv'
    <2>1. \A s \in Surfaces : UiHasDelivered(s)' = UiHasDelivered(s)
      BY <1>1, <1>2 DEF UiHasDelivered
    <2>2. GameHasDelivered' = GameHasDelivered
      BY <1>2 DEF GameHasDelivered
    <2> QED BY <2>1, <2>2 DEF IInv, RefsInv
  <1>7. KeptInv'
    BY <1>2 DEF KeptInv, Delivered
  <1>8. RenderInv'
    BY <1>1 DEF IInv, RenderInv, BackendInv
  <1> QED BY <1>2, <1>3, <1>4, <1>5, <1>6, <1>7, <1>8 DEF IInv

------------------------------------------------------------------------------
(* The game before its loop: what its steps have in common *)

GameStep ==
    /\ DOMAIN pc' = Threads /\ DOMAIN ret' = Threads
    /\ arg' \in [Threads -> Surfaces \cup {None}]
    /\ pc'["ui"] = pc["ui"] /\ arg'["ui"] = arg["ui"] /\ ret'["ui"] = ret["ui"]
    /\ GameHasDelivered => GameHasDelivered'
    /\ missed' \in BOOLEAN
    /\ {surfaceDestroyed', isVmConnected'} \subseteq BOOLEAN
    /\ UNCHANGED <<nativeWindow, refs, surfaceUpdated, surfaceInUse, ownedByVulkan, size,
                   windowVars, client, backend, viewVars>>
    /\ AwtTypes' /\ BackendInv' /\ GameInv' /\ KeptInv' /\ RenderInv'

LEMMA GameStepInv == ASSUME IInv, GameStep PROVE IInv'
  <1> USE DEF GameStep, windowVars, platformVars, viewVars
  <1>1. TypeOK'
    BY DEF IInv, TypeOK, AwtTypes
  <1>2. UiInv'
    BY DEF IInv, UiInv
  <1>3. RefsInv'
    <2>1. \A s \in Surfaces : UiHasDelivered(s)' = UiHasDelivered(s)
      BY DEF UiHasDelivered
    <2>2. \A s \in Surfaces : refs[s] \in Nat
      BY DEF IInv, TypeOK
    <2> QED BY <2>1, <2>2 DEF IInv, RefsInv
  <1> QED BY <1>1, <1>2, <1>3 DEF IInv

\* What the invariant says of the game before its loop.
GameFacts ==
    /\ DOMAIN pc = Threads /\ DOMAIN ret = Threads
    /\ arg \in [Threads -> Surfaces \cup {None}]
    /\ pending \in Surfaces \cup {None} /\ {surfaceDestroyed, isVmConnected} \subseteq BOOLEAN
    /\ {late, missed} \subseteq BOOLEAN /\ screen \in {None, made}
    /\ ~late /\ screen # None /\ client # "awtActivity" => pending = screen
    /\ AwtTypes /\ BackendInv /\ GameInv /\ KeptInv /\ RenderInv

LEMMA InGame == IInv => GameFacts
  BY DEF IInv, TypeOK, UiInv, GameFacts, AwtTypes

LEMMA StartStep ==
    ASSUME IInv,
           \/ Launch \/ LeaveBackend
           \/ (ConnectVm \/ ConnectSignal(AfterConnect)) /\ UNCHANGED <<glfwVars, platformVars>>
    PROVE  GameStep
  <1>1. GameFacts
    BY InGame
  <1>2. pc["game"] \in BeforeBackend
    BY DEF Launch, LeaveBackend, ConnectVm, ConnectSignal, BeforeBackend
  <1>3. pc["game"] \notin {"pick", "ended", "open"} \cup AwtCall \cup GlCreated \cup LoopLabels
    BY <1>2 DEF BeforeBackend, AwtCall, AwtStop, GlCreated, LoopLabels, ManageLabels
  <1> USE <1>1, <1>2, <1>3
  <1> USE DEF GameFacts, GameStep, glfwVars, callbackVars, windowVars, awtVars, platformVars, viewVars,
              Threads, Goto
  <1>4. /\ backend = "dummy" \/ (client = "awtActivity" /\ backend = "awt")
        /\ arg["game"] = None
    BY DEF BackendInv, GameInv
  <1>5. /\ DOMAIN pc' = Threads /\ ret' = ret /\ arg' = arg /\ pc'["ui"] = pc["ui"]
        /\ UNCHANGED <<glfwVars, platformVars, isRendering, renderThread>>
        /\ \/ /\ pc["game"] = "off"
              /\ pc'["game"] = IF client \in {"awt", "awtActivity"} THEN "connect" ELSE "init"
           \/ pc["game"] = "connect" /\ pc'["game"] = "connected"
           \/ pc["game"] = "connected" /\ pc'["game"] = AfterConnect
           \/ pc["game"] = "init" /\ pc'["game"] = "assign"
    <2>1. CASE Launch
      BY <2>1 DEF Launch
    <2>2. CASE LeaveBackend
      BY <2>2, <1>4 DEF LeaveBackend, SurfaceDestroyed, BackendInv
    <2>3. CASE ConnectVm /\ UNCHANGED <<glfwVars, platformVars>>
      BY <2>3 DEF ConnectVm
    <2>4. CASE ConnectSignal(AfterConnect) /\ UNCHANGED <<glfwVars, platformVars>>
      BY <2>4 DEF ConnectSignal
    <2> QED BY <2>1, <2>2, <2>3, <2>4
  <1>6. /\ AwtTypes' /\ isVmConnected' \in BOOLEAN
        /\ \A r \in Renderers : Alive(r)' => Alive(r)
    <2>1. CASE Launch \/ LeaveBackend
      BY <2>1 DEF Launch, LeaveBackend, Alive, AwtTypes
    <2>2. CASE ConnectVm
      BY <2>2 DEF ConnectVm, Alive, AwtTypes
    <2>3. CASE ConnectSignal(AfterConnect)
      BY <2>3 DEF ConnectSignal, Awaken, Alive, AwtTypes
    <2> QED BY <2>1, <2>2, <2>3
  <1>7. BackendInv'
    BY <1>4, <1>5 DEF BackendInv, AfterConnect, BeforeBackend
  <1>8. GameInv'
    BY <1>4, <1>5 DEF GameInv, AfterConnect, BeforeBackend, AwtCall, AwtStop, GlCreated, ManageLabels
  <1>9. RenderInv'
    BY <1>5, <1>6 DEF RenderInv
  <1>10. ~GameHasDelivered /\ KeptInv'
    BY <1>4, <1>5 DEF GameHasDelivered, KeptInv
  <1> QED BY <1>4, <1>5, <1>6, <1>7, <1>8, <1>9, <1>10

LEMMA PickStep == ASSUME IInv, PickPending PROVE GameStep
  <1>1. GameFacts
    BY InGame
  <1> USE <1>1
  <1> USE DEF GameFacts, GameStep, glfwVars, callbackVars, windowVars, awtVars, platformVars, viewVars,
              Threads, Goto, Enter
  <1>2. pc["game"] = "pick" /\ arg["game"] = None /\ windows = 0 /\ client # "awtActivity"
    BY DEF PickPending, BackendInv, GameInv, GlCreated, AwtCall, AwtStop
  <1>3. \/ client = "awt" /\ backend = "awt"
        \/ client \in {"gl", "vulkan"} /\ backend = "glfw"
    BY <1>2 DEF BackendInv, BeforeBackend
  <1>4. /\ DOMAIN pc' = Threads /\ DOMAIN ret' = Threads /\ pc'["ui"] = pc["ui"]
        /\ arg' \in [Threads -> Surfaces \cup {None}]
        /\ arg'["ui"] = arg["ui"] /\ ret'["ui"] = ret["ui"]
        /\ UNCHANGED <<glfwVars, awtVars, client, backend, viewVars>>
        /\ missed' = (missed \/ (late /\ pc["ui"] # "deliver"))
        /\ \/ pending = None /\ pc'["game"] = AfterInit /\ arg'["game"] = None
           \/ /\ pending # None /\ arg'["game"] = pending /\ ret'["game"] = AfterInit
              /\ pc'["game"] = IF client = "awt" THEN "awt_begin" ELSE "gl_created"
    <2>1. CASE pending = None
      BY <2>1, <1>2, <1>3 DEF PickPending
    <2>2. CASE pending # None
      <3>1. Enter("game", IF client = "awt" THEN "awt_begin" ELSE "gl_created", pending, AfterInit)
        BY <2>2, <1>2, <1>3 DEF PickPending, SurfaceCreated
      <3> QED BY <2>2, <3>1, <1>2 DEF PickPending
    <2> QED BY <2>1, <2>2
  <1>5. BackendInv'
    BY <1>3, <1>4 DEF BackendInv, AfterInit, AwtCall, GlCreated
  <1>6. GameInv'
    BY <1>2, <1>4, MaxWindowsAssumption
    DEF GameInv, AfterInit, AwtCall, AwtStop, GlCreated, ManageLabels
  <1>7. RenderInv' /\ ~GameHasDelivered
    BY <1>2, <1>4 DEF RenderInv, GameHasDelivered
  <1>8. KeptInv'
    <2> SUFFICES ASSUME backend = "glfw", screen # None, pc["ui"] \in Delivered, ~missed'
                 PROVE  pc'["game"] = "gl_created" /\ arg'["game"] = screen
      BY <1>4 DEF KeptInv
    <2>1. ~late
      BY <1>4 DEF Delivered
    <2>2. pending = screen /\ client # "awt"
      BY <1>2, <1>3, <2>1
    <2> QED BY <1>4, <2>2
  <1>9. missed' \in BOOLEAN
    BY <1>4
  <1> QED BY <1>2, <1>3, <1>4, <1>5, <1>6, <1>7, <1>8, <1>9 DEF AwtTypes

LEMMA DeadStep == ASSUME IInv, DeadSurface PROVE GameStep
  <1>1. GameFacts
    BY InGame
  <1> USE <1>1
  <1> USE DEF GameFacts, GameStep, glfwVars, callbackVars, windowVars, awtVars, platformVars, viewVars,
              Threads, Enter
  <1>2. /\ pc["game"] = "gl_created" /\ arg["game"] # screen
        /\ client \in {"gl", "vulkan"} /\ backend = "glfw"
    BY DEF DeadSurface, BackendInv, BeforeBackend, AwtCall, AwtStop, GlCreated
  <1>3. /\ DOMAIN pc' = Threads /\ DOMAIN ret' = Threads /\ pc'["ui"] = pc["ui"]
        /\ arg' \in [Threads -> Surfaces \cup {None}]
        /\ arg'["ui"] = arg["ui"] /\ ret'["ui"] = ret["ui"]
        /\ pc'["game"] = "crashed" /\ arg'["game"] = None
        /\ UNCHANGED <<glfwVars, awtVars, platformVars>>
    BY DEF DeadSurface
  <1>4. BackendInv'
    BY <1>2, <1>3 DEF BackendInv, LoopLabels
  <1>5. GameInv'
    BY <1>3 DEF GameInv, BeforeBackend, AwtCall, AwtStop, GlCreated, ManageLabels
  <1>6. KeptInv'
    BY <1>2, <1>3 DEF KeptInv
  <1>7. RenderInv' /\ ~GameHasDelivered
    BY <1>2, <1>3 DEF RenderInv, GameHasDelivered
  <1> QED BY <1>2, <1>3, <1>4, <1>5, <1>6, <1>7 DEF AwtTypes

LEMMA GameCallbackStep ==
    ASSUME IInv, CreatedAlive("game") \/ CreatedSignal("game"),
           UNCHANGED <<awtVars, platformVars>>
    PROVE  GameStep
  <1>1. GameFacts
    BY InGame
  <1> USE <1>1
  <1> USE DEF GameFacts, GameStep, glfwVars, callbackVars, windowVars, awtVars, platformVars, viewVars,
              Threads, Goto, Return
  <1>2. /\ pc["game"] \in {"gl_alive", "gl_signal"} /\ arg["game"] # None /\ windows = 0
        /\ ret["game"] = AfterInit
    BY DEF CreatedAlive, CreatedSignal, GameInv, GlCreated
  <1>3. client \in {"gl", "vulkan"} /\ backend = "glfw" /\ AfterInit = "open"
    BY <1>2 DEF BackendInv, BeforeBackend, AwtCall, AwtStop, AfterInit
  <1>4. /\ DOMAIN pc' = Threads /\ DOMAIN ret' = Threads /\ pc'["ui"] = pc["ui"]
        /\ arg' \in [Threads -> Surfaces \cup {None}]
        /\ arg'["ui"] = arg["ui"] /\ ret'["ui"] = ret["ui"] /\ surfaceDestroyed' \in BOOLEAN
        /\ \/ pc'["game"] = "gl_signal" /\ arg' = arg /\ ret' = ret
           \/ pc'["game"] = "open" /\ arg'["game"] = None
    <2>1. CASE CreatedAlive("game")
      BY <2>1, <1>2, <1>3 DEF CreatedAlive
    <2>2. CASE CreatedSignal("game")
      BY <2>2, <1>2, <1>3 DEF CreatedSignal, Wake, None
    <2> QED BY <2>1, <2>2
  <1>5. UNCHANGED <<nativeWindow, refs, surfaceUpdated, surfaceInUse, ownedByVulkan, size,
                    windowVars, awtVars, platformVars>>
    BY DEF CreatedAlive, CreatedSignal
  <1>6. BackendInv'
    BY <1>3, <1>4, <1>5 DEF BackendInv, GlCreated
  <1>7. GameInv'
    BY <1>2, <1>3, <1>4, <1>5, MaxWindowsAssumption
    DEF GameInv, AfterInit, BeforeBackend, AwtCall, AwtStop, GlCreated, ManageLabels
  <1>8. RenderInv' /\ GameHasDelivered'
    BY <1>3, <1>4, <1>5 DEF RenderInv, GameHasDelivered, BeforeBackend
  <1>9. KeptInv'
    BY <1>2, <1>4, <1>5 DEF KeptInv
  <1> QED BY <1>2, <1>3, <1>4, <1>5, <1>6, <1>7, <1>8, <1>9 DEF AwtTypes

LEMMA GameAwtStep ==
    ASSUME IInv, RenderCall("game"), UNCHANGED <<glfwVars, platformVars>>
    PROVE  GameStep
  <1>1. GameFacts
    BY InGame
  <1>2. pc["game"] \in AwtCall
    BY DEF RenderCall, Begin, Stop, StopSignal, Join, CreateThread, AwtCall, AwtStop
  <1> USE <1>1, <1>2
  <1> USE DEF GameFacts, GameStep, glfwVars, callbackVars, windowVars, platformVars, viewVars,
              Threads, Goto, Return
  <1>3. /\ client = "awt" /\ backend = "awt" /\ AfterInit = "ended"
        /\ arg["game"] # None /\ ret["game"] = "ended"
    BY DEF BackendInv, GameInv, BeforeBackend, AwtCall, AwtStop, AfterInit, GlCreated,
           LoopLabels, ManageLabels
  <1>4. /\ DOMAIN pc' = Threads /\ DOMAIN ret' = Threads /\ pc'["ui"] = pc["ui"]
        /\ arg' \in [Threads -> Surfaces \cup {None}]
        /\ arg'["ui"] = arg["ui"] /\ ret'["ui"] = ret["ui"] /\ isVmConnected' = isVmConnected
        /\ \/ pc'["game"] \in AwtCall /\ arg' = arg /\ ret' = ret
           \/ pc'["game"] = "ended" /\ arg'["game"] = None
    <2>1. CASE Begin("game")
      BY <2>1, <1>3 DEF Begin, awtVars, AwtCall, AwtStop
    <2>2. CASE Stop("game")
      BY <2>2, <1>3 DEF Stop, AwtCall, AwtStop
    <2>3. CASE StopSignal("game")
      BY <2>3, <1>3 DEF StopSignal, AwtCall, AwtStop
    <2>4. CASE Join("game")
      BY <2>4, <1>3 DEF Join, AwtCall, AwtStop
    <2>5. CASE CreateThread("game")
      BY <2>5, <1>3 DEF CreateThread
    <2> QED BY <2>1, <2>2, <2>3, <2>4, <2>5 DEF RenderCall
  <1>5. AwtTypes'
    <2>1. CASE Begin("game")
      BY <2>1 DEF Begin, awtVars, AwtTypes
    <2>2. CASE Stop("game")
      BY <2>2 DEF Stop, AwtTypes
    <2>3. CASE StopSignal("game")
      BY <2>3 DEF StopSignal, Awaken, AwtTypes
    <2>4. CASE Join("game")
      BY <2>4 DEF Join, AwtTypes
    <2>5. CASE CreateThread("game")
      <3>1. renderThread' \in Renderers
        BY <1>3, <2>5 DEF CreateThread, Renderers
      <3> QED BY <2>5, <3>1 DEF CreateThread, AwtTypes
    <2> QED BY <2>1, <2>2, <2>3, <2>4, <2>5 DEF RenderCall
  <1>6. BackendInv'
    BY <1>3, <1>4 DEF BackendInv
  <1>7. GameInv'
    <2>1. pc'["game"] \notin BeforeBackend \cup {"pick", "open"} \cup GlCreated \cup ManageLabels
      BY <1>4 DEF BeforeBackend, AwtCall, AwtStop, GlCreated, ManageLabels
    <2>2. "ended" \notin AwtCall
      BY DEF AwtCall, AwtStop
    <2> QED BY <1>3, <1>4, <2>1, <2>2 DEF GameInv, AfterInit
  <1>8. RenderInv' /\ GameHasDelivered'
    BY <1>3, <1>4 DEF RenderInv, GameHasDelivered, BeforeBackend, AwtCall, AwtStop
  <1>9. KeptInv'
    BY <1>3 DEF KeptInv
  <1> QED BY <1>3, <1>4, <1>5, <1>6, <1>7, <1>8, <1>9

LEMMA AssignInv == ASSUME IInv, AssignBackend PROVE IInv'
  <1> USE DEF AssignBackend, Goto, glfwVars, callbackVars, windowVars, awtVars, viewVars
  <1>1. /\ DOMAIN pc' = Threads /\ pc["game"] = "assign" /\ pc'["game"] = "pick"
        /\ pc'["ui"] = pc["ui"] /\ arg' = arg /\ ret' = ret
    BY DEF IInv, TypeOK, Threads
  <1>2. /\ backend = "dummy" /\ client \in {"gl", "vulkan", "awt"} /\ backend' = ClientBackend
        /\ windows = 0 /\ arg["game"] = None
    BY <1>1 DEF IInv, BackendInv, GameInv, BeforeBackend, AwtCall, AwtStop, GlCreated,
                LoopLabels, ManageLabels
  <1>3. TypeOK'
    BY <1>1, <1>2 DEF IInv, TypeOK, ClientBackend
  <1>4. BackendInv'
    BY <1>1, <1>2 DEF IInv, BackendInv, ClientBackend
  <1>5. GameInv'
    BY <1>1, <1>2 DEF GameInv, AwtCall, AwtStop, GlCreated, ManageLabels
  <1>6. UiInv'
    BY <1>1, <1>2 DEF IInv, UiInv
  <1>7. RefsInv'
    <2>1. \A s \in Surfaces : UiHasDelivered(s)' = UiHasDelivered(s)
      BY <1>1 DEF UiHasDelivered
    <2>2. GameHasDelivered' = GameHasDelivered
      BY <1>1 DEF GameHasDelivered, BeforeBackend
    <2> QED BY <1>1, <2>1, <2>2 DEF IInv, RefsInv
  <1>8. KeptInv'
    BY <1>1 DEF KeptInv
  <1>9. RenderInv'
    BY <1>2 DEF RenderInv
  <1> QED BY <1>1, <1>3, <1>4, <1>5, <1>6, <1>7, <1>8, <1>9 DEF IInv

LEMMA GameCreatedInv ==
    ASSUME IInv, CreatedWindow("game"), UNCHANGED <<awtVars, platformVars>>
    PROVE  IInv'
  <1> USE DEF CreatedWindow, Goto, windowVars, awtVars, platformVars, viewVars
  <1>1. /\ DOMAIN pc' = Threads /\ pc["game"] = "gl_created" /\ pc'["game"] = "gl_alive"
        /\ pc'["ui"] = pc["ui"] /\ arg' = arg /\ ret' = ret
    BY DEF IInv, TypeOK, Threads
  <1>2. /\ backend = "glfw" /\ client \in {"gl", "vulkan"} /\ arg["game"] # None
        /\ windows = 0 /\ ret["game"] = AfterInit
    BY <1>1 DEF IInv, BackendInv, GameInv, BeforeBackend, AwtCall, AwtStop, GlCreated
  <1>3. /\ arg["game"] \in Surfaces /\ nativeWindow' = arg["game"]
        /\ refs' = [refs EXCEPT ![arg["game"]] = @ + 2]
    BY <1>2 DEF IInv, TypeOK, Threads
  <1>4. RefsInv'
    <2>1. \A s \in Surfaces : UiHasDelivered(s)' = UiHasDelivered(s)
      BY <1>1 DEF UiHasDelivered
    <2>2. ~GameHasDelivered /\ GameHasDelivered'
      BY <1>1 DEF GameHasDelivered, BeforeBackend
    <2>3. refs \in [Surfaces -> Nat]
      BY DEF IInv, TypeOK
    <2> QED BY <1>1, <1>3, <2>1, <2>2, <2>3 DEF IInv, RefsInv
  <1>5. refs' \in [Surfaces -> 0..4]
    BY <1>3, <1>4 DEF IInv, TypeOK, RefsInv
  <1>6. TypeOK'
    BY <1>1, <1>3, <1>5 DEF IInv, TypeOK
  <1>7. BackendInv'
    BY <1>1, <1>2 DEF BackendInv, GlCreated
  <1>8. GameInv'
    BY <1>1, <1>2 DEF GameInv, AfterInit, AwtCall, AwtStop, GlCreated, ManageLabels
  <1>9. UiInv'
    BY <1>1 DEF IInv, UiInv
  <1>10. KeptInv'
    <2>1. /\ \A s \in Surfaces : refs[s] > 0 => refs'[s] > 0
          /\ refs'[arg["game"]] > 0
      BY <1>3 DEF IInv, TypeOK
    <2>2. screen # None => screen \in Surfaces
      BY DEF IInv, TypeOK
    <2> QED BY <1>1, <2>1, <2>2 DEF IInv, KeptInv
  <1>11. RenderInv'
    BY <1>2 DEF RenderInv
  <1> QED BY <1>1, <1>4, <1>6, <1>7, <1>8, <1>9, <1>10, <1>11 DEF IInv

------------------------------------------------------------------------------
(* The step and the theorems *)

\* What a thread does in a call of a backend.
LEMMA CallInv ==
    ASSUME IInv, NEW t \in Threads, InCall(t)
    PROVE  IInv'
  <1>1. CASE Callback(t) /\ UNCHANGED <<awtVars, platformVars>> /\ t = "ui"
    <2>1. CASE CreatedWindow("ui")
      BY <1>1, <2>1, UiCreatedInv
    <2>2. CASE DestroyedRelease("ui")
      BY <1>1, <2>2, UiReleaseInv
    <2>3. CASE DestroyedForget("ui")
      BY <1>1, <2>3, UiForgetInv
    <2>4. CASE \/ CreatedAlive("ui") \/ CreatedSignal("ui")
               \/ DestroyedMark("ui") \/ DestroyedTest("ui") \/ DestroyedWait("ui")
      BY <1>1, <2>4, UiCallbackStep, UiStepInv
    <2> QED BY <1>1, <2>1, <2>2, <2>3, <2>4 DEF Callback
  <1>2. CASE Callback(t) /\ UNCHANGED <<awtVars, platformVars>> /\ t = "game"
    <2>1. CASE CreatedWindow("game")
      BY <1>2, <2>1, GameCreatedInv
    <2>2. CASE CreatedAlive("game") \/ CreatedSignal("game")
      BY <1>2, <2>2, GameCallbackStep, GameStepInv
    <2>3. pc["game"] \notin GlDestroyed
      BY DEF IInv, BackendInv, BeforeBackend, GlDestroyed, GlCreated, AwtCall, AwtStop,
             LoopLabels, ManageLabels
    <2>4. ~ \/ DestroyedMark("game") \/ DestroyedTest("game") \/ DestroyedWait("game")
            \/ DestroyedRelease("game") \/ DestroyedForget("game")
      BY <2>3 DEF DestroyedMark, DestroyedTest, DestroyedWait, DestroyedRelease,
                  DestroyedForget, GlDestroyed
    <2> QED BY <1>2, <2>1, <2>2, <2>4 DEF Callback
  <1>3. CASE RenderCall(t) /\ UNCHANGED <<glfwVars, platformVars>>
    BY <1>3, UiAwtStep, UiStepInv, GameAwtStep, GameStepInv DEF Threads
  <1> QED BY <1>1, <1>2, <1>3 DEF InCall, Threads

\* Sleeping threads may wake for no reason.
LEMMA SpuriousWakeInv ==
    ASSUME IInv, NEW t \in Threads, SpuriousWake(t), UNCHANGED <<awtVars, platformVars>>
    PROVE  IInv'
  <1>1. CASE pc["ui"] = "gl_asleep" /\ Goto("ui", "gl_release") /\ UNCHANGED glfwVars
    BY <1>1, UiCallbackStep, UiStepInv
  <1>2. CASE pc["game"] = "vk_asleep" /\ Goto("game", "vk_make") /\ UNCHANGED glfwVars
    <2>1. {"vk_asleep", "vk_make"} \subseteq LoopLabels /\ "vk_make" \notin ManageLabels
      BY DEF LoopLabels, ManageLabels
    <2>2. LoopFacts
      BY <1>2, <2>1, InLoop
    <2>3. LoopStep
      BY <1>2, <2>1, <2>2 DEF LoopStep, LoopFacts, callbackVars, windowVars, glfwVars, Goto, Threads
    <2> QED BY <2>3, LoopStepInv
  <1>3. pc["game"] # "gl_asleep" /\ pc["ui"] # "vk_asleep"
    BY DEF IInv, BackendInv, UiInv, BeforeBackend, GlDestroyed, GlCreated, AwtCall, AwtStop,
           LoopLabels, ManageLabels
  <1> QED BY <1>1, <1>2, <1>3 DEF SpuriousWake, Threads

LEMMA GameInvStep == ASSUME IInv, GameNext PROVE IInv'
  <1>1. CASE Launch \/ LeaveBackend
    BY <1>1, StartStep, GameStepInv
  <1>2. CASE AssignBackend
    BY <1>2, AssignInv
  <1>3. CASE PickPending \/ DeadSurface
    BY <1>3, PickStep, DeadStep, GameStepInv
  <1>4. CASE (OpenWindow(AfterOpen) \/ GlLoop \/ VulkanLoop) /\ UNCHANGED <<awtVars, platformVars>>
    <2>1. CASE OpenWindow(AfterOpen)
      BY <1>4, <2>1, WindowStep, LoopStepInv
    <2>2. CASE Manage
      BY <1>4, <2>2, ManageStep, LoopStepInv
    <2>3. CASE (GlLoop \/ VulkanLoop) /\ ~Manage
      BY <1>4, <2>3, DrawStep, LoopStepInv
    <2> QED BY <1>4, <2>1, <2>2, <2>3
  <1>5. CASE (ConnectVm \/ ConnectSignal(AfterConnect)) /\ UNCHANGED <<glfwVars, platformVars>>
    BY <1>5, StartStep, GameStepInv
  <1> QED BY <1>1, <1>2, <1>3, <1>4, <1>5 DEF GameNext

LEMMA Stutter == ASSUME IInv, UNCHANGED vars PROVE IInv'
  <1>1. RenderStep
    BY DEF vars, awtVars, RenderStep, Alive, IInv, TypeOK
  <1> QED BY <1>1, RenderStepInv

LEMMA Step == IInv /\ [Next]_vars => IInv'
  <1> SUFFICES ASSUME IInv, [Next]_vars PROVE IInv'
    OBVIOUS
  <1>0. "ui" \in Threads /\ "game" \in Threads
    BY DEF Threads
  <1>1. CASE ViewCreated \/ PendingSeen \/ ViewResized \/ ViewGone
    BY <1>1, ViewCreatedInv, PendingSeenInv, ViewResizedInv, ViewGoneInv
  <1>2. CASE ViewDestroyed \/ Deliver
    BY <1>2, ViewStep, UiStepInv
  <1>3. CASE InCall("ui") \/ InCall("game")
    BY <1>0, <1>3, CallInv
  <1>4. CASE GameNext
    BY <1>4, GameInvStep
  <1>5. CASE CloseWindow /\ UNCHANGED <<awtVars, platformVars>>
    BY <1>5, WindowStep, LoopStepInv
  <1>6. CASE \E t \in Threads : SpuriousWake(t) /\ UNCHANGED <<awtVars, platformVars>>
    BY <1>6, SpuriousWakeInv
  <1>7. CASE \E r \in Renderers :
                (Render(r) \/ RenderSpurious(r)) /\ UNCHANGED <<glfwVars, platformVars>>
    BY <1>7, RenderMoves, RenderStepInv
  <1>8. CASE UNCHANGED vars
    BY <1>8, Stutter
  <1> QED BY <1>1, <1>2, <1>3, <1>4, <1>5, <1>6, <1>7, <1>8 DEF Next

\* The invariant holds in every state of every program.
THEOREM Invariant == Spec => []IInv
  <1> QED BY Initially, Step, PTL DEF Spec

\* Every variable has its type; in particular no window is released more
\* often than it was acquired, and none is referenced more than four times.
THEOREM TypeCorrect == Spec => []TypeOK
  <1>1. IInv => TypeOK
    BY DEF IInv
  <1> QED BY <1>1, Invariant, PTL

\* The game never draws on a window nobody holds any more, in whatever order
\* the callbacks of the view, the change of the backend and the loop of the
\* game run.
THEOREM DrawnWindowHeld == Spec => []DrawnWindowIsHeld
  <1>1. IInv => DrawnWindowIsHeld
    <2> SUFFICES ASSUME IInv PROVE DrawnWindowIsHeld
      OBVIOUS
    <2>1. nativeWindow # None => refs[nativeWindow] > 0
      BY DEF IInv, TypeOK, RefsInv
    <2>2. target \in Surfaces => refs[target] > 0
      BY DEF IInv, TypeOK, RefsInv
    <2> QED BY <2>1, <2>2 DEF DrawnWindowIsHeld
  <1> QED BY <1>1, Invariant, PTL

\* A surface that comes while setPlatformLibrary replaces the backend is
\* handed to the new one, by the UI thread or by the game, unless the game
\* looked before the store of the UI thread was visible.
THEOREM SurfaceHandedOver == Spec => []SurfaceIsHandedOver
  <1>1. IInv => SurfaceIsHandedOver
    BY DEF IInv, KeptInv, Delivered, InitOver, SurfaceIsHandedOver
  <1> QED BY <1>1, Invariant, PTL

\* In the AWTActivity a render thread lives no longer than the surface it
\* was created for.
THEOREM RendererOnScreen == Spec => []RendererHasScreen
  <1>1. IInv => RendererHasScreen
    BY DEF IInv, RenderInv, RendererHasScreen, Renderers, NoThread
  <1> QED BY <1>1, Invariant, PTL
=============================================================================
