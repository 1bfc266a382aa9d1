# A verification project for NovaLauncher

NovaLauncher is an Android launcher for the Java edition of Minecraft. This
directory models the parts of it where threads, files, servers, surfaces and the
process's own death meet: TLA+ modules, TLC configurations, and theorems whose
proofs TLAPS checks. Everything is translated from the launcher's Java code under
`src/app_pojavlauncher/src/main/java/net/kdt/pojavlaunch/` (below: `…/`), from the
Android backend of its GLFW (`src/glfw/src/`) and from its own native code (`src/app_pojavlauncher/src/main/jni/`).

`PROJECT.json` maps each definition to the lines it stands for and lists runs,
mutants, findings, hazards and theorems.

## 1. The system

| Component | State | Operations | Hard because | Right when |
|---|---|---|---|---|
| Download framework `…/downloader/` | file counter, size counter, exception reference, metadata of each file, files on the storage | `runDownloads`: complete metadata, check, download, retry, check again | three pools and a polling thread share counters; two entries may name one file; servers refuse ranges or send other bytes; the process dies | it returns only with every file verified; it always returns or throws; the counters are exact |
| `ProgressKeeper` `…/progresskeeper/` | table of ongoing tasks, task count listeners | `submitProgress`, `addTaskCountListener`, `waitUntilDone` | check, update and registration are three separate locked steps; listeners call back into the table while it is walked | a waiting runnable runs once, when nothing is left |
| Launch flow `…/LauncherActivity.java`, `…/lifecycle/`, `…/tasks/MoJsonDownloader.java` | activity in front, notification, results posted to the UI thread | launch listener, download, `ContextExecutor`, game start and process kill | the activity comes and goes; tasks start between check and use; messages of several threads share one queue | the game is started once, after the tasks, and never forgotten |
| Accounts `…/authenticator/`, `com/kdt/mcgui/AccountSpinner.java` | the record of logins | refresh after the tasks, login | a refresh waits in `ProgressKeeper` and opens a record from inside it | a login is not cut off |
| Mod icon cache `…/modloaders/modpacks/imagecache/` | icon files, requests, cancelled receivers, the janitor's future and lock | `getImage`, `cancelImage`, read, download, resize, clean up | ten threads, several streams on one file, a `Future.get` inside a lock | every request ends; a cancelled receiver is not called back |
| Rows of the mod search `…/modloaders/modpacks/ModItemAdapter.java` | item, icon, details, future of each ViewHolder | bind, tap, show icon, load and show details | a row is reused while results for its former item are under way | what a row shows and installs is its item's |
| GLFW input queue `src/glfw/src/android_input_queue.c`, event calls of `android_window.c` | two queues, the index of the one that takes events, update flags | push, swap and drain, wait, timed wait, mouse position | no lock between producers and game; the wait tests outside its mutex | events are handled once, in order, and wake the game |
| GLFW surface `android_window.c`, `egl_context.c` | native window and its references, five flags, EGL surface or pbuffer | surface callbacks, window creation, swap, poll, Vulkan surface | the UI thread waits for the game and the game for the UI thread; flags are tested and set under different locks | the game never draws on a window nobody holds; no handshake waits in vain |
| AWT bridge, rendering `awt_window.c`, `awt.c` | render thread, VM connection | begin, end, copy | start and join of a thread that sets its own flag | no thread outlives its surface |
| Platform backends `…/game/platform/Platform.java` | backend in force, pending surface | deliver surfaces, replace the backend | views deliver on the UI thread, the game replaces on its own | no surface is lost between two backends |
| Game metadata `MoJsonDownloader` | list of files of a version | read and merge version JSON, schedule files | inheritance of versions, entries without URL, size or hash | its list is complete |
| ProgressService `…/services/` | foreground service | start, stop, update | counts are read, then acted on later, on another thread | in the foreground exactly while tasks remain |
| Modpack APIs `…/modloaders/modpacks/api/` | search pages, modpack archives | fused search, details, installation | a task waits for tasks on its own executor; records left open on failure | no search hangs; installation closes its record |
| Instances and installers `…/instances/` | instance files, the marker of a running installer | create, select, install, check after the installer | the installer runs in another process; marker, jar and instances are written one by one | an instance gets its version or asks for its installer again |
| ExtraCore, dialogs, runtimes, touch controls, Nova screens, JRE launcher, SDL, GLFW core | see `PROJECT.json` | | mostly sequential, or not the launcher's own | |

How they interact. The launch listener asks `ProgressKeeper` whether tasks are
under way and starts a `MoJsonDownloader`; this opens a record, runs the download
framework, calls `onDownloadDone`, which waits in `ProgressKeeper` until no record
is left, and closes its own record; the runnable posts the start of the game,
which runs in another process and kills the launcher's. Refreshes of the account
wait in the same way and then log in. Modpack installations use the same
framework with files whose metadata comes from CurseForge. The search rows call
the icon cache on the UI thread and get their icons back through it; details are
loaded on the launcher's executor, where the janitor runs too. In the game's
process the view delivers surfaces on the UI thread to whichever backend
`Platform` has in force; the library the game loads puts its own backend there, on
the game's thread, and gets the pending surface. Input goes from the UI thread
and the gamepad through the queue to the game, which polls it between swaps.

## 2. Modules and how they correspond to the code

### FileContents, Downloader

`FileContents` is what a download sees of a file: it exists or not, and each of
its chunks is the published one or not. A chunk is the unit of one write, so a
partial file, a hole between two writers and a corrupted body are sequences of
Booleans. `LengthOf`, `WriteAt`, `WriteAppended` and `Genuine` (the SHA-1 matches)
are all the code asks of files.

`Downloader` is `…/downloader/`. One element of `Downloaders` is one object, used
for one `runDownloads`, as in the code; two of them make a retry by the user.

| Model | Code |
|---|---|
| `runner` | where the thread that calls `runDownloads` is |
| `exception`, `fileCounter`, `sizeCounter`, `useSize` | `mThreadException`, `mDownloadedFileCounter`, `mDownloadedSizeCounter`, `mUseSizeProgress` |
| `meta`, `task`, `transfer` | the `TaskMetadata`, the task and the `DownloadFileTask` of each entry, with the frame of `tryDownload` that waits |
| `insertMetadata`, `performDownloads`, `pollDownloads` | the two phases of `runDownloads` and their loops |
| `acquireMetadata`, `getFileSize`, `getLibrarySha1Hash` | `CompleteMetadataTask` |
| `checkFileOnDisk`, `recheckFileOnDisk` | `CheckFileOnDiskTask` before and after a download: `checkFile` looks at existence and length, `compareSHA1` reads the file one step later |
| `startFile`, `openFile`, `continueFile`, `rangeAnswered`, `copyChunk`, `endOfBody`, `transferFails` | `DownloadFileTask`, `tryContinueDownload` and `copy` |
| `onIOException`, `performRetry` | the retries, with the recursion of `tryDownload`: a refused range starts a chain of retries inside a `try`, whose failure starts another one in the frame outside |
| `kill` | the process dies at any point; files stay, and the stages of completed entries stay as a record of what had been verified, which no action reads |

A pool is a limit on the tasks being worked on; the order in which it takes
queued tasks is left open, which includes the code's. One action is one access
to shared state together with what follows it on the same thread up to the next
one. `awaitTermination` with its 33 or 100 ms is "no task is left, or one is".

The hash of an entry is none, its file's digest, another one (or the empty string,
which decodes as well) or no hexadecimal number. Those of a list are right or
missing; the one of a Maven library is what its server answers, whichever. The
check of a file fails with an IOException for a hash that does not decode and calls
a good file bad for a wrong one, which has it emptied and downloaded anew. The
body of a response is the file, ends early, has other chunks or one chunk more.

Abstractions: speed, text and percentage of the progress line; which bytes a
file has, beyond right or wrong; an acquisition of metadata either fills all
fields, fails or crashes (not half-filled fields). The announced total is the
sum of the sizes in `meta`, and appears in the property that uses it. Attempts
past the last one are one number, `LastAttempt + 1`.

### ProgressKeeper, GameLaunch

`ProgressKeeper` has the operations: `openRecord` and `closeRecord` are `submitProgress`,
one step each since it holds the class lock, with all that the listeners do
meanwhile (`RunRunnables`); `waitUntilDone` is the three steps its locks make of it
(`readCount`, `updateListener`, `addListener`), or `runAtOnce`. A record is there or not. The
listeners of single records only update views and are left out.

`GameLaunch` EXTENDS it with the threads:

| Model | Code |
|---|---|
| `Holders`: `launchGame`, `holderStarts`, `holderReports`, `holderFails`, `holderEnds` | one press of the play button with its `MoJsonDownloader`, which opens the record of game downloads (`GameKey`) and calls `waitUntilDone` before it closes it |
| `Spinners`: `refreshAccount`, `loginReports`, `loginEnds` | one call of `AccountSpinner.refreshAccount` on the UI thread, whose runnable may begin a login, in any order with the listeners behind it |
| `Workers`: `workerStarts`, `workerReports`, `workerEnds` | every other task with a record; `KeyOf` lets two tasks share one, as two installations do |
| `looper` | what was posted to the UI thread: the result of a holder, or `Cancel`, the removal of the notification by `mDoubleLaunchPreventionListener` |
| `resumed`, `execute`, `cancelNotification` | `ContextExecutor` with the activity in front or without, `ContextAwareDoneListener`: the start of the game, the error shown when that start throws (`refused`), or the notification |
| `Alive` | the start of the game kills the process |
| `disturbed`, `superseded` | history: the downloads whose record an overlapping one closed; those since whose result a task was opened, whose `Cancel` takes a notification away |

Two `Cancel`s next to each other are kept as one, since the second changes
nothing. The play button is refused while there are records only. A download opens
its record later, on the executor, so a second press may pass the check too, and
the two downloads share one record: the first that ends closes it under the other
one, which may open it again with its next report of progress, or find no task
left inside `waitUntilDone` and run its runnable there and again as a listener.

### ModIconCache, ModItemAdapter

`ModIconCache` holds the requests of `…/imagecache/`: each goes from the loader pool's
queue through `readFromDisk`, `waitForJanitorToFinish`, `decodeIcon` and perhaps a
download (`downloadFile`, `fetchIcon`, `probeIcon`, `resizeIcon`) with its retries, and
ends `delivered`, `dropped` or `failed`. The class lock of `IconCacheJanitor` is the
variable `janitorLock`, since a request keeps it over several steps. An icon file is
absent, partial, whole or useless (the server's answer was no picture); `writer` says whether the stream of a request is alone on
its file, shares it with another stream, or writes to a deleted file. Half a
picture may decode or not, as in Android. `compressFails` is the copy in its final
size that `compress` could not write, which nobody notices. A RuntimeException of
`createScaledBitmap` ends a pool thread and with it the process; it is no step here.

`ModItemAdapter` EXTENDS it with the rows: `bind` is `setStateLimited` with its
`cancelImage` and `getImage`, `tap` the click listener, `showImage` and `showDetails` the two
runnables on the UI thread, `startLoad`, `askForDetails` and `getModDetails` the task of
`SelfReferencingFuture` on the executor. Handlers on the UI thread are single steps. Of
the views, only the icon and whether the row is unfolded are kept. Any row may be
bound to any item: a ViewHolder that left the screen keeps its item and its
request, which nobody cancels, so two rows may have requests for one icon.

### EventChannel, InputQueue, GlfwEvents

`EventChannel` is the abstract specification: a line of posted events, a game that
polls, and what becomes of a post that overlaps a poll. `InputQueue` is
`android_input_queue.c`, one access to shared memory per action: a push loads
`index`, takes a place by an atomic increment, copies the event, broadcasts; the
game stores the index, reads the total in its loop, handles, clears the total; a
wait tests the total, locks, sleeps. `HandleEvent` alone reads two, the total and the
slot: until the game itself clears the total it only grows, so what the first
read found still holds at the second. `GlfwEvents` adds `android_window.c`: the calls
`glfwPollEvents`, `glfwWaitEvents` and `glfwWaitEventsTimeout`, the mouse position, and
`push_flag_events` before or after the queue. The two coordinates of the mouse are
written, by the one thread that moves it, and read one after the other.

`line`, `late`, `strays` and `last` are history: which events were posted while no
poll ran (a set, each event with the queue and place that are its turn), and how
many callbacks may come out of turn because a post overlapped one. They let the queue be related to the channel without hiding what it does to
a late post: its event may be forgotten, handled twice, or replaced by another.
`Channel == INSTANCE EventChannel WITH` maps places to turns (`Turns <- Places`) and
the pushes' program counters to `begun` and `entered`; `ChannelPromise` is
`Channel!Spec`.

The array holds 512 events and nothing compares an index with that:
`CapacityAssumption` bounds the posts by the capacity, past which the code is
undefined. That the first window exists is assumed too.

### SurfaceThreads, GlfwSurface, AwtRender, Platform

`SurfaceThreads` has the two threads that call into the backends, the UI thread and
the game, each at a label, with the surface of its call and the label to return
to. `GlfwSurface` is `nativeSurfaceCreated` and `nativeSurfaceDestroyed`, the choice between
the native window and a pbuffer (`_glfwManageEglSurfaceAndroid`), swap, poll, windows
opened and closed, and the wait of a Vulkan surface. `AwtRender` is the render thread
and its start and stop. A critical section is one action; an access outside one
is an action of its own; `refs` counts the references of each `ANativeWindow`.
`surfaceOwner` is never reset: after the first window was closed it is a freed one
(`isOwner` is FALSE), and what `Poll` reads there is a free choice, what
`DimensionsKnown` writes there may crash. Waits on condition variables may end
without a broadcast on either side (`SpuriousWake`, `RenderSpurious`).

`Platform` EXTENDS both: the callbacks of the view, `updateSurface` and
`setPlatformLibrary` of `Platform.java`, and who runs (`client`): a GL or Vulkan game, an AWT
program in the GameActivity, or the AWTActivity, which starts with its own
backend and has nothing pending. `mPendingSurface` is a plain static field: what
`updateSurface` stores may be seen by the game's thread only later (`late`,
`PendingSeen`), at the latest with the next callback or the start of the game's
thread, each of which synchronizes; `missed` remembers that the game picked
the pending surface while a store was late and the UI thread had already looked at
the old backend. A surface that died before the game hands it over has no native
window any more (`DeadSurface`). A game initialises its library once: glfwInit
returns at once when it is initialised, and a second initialisation after
glfwTerminate is not modelled. External: Android, which makes, resizes and
takes surfaces one after another, and the game, which polls, swaps, opens and
closes windows in any order.

### MC modules, proofs, mutants

`MCDownloader`, `MCGameLaunch`, `MCModItemAdapter` and `MCGlfwEvents` give the constants
values; `Platform` needs none. The theorems are in `DownloaderTypeProofs`,
`DownloaderProofs`, `DownloaderFilesProofs`, `DownloaderSizeProofs`, `GameLaunchProofs`,
`ModItemAdapterProofs`, `GlfwEventsProofs` and `PlatformProofs`. An operator named `X_Y` beside an operator `X`
is `X` with a plausible bug; each property of a passing run is violated when one
of them takes the place of `X`.

## 3. Runs

| Run | What it shows |
|---|---|
| `downloader_restart` | two downloads one after another on the same files, killed anywhere, with a CurseForge mod whose metadata is acquired and a Maven library listed without size and hash, of which the server tells any digest, rapid start on, two faults. `SizeCounterExact`, `SizeProgressReachesTotal`, `FileCounterExact`, `NoCounterBug`, `DoneMeansVerified`, `VerifiedFilesKept` hold |
| `downloader_shared` | two asset names with one hash, so two threads on one file, starting from files of any length and wrong contents, wrong bodies from the server, three faults for two attempts, so that all attempts may fail and a range may be refused on the last. `RetryLimit` and `DoneMeansVerified` hold, and under fairness `RunsEnd` and `FailuresThrown` |
| `downloader_crash` | violated: `ExceptionsThrown`. A RuntimeException in a pool's task stays in a Future nobody reads, and `performDownloads` polls for ever |
| `game_launch` | two downloads that may overlap on their one record, a refresh, two tasks on one record, an activity that comes and goes, a notification left by an earlier process. `HoldersRunOnce`, `HoldersRunAfterTasks`, `ResultNotForgotten`, `NotificationHidden` hold |
| `game_login` | violated: `HoldersRunWhenIdle`. A refresh begins its login inside the walk over the listeners; the download behind it is still told zero and the game is started, which kills the login |
| `search_rows` | a row is bound, tapped and bound again at any moment, the janitor cleaning a full cache: `ImageOfItem`, `RightFuture`, `WrongDetailsCameLate` hold |
| `search_icons` | below the cache limit and under fairness `IconRequestsEnd` holds for two rows and two requests, also when both write the file of one icon |
| `search_details` | violated: `DetailOfItem`. A cancelled load assigns `mModDetail` of the row's new item |
| `search_janitor` | violated: `JanitorWaitEnds`. `Future.get` inside the lock the janitor needs to end |
| `input_queue` | two producers and a game that polls, waits and waits with a timeout: `TurnsInOrder`, the refinement `ChannelPromise`, and under fairness of the game alone `PostedIsHandled` and `MoveIsReported` hold |
| `input_wait` | violated: `EmptyEventEndsWait`. A push between the test of the total and `pthread_cond_wait` broadcasts to nobody; the game sleeps with an event in its queue |
| `platform_surface` | every client, two surfaces, two windows, a resize: `DrawnWindowIsHeld`, `SurfaceIsHandedOver`, `RendererHasScreen`, and under fairness `HandshakeEnds`, `NewSurfaceIsDrawn`, `ResizeIsTaken`, `StopEnds` hold |

Where a run has `TypeOK`, it is checked too. The five violated properties state what
a comment or a text of the repository says; section `findings` of `PROJECT.json`
quotes it.

### Bounds and why they are enough

- `LastAttempt` is 1 instead of 5. What attempts can do depends on which
  frame of `tryDownload` waits and whether the number equals the last one; with 1
  there are an earlier attempt (0), the last one and a later one.
- Files have one or two chunks: two are needed for a partial file and a hole.
- Pools have one or two threads instead of four (metadata), three (downloads) and
  two or more (checks): no property counts threads, and two are enough for any
  two tasks to overlap.
- Two entries, two objects: each property relates one entry to the
  counters, or two entries to one file, or an object to the one before it.
- `MaxFaults` bounds failures of network and storage. In `downloader_shared` it is 3:
  enough to fail both attempts of an entry and a third one, which the chain of a
  refused range adds or which goes past the last attempt, and to have both
  entries fail. In `downloader_restart`, where kills and answers of servers are not
  faults, it is 2: both attempts of one entry, or a fault in two entries or in two
  downloads.
- Tasks and logins of `GameLaunch` run without a bound on their number; two workers
  on one record, two downloads and a refresh give each property its two
  actors and one in between. Symmetry is over downloads and over refreshes, which
  no property of the run tells apart; the run has no liveness property.
- Rows: what a row shows is asked of one row with two items, two icon requests, so
  two bindings, and two loads; rows share nothing but the cache, and one row's
  futures need two loads to get mixed up. What requests do to each other's files
  is asked of two rows with two requests: of one row or of both, for one icon or two.
- `MaxRetries` is 1 or 2 instead of 5, `LoaderThreads` 1 or 2 instead of 10.
- `Capacity` is 3, `MaxPosts` two for the UI thread and one for the gamepad, `MaxMoves`
  1: three events fill a queue, let a producer have an event in each queue, and
  let one late post overwrite another's place. The game calls for ever.
- `MaxSurfaces` 2 and `MaxWindows` 2: an old and a new one, in every order of coming,
  going and being drawn on. `MaxResizes` is 1: a resize is lost or taken.
  (`platform_surface` passes with three surfaces, too, in some minutes.)

Runs stop with no step left when every download, request, load or post has ended
or the process is gone, so `CHECK_DEADLOCK` is FALSE; what must not hang is stated as
a liveness property instead.

### Fairness

- `Downloader!FairSpec` has weak fairness for the thread of `runDownloads` (`Runner`) and
  for each task of a pool (`Worker`): Java threads that can run do run, and a pool
  takes its queue in order. It says nothing of `insertMetadata` (a user) or `kill`.
  Fairness of a transfer means that a connection goes on, ends or fails: the
  launcher sets a connect timeout, and a server that keeps an open connection
  silent for ever is outside these properties.
- `ModItemAdapter!FairSpec` is the same for the loader threads, the executor, the UI
  thread and the janitor; nobody has to scroll or tap. `IconRequestsEnd` excepts two
  endless stories that no fairness of threads ends: `compress` fails again and
  again, and two requests that are both still wanted (`Rivals`) meet again and again.
- `GlfwEvents!GameSpec` assumes that the game's thread runs on, calls again and
  wakes when signalled or timed out, and nothing of the producers: a half-done
  push must not stop the game. `FairSpec` adds that a begun push ends, which
  `EmptyEventEndsWait` needs to be a fair question.
- `Platform!FairSpec`: the game goes on drawing and polling, a call of the UI thread
  goes on, render threads run. Nothing is assumed of the user, of Android's
  surfaces or of `CloseWindow`, and a thread that sleeps or joins is let go only by
  what it waits for; spurious wake-ups are possible and not fair.

`RunsEnd` lets a run go on for ever once a task was lost to something other than an
IOException: that is the finding of `downloader_crash`, and not one more claim.

## 4. What is proved

TLAPS proves the following for every value of the constants that meets the
assumptions of the modules. Those are about what the code leaves no choice in:

| Assumption | Says | Because |
|---|---|---|
| `DownloaderAssumption` | the list is finite, sizes are positive, entries of one file agree on its size | a `List` of tasks; a hash names one content |
| `GameLaunchAssumption` | threads are told apart; other tasks do not use the record of game downloads, logins have one of their own | only `MoJsonDownloader` reports under `DOWNLOAD_GAME` |
| `ModIconCacheAssumption`, `ModItemAdapterAssumption` | pools and retries are positive; a receiver is not a load | |
| `CapacityAssumption`, `CallsAssumption` | no more events than `events[]` holds; the kinds of call | past the array the code is undefined |
| `MaxSurfacesAssumption`, `MaxWindowsAssumption`, `PlatformAssumption` | there are surfaces and windows; the clients are the four of the model | the bounds are for TLC, the theorems hold for each of them |

### Downloads

- `DownloaderTypeProofs!TypeCorrect`: `TypeOK` of `Downloader`. One step per action; file
  contents stay sequences under `WriteAt` and `WriteAppended`.
- `DownloaderProofs!FileCounterCorrect` and `CounterNeverWrong`: `FileCounterExact` and
  `NoCounterBug`. `FileCounterExact` is not inductive: nothing in it says that metadata
  tasks are over when the second phase starts, or that a completed task is
  never completed again. `CounterInv` says which stages tasks can be in
  for each place of `runner`; a task is then counted in exactly the step in which it
  joins the set of finished ones, so cardinality grows by one. From it, a counter
  at the total means that every entry is finished and so no pool has work left:
  the exception "BUG! The file counter is wrong" is unreachable.
- `DownloaderProofs!RetryLimited`: `RetryLimit`, from an invariant that relates the attempt,
  the waiting frame (`resume`) and whether ranges are still asked for.
- `DownloaderFilesProofs!DoneVerified`: `DoneMeansVerified`, if downloads do not overlap
  (`RetryInProcess = FALSE`) and entries that share a file come with its hash
  (`SharedFilesHashed`, as the objects of an asset index do, which are named for it).
  The property is about objects that are done, and says nothing of what another
  entry, or the next object, may still do to their files. `DiskInv` adds that:
  only one object is at work; metadata stays true to the list (`MetaInv`); a file
  whose hash was looked at is genuine, or another entry for it is between its
  download and its check (`FilesInv`), which ends in a check with the same hash or in
  a failure that keeps the object from being done; and once an object is done
  nobody downloads its verified files, because the next check finds them genuine
  (`GenuineIsNotBad`). Every step of a pool thread is first reduced to one description
  (`FileStep`), so that the invariant is proved once and not for each of them.
- `DownloaderFilesProofs!VerifiedKept`: `VerifiedFilesKept`, if downloads do not overlap and
  each entry has a file of its own (`NoSharedFiles`): what was once compared with
  the hash of its list stays genuine for the object that did it, for every later one
  and after a kill. `KeptInv` adds that nobody is at work on such a file: a
  download begins with a check that calls the file bad, and neither `checkFile` nor
  `compareSHA1` does that to a genuine file whose hash is the list's
  (`GenuineIsNotBad`), while that hash and the size are the list's or unknown
  (`MetaInv`). Of a hash the server was asked for nothing like it holds: a wrong
  digest has a good library downloaded anew, so the property names listed hashes.
- `DownloaderSizeProofs!SizeExact`: `SizeCounterExact`, with no condition on the list or on
  downloads that overlap. The property equates the counter with a sum that
  `MapThenSumSet` picks one element at a time in an order of its own. `SumUp` says
  what such a function is; `SumExists` and `TakeOut` show that it exists and that
  any element may be taken out first, by induction on the cardinality, as an
  induction on sets of natural numbers (`Induction`) that follows from
  the well-foundedness of `<` and needs no operator as parameter. Then the
  sum changes by as much as its one changed term (`OneTermChanges`), and each step of
  a pool thread adds to the counter exactly the difference of its entry
  (`CheckerCounts`, `DownloaderCounts`). `BytesInv` strengthens the property: a task that
  does not download yet has counted nothing, so taking it from the queue, which
  makes its contribution zero, loses nothing.
- `DownloaderSizeProofs!SizeReachesTotal`: `SizeProgressReachesTotal`, if downloads do not
  overlap and each entry has a file of its own. `AnnouncedInv` adds that the bytes of a
  download are the length of its file until the check that compares that length
  with the size (`LengthInv`), and that a size is known wherever the counter is still
  used (`KnownInv`), also when an acquisition is lost on the way. Both conditions are
  needed: two tasks on one file count each other's chunks (TLC shows it on the
  instance of `downloader_shared`), and only the progress shown is wrong then.

### Launch

- `GameLaunchProofs!RunsOnce`, `RunsAfterTasks`, `NothingForgotten` and `NotificationGoes`:
  `HoldersRunOnce`, `HoldersRunAfterTasks`, `ResultNotForgotten` and `NotificationHidden`, all from
  `LaunchInvariant`. Its `IInv` is `TypeOK`, `HolderInv` and `NotificationInv`. `HolderInv`:
  the record is open from `holderStarts` to `holderEnds` for a download that no other
  one disturbed, so its `readCount` never finds zero, its first update never runs
  the runnable, and its listener is in the list exactly once before zero can
  occur; a listener that ran is out of it; what was posted is queued or executed.
  Of a disturbed download the invariant keeps less (`AtLeastOnce`): its runnable ran
  or its listener still waits. `NotificationInv`: while tasks go on
  and a notification is shown or may still come out of the queue, there is a
  `Cancel` with no result behind it. `NotificationHidden` alone is not inductive, as
  a result queued behind the last `Cancel` would show a notification for good; that
  it cannot be there follows from results being posted at zero tasks and the
  next task posting a `Cancel`. The other direction is `Fresh`: while no task was opened since
  a result was posted, nothing in the queue takes its notification away.

### Rows of the mod search

- `ModItemAdapterProofs!TypeCorrect`, `IconIsOfItem`, `FutureIsRight` and `OnlyLateDetailsAreWrong`:
  `TypeOK`, `ImageOfItem`, `RightFuture` and `WrongDetailsCameLate`. What a row shows is right
  because a request that nobody cancelled is the one its row waits for
  (`LiveRequest`), and that one has the tag of the row's item (`Received`); likewise a
  load that was not interrupted has the item of its row (`LoadOfItem`). The two chains
  are kept by `bind`, which cancels before it forgets. The proof shows where the
  chain of the details ends: `getModDetails` of an interrupted load.

### Input queue

- `GlfwEventsProofs!TypeCorrect`, `InOrder`: `TypeOK` and `TurnsInOrder`. `TypeOK` contains that
  no push runs past the array; `TotalInv` gives it: both totals together are at most
  the events that took a place, whatever a late push adds to a queue that was or
  was not cleared. `TurnsInOrder` needs that a push that overlaps no poll has a place of
  its own in the queue that takes events (`PlaceInv`), and that each event of the
  line is in its slot or about to be copied there (`TurnInv`).
- `GlfwEventsProofs!KeepsPromise`: `ChannelPromise`, the queue implements the channel.
  Each step of a push, a poll or a wait is a step of `EventChannel` or a stutter; a
  callback is `HandleNext` if the place has a turn and `HandleStray` if not. That
  `strays` suffice is the hard part: `StrayInv` counts the places without a turn that
  are still to be handled, and the late pushes that will take one.

### Surfaces

- `PlatformProofs!TypeCorrect`, `DrawnWindowHeld`, `SurfaceHandedOver` and `RendererOnScreen`:
  `TypeOK`, `DrawnWindowIsHeld`, `SurfaceIsHandedOver` and `RendererHasScreen`. The invariant
  says which labels each thread can be at under each client and backend (`BackendInv`, `UiInv`, `GameInv`),
  and from that where the references are (`RefsInv`): each thread hands over a surface
  once, for two references; the window in use holds both but for the moment between
  release and assignment; a window that was ever drawn on keeps one, which is why
  a late swap is harmless. `KeptInv` is the argument of two threads that each store
  and then look: once the UI thread has delivered the surface of the screen, that
  surface has a reference or the game is about to pick or hand over that very one.
  `RenderInv` does the same for the render threads.

TLC checked each inductive invariant on small instances before it was proved.

Only model-checked: liveness (`RunsEnd`, `FailuresThrown`, `IconRequestsEnd`, `PostedIsHandled`,
`MoveIsReported` and `HandshakeEnds`, `NewSurfaceIsDrawn`, `ResizeIsTaken`, `StopEnds`), since
fairness and ENABLED are out of the prover's reach. Every invariant and every other
action property or refinement the passing runs check is proved.

### Known, and outside the properties

- A second download in the same process while the pools a failed one left behind
  still write (`RetryInProcess`) can return with a file that is rewritten
  meanwhile. The runs, `DoneVerified`, `VerifiedKept` and `SizeReachesTotal` leave it
  out; `FileCounterCorrect`, `RetryLimited` and `SizeExact` are proved with it.
- A task that is refused a range on its last attempt may go on past it until the
  stack ends, and one that meets a RuntimeException is lost: `performDownloads`
  polls for ever then, which `RunsEnd` excepts.
- A server that answers with a wrong digest for a library has a good file emptied
  and downloaded anew, and the download fails.
- Two downloads that overlap on their one record (a second press before the first
  one has opened it) may post a result twice, or while other tasks go on.
- Two rows with requests for one icon may empty each other's file for ever, and so
  may one request whose resized copy is never written completely.
- A pending surface that is gone when the game hands it over has no native window,
  which crashes the game, or has one still and displaces the newer surface of the
  view: the game draws on it until the view gets another. A surface whose store the
  game did not see in time is handed over by nobody (`missed`).
- A signal of the game before the UI thread waits, a shutdown before the first line
  of a render thread, a flag raised inside `push_flag_events`: the conditions of
  `HandshakeEnds`, `StopEnds` and `MoveIsReported` name them.
- A login is not a task that the start of the game waits for if it begins in the
  same walk: the `LoginKey` in `HoldersRunAfterTasks` and `NotificationHidden`.

## 5. Not modelled, and the plan

What the plan has left, in this order:

1. An abstract `VerifiedDownload` (files become genuine one by one; a download is
   done when all are, or fails), and `Downloader` shown to implement it.
2. `InstanceInstaller` with `ModpackInstaller`: marker, jar, profile and instance files
   over the deaths of the launcher's and the installer's process, and the
   installation's record in `ProgressKeeper`.
3. The fused search (`CommonApi.searchMod` with `SearchApiTask`): cancellation, pages,
   tasks that wait on their own executor.
4. `LifecycleAwareAlertDialog` and the inheritance of version JSON as a pure
   function, if they turn out to have more to say than a test.

`ProgressService` is two small handlers over `ProgressKeeper` and Android's service
manager. Its races are in the hazards; how a start that meets a stop ends is up
to Android, not to this repository.

Not planned: touch controls and gamepads (views and input translation on the UI
thread), runtimes (unpacking of archives), requests to the account servers, the
Nova screens (independent dialogs over files and preferences), the JRE launcher (a
straight line of calls), and the bundled libraries. Among these SDL alone is some
700000 lines and the GLFW core several tens of thousands: by lines nearly all of
the repository's C code is not the launcher's, and the modules cover the part of
it that is.
