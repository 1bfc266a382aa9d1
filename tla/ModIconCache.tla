---------------------------- MODULE ModIconCache ----------------------------
(***************************************************************************)
(* The icon cache of the mod search: a pool of loader threads that read    *)
(* icons from the storage or download them there first, and the janitor    *)
(* that deletes icons when the cache has grown too large.                  *)
(*                                                                         *)
(* Who asks for icons and cancels them is left to a module that extends    *)
(* this one, as ModItemAdapter does.                                       *)
(*                                                                         *)
(* A request is named by its ImageReceiver: every getImage gets a new one. *)
(* The icon of a tag is one picture of one URL, so a file is told apart    *)
(* only by whether it is whole, or whole and something that never decodes: *)
(* an SVG, a page that came instead.  The cache directory can be written   *)
(* to and holds no directory under an icon's name.  A RuntimeException of  *)
(* a loader thread, like that of createScaledBitmap for a picture whose    *)
(* shorter side would shrink to nothing, ends the process: no step.        *)
(***************************************************************************)
EXTENDS Naturals, FiniteSets

CONSTANTS
    Receivers,      \* ImageReceivers, each given to one getImage
    Tags,           \* cache tags
    LoaderThreads,  \* the size of cacheLoaderPool: 10
    MaxRetries,     \* downloads DownloadImageTask tries: 5
    CacheFull,      \* are there CACHE_SIZE_LIMIT bytes when the janitor looks?
    None            \* neither a receiver nor a tag

ASSUME ModIconCacheAssumption ==
    /\ LoaderThreads \in Nat \ {0} /\ MaxRetries \in Nat \ {0}
    /\ CacheFull \in BOOLEAN
    /\ None \notin Receivers \cup Tags

VARIABLES
    icons,      \* [Tags -> the file of each tag]
    request,    \* the stage of each receiver's request
    tag,        \* the tag each receiver asked for
    retries,    \* mRetryCount of its DownloadImageTask
    writer,     \* who else has the file of its output stream open
    cancelled,  \* mCancelledReceivers
    janitor,    \* where the janitor's task is
    janitorFuture,  \* sJanitorFuture # null
    janitorRan,     \* sJanitorRan
    janitorLock     \* the receiver whose request holds the class lock, or None

janitorVars == <<janitor, janitorFuture, janitorRan, janitorLock>>
cacheVars == <<icons, request, tag, retries, writer, cancelled, janitorVars>>

Icon == {"absent", "partial", "whole", "useless"}
Reading == {"readWaits", "readHolds", "decoding"}
Downloading == {"downloadWaits", "downloadHolds", "opening", "fetching", "probing", "resizing"}
Holding == {"readHolds", "downloadHolds"}   \* in Future.get, the lock held
Writing == {"fetching", "resizing"}
Ended == {"delivered", "dropped", "failed"}
RequestStages == {"none", "readQueued", "downloadQueued", "posted"}
                 \cup Reading \cup Downloading \cup Ended
Janitor == {"idle", "queued", "cleaning", "finishing", "finished"}

CacheInit ==
    /\ icons \in [Tags -> Icon]
    /\ request = [r \in Receivers |-> "none"]
    /\ tag = [r \in Receivers |-> None]
    /\ retries = [r \in Receivers |-> 0]
    /\ writer = [r \in Receivers |-> "sole"]
    /\ cancelled = {}
    /\ janitor = "idle" /\ janitorFuture = FALSE /\ janitorRan = FALSE
    /\ janitorLock = None

-----------------------------------------------------------------------------
Go(r, stage) == request' = [request EXCEPT ![r] = stage]

\* The task of r ends its work on this thread: an uncancelled request is
\* queued again, a cancelled one is given up.
QueueUnlessCancelled_Always(r, stage) == Go(r, stage)
QueueUnlessCancelled(r, stage) == Go(r, IF r \in cancelled THEN "dropped" ELSE stage)

\* getImage of an unused receiver: the tag is chosen by the caller.
getImage(r, t) ==
    /\ request' = [request EXCEPT ![r] = "readQueued"]
    /\ tag' = [tag EXCEPT ![r] = t]

\* A thread of cacheLoaderPool takes a queued task.
TakeRequest(r, from, to) ==
    /\ request[r] = from
    /\ Cardinality({q \in Receivers : request[q] \in Reading \cup Downloading}) < LoaderThreads
    /\ Go(r, to)

\* ReadFromDiskTask.run: a file that is there is read, another is downloaded.
readFromDisk(r) ==
    /\ TakeRequest(r, "readQueued",
                   CASE icons[tag[r]] # "absent" -> "readWaits"
                     [] icons[tag[r]] = "absent" /\ r \in cancelled -> "dropped"
                     [] OTHER -> "downloadQueued")
    /\ UNCHANGED <<icons, tag, retries, writer, cancelled, janitorVars>>

\* DownloadImageTask.run begins.
downloadImage(r) ==
    /\ TakeRequest(r, "downloadQueued", "downloadWaits")
    /\ retries' = [retries EXCEPT ![r] = 0]
    /\ UNCHANGED <<icons, tag, writer, cancelled, janitorVars>>

\* waitForJanitorToFinish enters its synchronized block and, if there is a
\* janitor, stays in it until the janitor's Future is done.
waitForJanitorToFinish(r) ==
    /\ \/ /\ request[r] \in {"readWaits", "downloadWaits"}
          /\ janitorLock = None
          /\ IF janitorFuture
             THEN /\ janitorLock' = r
                  /\ Go(r, IF request[r] = "readWaits" THEN "readHolds" ELSE "downloadHolds")
             ELSE /\ Go(r, IF request[r] = "readWaits" THEN "decoding" ELSE "opening")
                  /\ UNCHANGED janitorLock
       \/ /\ request[r] \in Holding
          /\ janitor = "finished"
          /\ janitorLock' = None
          /\ Go(r, IF request[r] = "readHolds" THEN "decoding" ELSE "opening")
    /\ UNCHANGED <<icons, tag, retries, writer, cancelled, janitor, janitorFuture, janitorRan>>

\* BitmapFactory.decodeFile: of half a file it makes a bitmap or null.
Decodes(t) == icons[t] \in {"partial", "whole"}
DecodeFails(t) == icons[t] \in {"absent", "partial", "useless"}

\* The bitmap is posted to the UI thread; without one the icon is downloaded.
decodeIcon(r) ==
    /\ request[r] = "decoding"
    /\ \/ Decodes(tag[r]) /\ Go(r, "posted")
       \/ DecodeFails(tag[r]) /\ QueueUnlessCancelled(r, "downloadQueued")
    /\ UNCHANGED <<icons, tag, retries, writer, cancelled, janitorVars>>

\* The while loop of DownloadImageTask.run after runCatching returned false.
retryDownload_OneMore(r) ==
    /\ retries' = [retries EXCEPT ![r] = @ + 1]
    /\ Go(r, IF retries[r] <= MaxRetries THEN "downloadWaits" ELSE "failed")
retryDownload(r) ==
    /\ retries' = [retries EXCEPT ![r] = @ + 1]
    /\ Go(r, IF retries[r] + 1 < MaxRetries THEN "downloadWaits" ELSE "failed")

\* new FileOutputStream(cacheFile) empties the file; two streams open on it at
\* the same time share it.
openIcon(r, stage) ==
    LET others == {q \in Receivers \ {r} : /\ request[q] \in Writing /\ tag[q] = tag[r]
                                           /\ writer[q] # "unlinked"}
    IN  /\ icons' = [icons EXCEPT ![tag[r]] = "partial"]
        /\ writer' = [q \in Receivers |->
               IF q \in others \/ (q = r /\ others # {}) THEN "shared"
               ELSE IF q = r THEN "sole" ELSE writer[q]]
        /\ Go(r, stage)

downloadFile(r) ==
    /\ request[r] = "opening"
    /\ openIcon(r, "fetching")
    /\ UNCHANGED <<tag, retries, cancelled, janitorVars>>

\* What a write of one of the contents leaves: nothing at the path if the file
\* was deleted meanwhile, anything if another stream wrote to it, too.
WriteIcon(r, contents) ==
    icons' \in {[icons EXCEPT ![tag[r]] = icon] : icon \in
                   CASE writer[r] = "sole" -> contents
                     [] writer[r] = "shared" -> Icon \ {"absent"}
                     [] writer[r] = "unlinked" -> {icons[tag[r]]}}

\* The body of runCatching around the download and the resized copy; an
\* IOException in either makes it return false.
fetchIcon(r) ==
    /\ request[r] = "fetching"
    /\ \/ WriteIcon(r, {"whole", "useless"}) /\ Go(r, "probing") /\ UNCHANGED retries
       \/ retryDownload(r) /\ UNCHANGED icons
    /\ UNCHANGED <<tag, writer, cancelled, janitorVars>>

\* The downloaded icon is decoded: it is useless, good as it is, or too large
\* and written again.
probeIcon(r) ==
    /\ request[r] = "probing"
    /\ \/ DecodeFails(tag[r]) /\ retryDownload(r) /\ UNCHANGED <<icons, writer>>
       \/ /\ Decodes(tag[r])
          /\ QueueUnlessCancelled(r, "readQueued")
          /\ UNCHANGED <<icons, writer, retries>>
       \/ Decodes(tag[r]) /\ openIcon(r, "resizing") /\ UNCHANGED retries
    /\ UNCHANGED <<tag, cancelled, janitorVars>>

resizeIcon(r) ==
    /\ request[r] = "resizing"
    /\ \/ WriteIcon(r, {"whole"}) /\ QueueUnlessCancelled(r, "readQueued") /\ UNCHANGED retries
       \/ retryDownload(r) /\ UNCHANGED icons
    /\ UNCHANGED <<tag, writer, cancelled, janitorVars>>

\* compress answers false when it cannot write on; nobody looks at it.
compressFails(r) ==
    /\ request[r] = "resizing"
    /\ WriteIcon(r, {"partial"}) /\ QueueUnlessCancelled(r, "readQueued")
    /\ UNCHANGED <<tag, retries, writer, cancelled, janitorVars>>

deliverImage_Unchecked(r) == Go(r, "delivered")
\* The runnable of ReadFromDiskTask on the UI thread asks once more whether
\* the receiver was cancelled.
deliverImage(r) == Go(r, IF r \in cancelled THEN "dropped" ELSE "delivered")

Load(r) ==
    \/ readFromDisk(r) \/ downloadImage(r) \/ waitForJanitorToFinish(r) \/ decodeIcon(r)
    \/ downloadFile(r) \/ fetchIcon(r) \/ probeIcon(r) \/ resizeIcon(r) \/ compressFails(r)

-----------------------------------------------------------------------------
(* IconCacheJanitor.                                                       *)

\* runJanitor of LauncherActivity.onCreate, on the launcher's executor.
runJanitor ==
    /\ janitorLock = None
    /\ ~janitorFuture /\ ~janitorRan
    /\ janitorFuture' = TRUE
    /\ janitor' = "queued"
    /\ UNCHANGED <<icons, request, tag, retries, writer, cancelled, janitorRan, janitorLock>>

\* run measures the cache.  With little in it, it returns at once and leaves
\* sJanitorFuture and sJanitorRan as they are.
measureCache ==
    /\ janitor = "queued"
    /\ janitor' = IF CacheFull THEN "cleaning" ELSE "finished"
    /\ UNCHANGED <<icons, request, tag, retries, writer, cancelled,
                   janitorFuture, janitorRan, janitorLock>>

\* Which icons are deleted depends on their sizes and on the order the
\* directory lists them in.  A stream that is open on one writes to no path.
cleanUp ==
    /\ janitor = "cleaning"
    /\ \E deleted \in SUBSET Tags :
          /\ icons' = [t \in Tags |-> IF t \in deleted THEN "absent" ELSE icons[t]]
          /\ writer' = [r \in Receivers |->
                 IF tag[r] \in deleted /\ request[r] \in Writing THEN "unlinked" ELSE writer[r]]
    /\ janitor' = "finishing"
    /\ UNCHANGED <<request, tag, retries, cancelled, janitorFuture, janitorRan, janitorLock>>

finishJanitor ==
    /\ janitor = "finishing"
    /\ janitorLock = None
    /\ janitorFuture' = FALSE
    /\ janitorRan' = TRUE
    /\ janitor' = "finished"
    /\ UNCHANGED <<icons, request, tag, retries, writer, cancelled, janitorLock>>

JanitorTask == measureCache \/ cleanUp \/ finishJanitor

-----------------------------------------------------------------------------
(* Properties.                                                             *)

\* Every variable has its type.
CacheTypeOK ==
    /\ icons \in [Tags -> Icon]
    /\ request \in [Receivers -> RequestStages]
    /\ tag \in [Receivers -> Tags \cup {None}]
    /\ retries \in [Receivers -> 0..MaxRetries]
    /\ writer \in [Receivers -> {"sole", "shared", "unlinked"}]
    /\ cancelled \subseteq Receivers
    /\ janitor \in Janitor
    /\ janitorFuture \in BOOLEAN /\ janitorRan \in BOOLEAN
    /\ janitorLock \in Receivers \cup {None}

\* IconCacheJanitor.waitForJanitorToFinish: "Waits for the janitor task to
\* finish, if there is one running already": a request that waits inside
\* goes on some time.
JanitorWaitEnds == \A r \in Receivers : request[r] \in Holding ~> request[r] \notin Holding
=============================================================================
