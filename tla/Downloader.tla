----------------------------- MODULE Downloader -----------------------------
(***************************************************************************)
(* The download framework of net.kdt.pojavlaunch.downloader, the base of   *)
(* the game, CurseForge and Modrinth downloads.                            *)
(*                                                                         *)
(* One Downloader object runs runDownloads once: it completes the metadata *)
(* of its list on one pool, then checks every file on a second pool,       *)
(* downloads the missing ones on a third and checks them again, while its  *)
(* own thread polls a counter and an exception reference.  Objects follow  *)
(* one another on the same files: the user presses "Play" again after a    *)
(* failure, in the same process or in a new one.                           *)
(*                                                                         *)
(* A pool and its queue are the stages of its tasks and a limit on those   *)
(* being worked on; in which order queued tasks are taken is left open.    *)
(***************************************************************************)
EXTENDS FileContents, FiniteSets, FiniteSetsExt

CONSTANTS
    Downloaders,      \* Downloader objects, each used for one runDownloads
    Elements,         \* entries of the list given to runDownloads
    PathOf,           \* [Elements -> paths]: two entries may share a file
    SizeOf,           \* [Elements -> length of the published file, in chunks]
    Listing,          \* [Elements -> what the list knows of the entry]
    VerifyFiles,      \* LauncherPreferences.PREF_VERIFY_FILES
    RapidStart,       \* LauncherPreferences.PREF_RAPID_START
    MetadataThreads, VerifyThreads, DownloadThreads,   \* the sizes of the pools
    LastAttempt,      \* the attempt whose IOException is rethrown: 5
    InitialFiles,     \* what an earlier process may have left at a path
    RetryInProcess,   \* may a new download start while old tasks still run?
    BadBodies,        \* may a server answer with other bytes than published?
    MayKill,          \* may the process be killed?
    MaxFaults         \* bound: network and storage failures in a behaviour

NoResume == -1        \* no frame of tryDownload waits inside its try block
Unknown == -1         \* TaskMetadata.size of a file of unknown length

\* AcquireableTaskMetadata; mirrorType = DOWNLOAD_CLASS_LIBRARIES; non-null URL,
\* size and SHA-1 given.
ListingEntry == [acquire : BOOLEAN, library : BOOLEAN,
                 url : BOOLEAN, sized : BOOLEAN, hashed : BOOLEAN]

ASSUME DownloaderAssumption ==
    /\ IsFiniteSet(Elements)
    /\ SizeOf \in [Elements -> Nat \ {0}]
    /\ Listing \in [Elements -> ListingEntry]
    /\ DOMAIN PathOf = Elements
    /\ \A e, f \in Elements : PathOf[e] = PathOf[f] => SizeOf[e] = SizeOf[f]
    /\ {VerifyFiles, RapidStart, RetryInProcess, BadBodies, MayKill} \subseteq BOOLEAN
    /\ {MetadataThreads, VerifyThreads, DownloadThreads} \subseteq Nat \ {0}
    /\ LastAttempt \in Nat /\ MaxFaults \in Nat
    /\ InitialFiles \subseteq File

VARIABLES
    disk,         \* [Paths -> File]
    runner,       \* where each object's runDownloads is
    exception,    \* mThreadException # null
    fileCounter,  \* mDownloadedFileCounter
    sizeCounter,  \* mDownloadedSizeCounter
    useSize,      \* mUseSizeProgress
    meta,         \* the TaskMetadata of each entry
    task,         \* the stage of the task working on each entry
    transfer,     \* the DownloadFileTask of each entry
    faults        \* failures so far, bounded by MaxFaults

objectVars == <<exception, fileCounter, sizeCounter, useSize>>
vars == <<disk, runner, objectVars, meta, task, transfer, faults>>

Paths == {PathOf[e] : e \in Elements}

\* sha1Hash: null, the file's digest, another digest (or the empty string,
\* which decodes as well), or something that is not a hexadecimal number.
Hash == {"none", "right", "wrong", "garbage"}
Metadata == [path : BOOLEAN, url : BOOLEAN, size : Int, hash : Hash]

MetadataWork == {"acquiring", "sizing", "hashing"}
VerifyWork == {"checking", "comparing", "rechecking", "recomparing"}
DownloadWork == {"trying", "opening", "connecting", "copying"}
InFlight == MetadataWork \cup VerifyWork \cup DownloadWork
            \cup {"metaQueued", "checkQueued", "downloadQueued", "recheckQueued"}
Completed == {"present", "downloaded"}
Stages == InFlight \cup Completed
          \cup {"unsubmitted", "metaDone", "failed", "crashed", "killed"}
Running == {"inserting", "closing", "downloading", "awaiting"}

\* mBytesDownloaded, the arguments of tryDownload, the attempt of the frame
\* whose try block called performRetry, and the open stream.
Transfer == [bytes : Nat, attempt : Nat, ranged : BOOLEAN,
             resume : Nat \cup {NoResume}, pos : Nat, append : BOOLEAN]
NewTransfer == [bytes |-> 0, attempt |-> 0, ranged |-> TRUE,
                resume |-> NoResume, pos |-> 1, append |-> FALSE]

-----------------------------------------------------------------------------
FileOf(e) == disk[PathOf[e]]

InitialMetadata(e) ==
    IF Listing[e].acquire
    THEN [path |-> FALSE, url |-> FALSE, size |-> 0, hash |-> "none"]
    ELSE [path |-> TRUE, url |-> Listing[e].url,
          size |-> IF Listing[e].sized THEN SizeOf[e] ELSE Unknown,
          hash |-> IF Listing[e].hashed THEN "right" ELSE "none"]

shouldCompleteMetadata(e) ==
    Listing[e].acquire \/ (~Listing[e].hashed /\ Listing[e].library) \/ ~Listing[e].sized

MoveTo(d, e, stage) == task' = [task EXCEPT ![d][e] = stage]

\* No task of the object is queued or being worked on.
Terminated(d) == \A e \in Elements : task[d][e] \notin InFlight

Fault == faults < MaxFaults /\ faults' = faults + 1

\* An operator named X_Y is a mutant of the operator X: X with a plausible
\* bug, which a run must notice.
fileComplete_Down(d) == fileCounter' = [fileCounter EXCEPT ![d] = @ - 1]
fileComplete(d) == fileCounter' = [fileCounter EXCEPT ![d] = @ + 1]
addSize(d, n) == sizeCounter' = [sizeCounter EXCEPT ![d] = @ + n]
taskException_Null(d) == exception' = [exception EXCEPT ![d] = FALSE]
taskException(d) == exception' = [exception EXCEPT ![d] = TRUE]

Init ==
    /\ disk \in [Paths -> InitialFiles]
    /\ runner = [d \in Downloaders |-> "idle"]
    /\ exception = [d \in Downloaders |-> FALSE]
    /\ fileCounter = [d \in Downloaders |-> 0]
    /\ sizeCounter = [d \in Downloaders |-> 0]
    /\ useSize = [d \in Downloaders |-> TRUE]
    /\ meta = [d \in Downloaders |-> [e \in Elements |-> InitialMetadata(e)]]
    /\ task = [d \in Downloaders |-> [e \in Elements |-> "unsubmitted"]]
    /\ transfer = [d \in Downloaders |-> [e \in Elements |-> NewTransfer]]
    /\ faults = 0

-----------------------------------------------------------------------------
(* The thread that calls runDownloads.                                     *)

RunnerMoves(d, from, to) ==
    /\ runner[d] = from
    /\ runner' = [runner EXCEPT ![d] = to]
    /\ UNCHANGED <<disk, useSize, meta, transfer, faults>>

\* Both phases start by clearing the exception and the file counter.
Submit(d, stages) ==
    /\ exception' = [exception EXCEPT ![d] = FALSE]
    /\ fileCounter' = [fileCounter EXCEPT ![d] = 0]
    /\ task' = [task EXCEPT ![d] = stages]

\* Callers look for ongoing tasks before they start a download.  The pools of
\* an earlier object may still work: performDownloads leaves them when it throws.
insertMetadata(d) ==
    /\ \A c \in Downloaders : runner[c] \notin Running
    /\ RetryInProcess \/ \A c \in Downloaders : Terminated(c)
    /\ RunnerMoves(d, "idle", "inserting")
    /\ Submit(d, [e \in Elements |->
           IF shouldCompleteMetadata(e) THEN "metaQueued" ELSE "unsubmitted"])
    /\ UNCHANGED sizeCounter

\* The metadata loop finds an exception, which the last task may have set
\* after awaitTermination answered false; leaving the try-with-resources
\* closes the pool, which waits for its tasks.
insertMetadataThrows(d) ==
    /\ \/ exception[d] /\ RunnerMoves(d, "inserting", "closing")
       \/ Terminated(d) /\ RunnerMoves(d, "closing", "thrown")
    /\ UNCHANGED <<objectVars, task>>

\* awaitTermination answers true: insertMetadata returns, whatever the
\* exception reference holds, and performDownloads clears it.
performDownloads_NoCheck(d) ==
    /\ Terminated(d)
    /\ RunnerMoves(d, "inserting", "downloading")
    /\ Submit(d, [e \in Elements |-> "downloadQueued"])
    /\ sizeCounter' = [sizeCounter EXCEPT ![d] = 0]

performDownloads(d) ==
    /\ Terminated(d)
    /\ RunnerMoves(d, "inserting", "downloading")
    /\ Submit(d, [e \in Elements |-> "checkQueued"])
    /\ sizeCounter' = [sizeCounter EXCEPT ![d] = 0]

\* The polling loop, the shutdown of the pools and the wait for them, which
\* throws "BUG! The file counter is wrong" if a pool still has work.
pollDownloads(d) ==
    /\ \/ /\ fileCounter[d] < Cardinality(Elements)
          /\ exception[d]
          /\ RunnerMoves(d, "downloading", "thrown")
       \/ /\ fileCounter[d] >= Cardinality(Elements)
          /\ RunnerMoves(d, "downloading", "awaiting")
       \/ RunnerMoves(d, "awaiting", IF Terminated(d) THEN "done" ELSE "bug")
    /\ UNCHANGED <<objectVars, task>>

-----------------------------------------------------------------------------
(* The pools take tasks from their queues.                                 *)

TakeTask(d, e, from, to, work, threads) ==
    /\ task[d][e] = from
    /\ Cardinality({f \in Elements : task[d][f] \in work}) < threads
    /\ MoveTo(d, e, to)
    /\ UNCHANGED <<disk, runner, objectVars, meta, transfer, faults>>

takeTask(d, e) ==
    \/ TakeTask(d, e, "metaQueued", IF Listing[e].acquire THEN "acquiring" ELSE "sizing",
                MetadataWork, MetadataThreads)
    \/ TakeTask(d, e, "checkQueued", "checking", VerifyWork, VerifyThreads)
    \/ TakeTask(d, e, "recheckQueued", "rechecking", VerifyWork, VerifyThreads)
    \/ TakeTask(d, e, "downloadQueued", "trying", DownloadWork, DownloadThreads)

-----------------------------------------------------------------------------
(* CompleteMetadataTask.                                                   *)

\* acquireMetadata of the CurseForge downloader: all fields, an IOException,
\* or a RuntimeException that the pool's Future keeps and nobody reads.
acquireMetadata(d, e) ==
    /\ task[d][e] = "acquiring"
    /\ \/ /\ meta' = [meta EXCEPT ![d][e] =
                 [path |-> TRUE, url |-> TRUE, size |-> SizeOf[e],
                  hash |-> IF Listing[e].hashed THEN "right" ELSE "none"]]
          /\ MoveTo(d, e, "sizing")
          /\ UNCHANGED <<exception, faults>>
       \/ Fault /\ taskException(d) /\ MoveTo(d, e, "failed") /\ UNCHANGED meta
       \/ Fault /\ MoveTo(d, e, "crashed") /\ UNCHANGED <<meta, exception>>
    /\ UNCHANGED <<disk, runner, fileCounter, sizeCounter, useSize, transfer>>

\* getFileSize: an IOException is only logged and a server need not tell.
getFileSize(d, e) ==
    /\ task[d][e] = "sizing"
    /\ IF meta[d][e].url /\ meta[d][e].size = Unknown
       THEN \E size \in {Unknown, SizeOf[e]} : meta' = [meta EXCEPT ![d][e].size = size]
       ELSE UNCHANGED meta
    /\ MoveTo(d, e, "hashing")
    /\ UNCHANGED <<disk, runner, objectVars, transfer, faults>>

wantsLibraryHash(d, e) ==
    /\ meta[d][e].url /\ meta[d][e].hash = "none"
    /\ Listing[e].library
    /\ VerifyFiles
    /\ ~(RapidStart /\ meta[d][e].size # Unknown
                    /\ LengthOf(FileOf(e)) = meta[d][e].size)

disableSizeCounter_Never(d, e) == UNCHANGED useSize
disableSizeCounter(d, e) ==
    useSize' = [useSize EXCEPT ![d] = @ /\ meta[d][e].size # Unknown]

\* getLibrarySha1Hash and the end of performTask.  What the server answers
\* for the ".sha1" is stored as it comes: the file's digest, another one, an
\* empty body or no digest at all; without an answer there is no hash.
getLibrarySha1Hash(d, e) ==
    /\ task[d][e] = "hashing"
    /\ IF wantsLibraryHash(d, e)
       THEN \E hash \in Hash : meta' = [meta EXCEPT ![d][e].hash = hash]
       ELSE UNCHANGED meta
    /\ disableSizeCounter(d, e)
    /\ fileComplete(d)
    /\ MoveTo(d, e, "metaDone")
    /\ UNCHANGED <<disk, runner, exception, sizeCounter, transfer, faults>>

-----------------------------------------------------------------------------
(* CheckFileOnDiskTask.                                                    *)

\* checkFile up to the hash: what is known of the entry may decide already.
checkFile(d, e, afterDownload) ==
    LET file == FileOf(e)
        size == meta[d][e].size
    IN  IF ~file.exists THEN "bad"
        ELSE IF ~VerifyFiles THEN "good"
        ELSE IF size # Unknown /\ LengthOf(file) # size THEN "bad"
        ELSE IF size # Unknown /\ RapidStart /\ ~afterDownload THEN "good"
        ELSE IF meta[d][e].hash = "none" THEN "good" ELSE "compare"

\* The length alone makes a file good.
compareSHA1_LengthOnly(d, e) == IF LengthOf(FileOf(e)) = SizeOf[e] THEN "good" ELSE "bad"

\* "throws" is the IOException of a hash that is not a hexadecimal number.
compareSHA1(d, e) ==
    CASE meta[d][e].hash = "garbage" -> "throws"
      [] meta[d][e].hash = "right" /\ Genuine(FileOf(e), SizeOf[e]) -> "good"
      [] OTHER -> "bad"

Fails(d, e) == taskException(d) /\ MoveTo(d, e, "failed")

\* What performTask makes of the result of the first check.
FirstVerdict(d, e, verdict) ==
    \/ /\ verdict = "good"
       /\ addSize(d, meta[d][e].size)
       /\ fileComplete(d)
       /\ MoveTo(d, e, "present")
       /\ UNCHANGED <<exception, useSize>>
    \/ verdict = "bad" /\ MoveTo(d, e, "downloadQueued") /\ UNCHANGED objectVars
    \/ verdict = "compare" /\ MoveTo(d, e, "comparing") /\ UNCHANGED objectVars
    \/ /\ verdict = "throws"
       /\ Fails(d, e)
       /\ UNCHANGED <<fileCounter, sizeCounter, useSize>>

\* The first check: exists and length() in one step, the hash in another.  An
\* entry whose acquisition was lost has no path: the NullPointerException
\* ends up in the Future.
checkFileOnDisk(d, e) ==
    /\ \/ task[d][e] = "checking" /\ ~meta[d][e].path
          /\ MoveTo(d, e, "crashed") /\ UNCHANGED objectVars
       \/ task[d][e] = "checking" /\ meta[d][e].path
          /\ FirstVerdict(d, e, checkFile(d, e, FALSE))
       \/ task[d][e] = "comparing" /\ FirstVerdict(d, e, compareSHA1(d, e))
    /\ UNCHANGED <<disk, runner, meta, transfer, faults>>

RecheckVerdict_Silent(d, e, verdict) ==
    /\ \/ verdict = "good" /\ fileComplete(d) /\ MoveTo(d, e, "downloaded")
       \/ verdict = "compare" /\ MoveTo(d, e, "recomparing") /\ UNCHANGED fileCounter
       \/ verdict \in {"bad", "throws"} /\ MoveTo(d, e, "failed") /\ UNCHANGED fileCounter
    /\ UNCHANGED exception

\* After the download a file that does not verify is an IOException.
RecheckVerdict(d, e, verdict) ==
    \/ /\ verdict = "good" /\ fileComplete(d)
       /\ MoveTo(d, e, "downloaded") /\ UNCHANGED exception
    \/ /\ verdict = "compare"
       /\ MoveTo(d, e, "recomparing") /\ UNCHANGED <<exception, fileCounter>>
    \/ verdict \in {"bad", "throws"} /\ Fails(d, e) /\ UNCHANGED fileCounter

recheckFileOnDisk(d, e) ==
    /\ \/ task[d][e] = "rechecking" /\ RecheckVerdict(d, e, checkFile(d, e, TRUE))
       \/ task[d][e] = "recomparing" /\ RecheckVerdict(d, e, compareSHA1(d, e))
    /\ UNCHANGED <<disk, runner, sizeCounter, useSize, meta, transfer, faults>>

-----------------------------------------------------------------------------
(* DownloadFileTask.                                                       *)

\* tryDownload starts over.  LastAttempt + 1 stands for every later attempt.
TryAgain(d, e, attempt, ranged, resume) ==
    /\ transfer' = [transfer EXCEPT ![d][e] =
            [@ EXCEPT !.attempt = IF attempt > LastAttempt THEN attempt ELSE attempt + 1,
                      !.ranged = ranged, !.resume = resume]]
    /\ MoveTo(d, e, "trying")
    /\ UNCHANGED exception

performRetry_KeepBytes(d, e, attempt, ranged, resume) ==
    TryAgain(d, e, attempt, ranged, resume) /\ UNCHANGED sizeCounter

\* The bytes counted so far leave the size counter first.
performRetry(d, e, attempt, ranged, resume) ==
    TryAgain(d, e, attempt, ranged, resume) /\ addSize(d, -transfer[d][e].bytes)

onIOException_NoLast(d, e) ==
    Fault /\ performRetry(d, e, transfer[d][e].attempt, transfer[d][e].ranged,
                          transfer[d][e].resume)

\* An IOException inside tryDownload.  The frame of the last attempt rethrows
\* it; if the chain of retries was started from the try block of an earlier
\* frame, that frame catches it and starts a second chain.  Past the last
\* attempt nothing stops the recursion but the end of the stack.
onIOException(d, e) ==
    LET t == transfer[d][e]
    IN  /\ Fault
        /\ \/ t.attempt # LastAttempt /\ performRetry(d, e, t.attempt, t.ranged, t.resume)
           \/ /\ t.attempt = LastAttempt /\ t.resume # NoResume
              /\ performRetry(d, e, t.resume, FALSE, NoResume)
           \/ /\ t.attempt = LastAttempt /\ t.resume = NoResume
              /\ Fails(d, e)
              /\ UNCHANGED <<sizeCounter, transfer>>
           \/ /\ t.attempt > LastAttempt
              /\ MoveTo(d, e, "crashed")
              /\ UNCHANGED <<exception, sizeCounter, transfer>>

\* tryDownload from nothing: no bytes count as downloaded.
startFile(d, e) ==
    /\ task[d][e] = "trying"
    /\ ~FileOf(e).exists \/ ~transfer[d][e].ranged
    /\ transfer' = [transfer EXCEPT ![d][e] =
                        [@ EXCEPT !.bytes = 0, !.pos = 1, !.append = FALSE]]
    /\ MoveTo(d, e, "opening")
    /\ UNCHANGED <<disk, runner, objectVars, meta, faults>>

\* downloadFile creates or empties the file before it asks the server.  A
\* null URL is a NullPointerException in openConnection.
openFile(d, e) ==
    /\ task[d][e] = "opening"
    /\ IF meta[d][e].url
       THEN disk' = [disk EXCEPT ![PathOf[e]] = Truncated] /\ MoveTo(d, e, "copying")
       ELSE UNCHANGED disk /\ MoveTo(d, e, "crashed")
    /\ UNCHANGED <<runner, objectVars, meta, transfer, faults>>

\* tryDownload of a file that is there: its length counts as downloaded and
\* the server is asked for the rest.
continueFile(d, e) ==
    /\ task[d][e] = "trying"
    /\ FileOf(e).exists /\ transfer[d][e].ranged
    /\ transfer' = [transfer EXCEPT ![d][e] = [@ EXCEPT !.bytes = LengthOf(FileOf(e))]]
    /\ addSize(d, LengthOf(FileOf(e)))
    /\ MoveTo(d, e, IF meta[d][e].url THEN "connecting" ELSE "crashed")
    /\ UNCHANGED <<disk, runner, exception, fileCounter, useSize, meta, faults>>

\* tryContinueDownload reads the length again for the range it asks for, and
\* the answer is 206, for which the file is opened for appending, or the whole
\* file, for which performRetry runs inside the try block.  (The request
\* carries "Content-Range", which a server need not take for a range request.)
rangeAnswered(d, e) ==
    /\ task[d][e] = "connecting"
    /\ \/ /\ transfer' = [transfer EXCEPT ![d][e] =
                             [@ EXCEPT !.pos = LengthOf(FileOf(e)) + 1, !.append = TRUE]]
          /\ MoveTo(d, e, "copying")
          /\ UNCHANGED <<exception, sizeCounter>>
       \/ performRetry(d, e, transfer[d][e].attempt, FALSE, transfer[d][e].attempt)
    /\ UNCHANGED <<disk, runner, fileCounter, useSize, meta, faults>>

\* Chunks a body may have: one more than published stands for any longer one.
BodyOf(e) == IF BadBodies THEN SizeOf[e] + 1 ELSE SizeOf[e]

\* One chunk arrives, is written and is counted (onBytesCopied).
copyChunk(d, e) ==
    LET t == transfer[d][e]
    IN  /\ task[d][e] = "copying"
        /\ t.pos <= BodyOf(e)
        /\ \E intact \in IF BadBodies THEN BOOLEAN ELSE {TRUE} :
              disk' = [disk EXCEPT ![PathOf[e]] =
                  IF t.append
                  THEN WriteAppended(@, intact /\ LengthOf(@) + 1 = t.pos)
                  ELSE WriteAt(@, t.pos, intact)]
        /\ transfer' = [transfer EXCEPT ![d][e] =
                            [@ EXCEPT !.pos = t.pos + 1, !.bytes = t.bytes + 1]]
        /\ addSize(d, 1)
        /\ UNCHANGED <<runner, exception, fileCounter, useSize, meta, task, faults>>

submitFileForRecheck_Counted(d, e) == MoveTo(d, e, "recheckQueued") /\ fileComplete(d)
submitFileForRecheck_Skipped(d, e) == MoveTo(d, e, "downloaded") /\ fileComplete(d)
submitFileForRecheck(d, e) == MoveTo(d, e, "recheckQueued") /\ UNCHANGED fileCounter

\* The body ends, early if the server sent another one.
endOfBody(d, e) ==
    /\ task[d][e] = "copying"
    /\ transfer[d][e].pos > SizeOf[e] \/ BadBodies
    /\ submitFileForRecheck(d, e)
    /\ UNCHANGED <<disk, runner, exception, sizeCounter, useSize, meta, transfer, faults>>

\* The file cannot be opened, the connection cannot be made or breaks, or the
\* storage fails.
transferFails(d, e) ==
    /\ \/ task[d][e] = "opening" /\ meta[d][e].url
       \/ task[d][e] \in {"connecting", "copying"}
    /\ onIOException(d, e)
    /\ UNCHANGED <<disk, runner, fileCounter, useSize, meta>>

-----------------------------------------------------------------------------
\* The launcher's process is killed: objects, pools and threads are gone and
\* the files stay as they are.  The stage of an entry that was completed is
\* left in place as the record of what the dead object had done.
kill ==
    /\ MayKill
    /\ \E d \in Downloaders : runner[d] \in Running \/ ~Terminated(d)
    /\ runner' = [d \in Downloaders |-> IF runner[d] = "idle" THEN "idle" ELSE "killed"]
    /\ task' = [d \in Downloaders |-> [e \in Elements |->
                   IF runner[d] = "idle" THEN "unsubmitted"
                   ELSE IF task[d][e] \in Completed THEN task[d][e] ELSE "killed"]]
    /\ exception' = [d \in Downloaders |-> FALSE]
    /\ fileCounter' = [d \in Downloaders |-> 0]
    /\ sizeCounter' = [d \in Downloaders |-> 0]
    /\ useSize' = [d \in Downloaders |-> TRUE]
    /\ meta' = [d \in Downloaders |-> [e \in Elements |-> InitialMetadata(e)]]
    /\ transfer' = [d \in Downloaders |-> [e \in Elements |-> NewTransfer]]
    /\ UNCHANGED <<disk, faults>>

Runner(d) == insertMetadataThrows(d) \/ performDownloads(d) \/ pollDownloads(d)

Worker(d, e) ==
    \/ takeTask(d, e)
    \/ acquireMetadata(d, e) \/ getFileSize(d, e) \/ getLibrarySha1Hash(d, e)
    \/ checkFileOnDisk(d, e) \/ recheckFileOnDisk(d, e)
    \/ startFile(d, e) \/ openFile(d, e) \/ continueFile(d, e) \/ rangeAnswered(d, e)
    \/ copyChunk(d, e) \/ endOfBody(d, e) \/ transferFails(d, e)

Next ==
    \/ \E d \in Downloaders : insertMetadata(d) \/ Runner(d)
    \/ \E d \in Downloaders, e \in Elements : Worker(d, e)
    \/ kill

Spec == Init /\ [][Next]_vars

\* The runner's thread and every pool thread keep running; nobody has to
\* press "Play" and nothing has to be killed.
FairSpec ==
    /\ Spec
    /\ \A d \in Downloaders : WF_vars(Runner(d))
    /\ \A d \in Downloaders, e \in Elements : WF_vars(Worker(d, e))

-----------------------------------------------------------------------------
(* Properties.                                                             *)

\* Every variable has its type.
TypeOK ==
    /\ disk \in [Paths -> File]
    /\ runner \in [Downloaders -> Running \cup {"idle", "done", "thrown", "bug", "killed"}]
    /\ exception \in [Downloaders -> BOOLEAN]
    /\ fileCounter \in [Downloaders -> Nat]
    /\ sizeCounter \in [Downloaders -> Int]
    /\ useSize \in [Downloaders -> BOOLEAN]
    /\ meta \in [Downloaders -> [Elements -> Metadata]]
    /\ task \in [Downloaders -> [Elements -> Stages]]
    /\ transfer \in [Downloaders -> [Elements -> Transfer]]
    /\ faults \in 0..MaxFaults

\* mDownloadedFileCounter, which alone decides when performDownloads ends,
\* counts each finished entry once: through first checks, downloads,
\* retries, rechecks and failures of any number of tasks.
FileCounterExact ==
    \A d \in Downloaders :
        /\ runner[d] = "inserting" =>
              fileCounter[d] = Cardinality({e \in Elements : task[d][e] = "metaDone"})
        /\ runner[d] \in {"downloading", "awaiting", "done"} =>
              fileCounter[d] = Cardinality({e \in Elements : task[d][e] \in Completed})

\* The "BUG! The file counter is wrong" exception of performDownloads is
\* never thrown: once the counter has reached the total, no pool of the
\* object has work left.
NoCounterBug == \A d \in Downloaders : runner[d] # "bug"

\* When runDownloads returns, every entry was found or downloaded, and every
\* file with a known hash has exactly the published contents, whatever was
\* on the storage before, whatever was killed halfway, whatever servers sent
\* and whether or not another entry names the same file.  Rapid start gives
\* this up for the files it finds, not for the ones it downloads.
DoneMeansVerified ==
    [][\A d \in Downloaders : runner[d] = "awaiting" /\ runner'[d] = "done" =>
          \A e \in Elements :
             /\ task[d][e] \in Completed
             /\ (/\ VerifyFiles /\ meta[d][e].hash = "right"
                 /\ task[d][e] = "downloaded" \/ ~RapidStart)
                => Genuine(FileOf(e), SizeOf[e])]_vars

\* The object has compared the file with the hash of the list.
Verified(d, e) ==
    /\ VerifyFiles /\ Listing[e].hashed
    /\ task[d][e] \in Completed /\ (task[d][e] = "downloaded" \/ ~RapidStart)

\* A file that was once compared with the hash of the list has the published
\* contents for ever: no failure of another entry, no later download and no
\* death of the process makes anyone empty it or append to it.  (The hash of a
\* Maven library is asked for again each time, and a server that answers with
\* another digest has a good file downloaded anew.)
VerifiedFilesKept ==
    \A d \in Downloaders, e \in Elements : Verified(d, e) => Genuine(FileOf(e), SizeOf[e])

\* What an entry has contributed to the size counter: nothing between two
\* attempts, since performRetry takes the bytes of the failed one back.
Counted(d, e) ==
    CASE task[d][e] = "present" -> meta[d][e].size
      [] task[d][e] = "trying" -> 0
      [] OTHER -> transfer[d][e].bytes

\* mDownloadedSizeCounter is the sum of what the entries contributed, however
\* many retries, refused ranges and nested retry chains there were.
SizeCounterExact ==
    \A d \in Downloaders : runner[d] # "killed" =>
        sizeCounter[d] = MapThenSumSet(LAMBDA e : Counted(d, e), Elements)

\* A download shown by size ends at exactly the announced total.
SizeProgressReachesTotal ==
    \A d \in Downloaders :
        runner[d] = "done" /\ useSize[d] /\ VerifyFiles =>
            sizeCounter[d] = MapThenSumSet(LAMBDA e : meta[d][e].size, Elements)

\* tryDownload goes past its last attempt in one case only: the server
\* refused to continue the file on the last attempt itself.
RetryLimit ==
    \A d \in Downloaders, e \in Elements :
        transfer[d][e].attempt > LastAttempt => transfer[d][e].resume = LastAttempt

\* An IOException of a verify or download task ends performDownloads.
FailuresThrown ==
    \A d \in Downloaders :
        (runner[d] = "downloading" /\ \E e \in Elements : task[d][e] = "failed")
            ~> runner[d] \in {"thrown", "killed"}

\* runDownloads returns or throws, or a task is lost to something other than
\* an IOException and it polls for ever (see ExceptionsThrown).
RunsEnd ==
    \A d \in Downloaders :
        runner[d] \in Running
            ~> runner[d] \notin Running \/ \E e \in Elements : task[d][e] = "crashed"

\* MoJsonDownloader.downloadGame: "@throws Exception when an exception occurs
\* in the function body or in any of the downloading threads."
ExceptionsThrown ==
    \A d \in Downloaders :
        (\E e \in Elements : task[d][e] \in {"failed", "crashed"})
            ~> runner[d] \in {"thrown", "killed"}
=============================================================================
