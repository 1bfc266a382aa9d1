----------------------- MODULE DownloaderFilesProofs -----------------------
(***************************************************************************)
(* Proofs about the files of Downloader: what runDownloads promises of     *)
(* them when it returns.                                                   *)
(***************************************************************************)
EXTENDS DownloaderProofs

(***************************************************************************)
(* Two entries that name the same file both come with its hash, as the     *)
(* objects of an asset index do, which are named for it.  Otherwise the    *)
(* entry without a hash could overwrite what the other one verified.       *)
(***************************************************************************)
SharedFilesHashed ==
    \A e, f \in Elements : e # f /\ PathOf[e] = PathOf[f] => Listing[f].hashed

Writers == DownloadWork \cup {"downloadQueued"}
Checked == Writers \cup {"comparing", "recheckQueued", "rechecking", "recomparing"}

\* Stages of a task that may have written its file and has not verified it.
Dirty == DownloadWork \cup {"recheckQueued", "rechecking", "recomparing", "failed", "crashed"}

Active(d) == runner[d] \in Running \/ ~Terminated(d)

\* A new download starts when nothing of an earlier one is left.
OneActive == \A c, d \in Downloaders : Active(c) /\ Active(d) => c = d

\* What the checks rely on: an entry with a path has the published size or
\* none, and the hash it was listed with; one without never gets past its
\* check.
MetaInv(d, e) ==
    /\ meta[d][e].path =>
          /\ meta[d][e].size \in {Unknown, SizeOf[e]}
          /\ Listing[e].hashed => meta[d][e].hash = "right"
    /\ task[d][e] \in Checked => meta[d][e].path
    /\ task[d][e] \in Completed /\ runner[d] # "killed" => meta[d][e].path

\* The entries whose hash the object has looked at.
HashSeen(d, e) ==
    /\ VerifyFiles /\ meta[d][e].hash = "right"
    /\ task[d][e] = "downloaded" \/ (task[d][e] = "present" /\ ~RapidStart)

\* A verified file is genuine unless another entry is at work on it, which
\* ends with a check or a failure.
FilesInv(d) ==
    runner[d] \in {"downloading", "awaiting"} =>
        \A e \in Elements : HashSeen(d, e) =>
            \/ Genuine(FileOf(e), SizeOf[e])
            \/ \E f \in Elements : PathOf[f] = PathOf[e] /\ task[d][f] \in Dirty

DiskInv ==
    /\ OneActive
    /\ \A d \in Downloaders : FilesInv(d) /\ \A e \in Elements : MetaInv(d, e)

-----------------------------------------------------------------------------
(* Checks and files.                                                       *)

\* A check that ends well has compared the file with the hash there is,
\* unless rapid start is content with the length.
LEMMA GoodIsGenuine ==
  ASSUME VerifyFiles, NEW d, NEW e, NEW after \in BOOLEAN,
         meta[d][e].hash = "right", after \/ ~RapidStart,
         checkFile(d, e, after) = "good" \/ compareSHA1(d, e) = "good"
  PROVE  Genuine(FileOf(e), SizeOf[e])
  BY DEF checkFile, compareSHA1

\* A genuine file with the right size and hash is never downloaded again.
LEMMA GenuineIsNotBad ==
  ASSUME NEW d, NEW e, NEW after \in BOOLEAN,
         meta[d][e].size \in {Unknown, SizeOf[e]}, meta[d][e].hash = "right",
         Genuine(FileOf(e), SizeOf[e])
  PROVE  checkFile(d, e, after) # "bad" /\ compareSHA1(d, e) # "bad"
  BY DEF checkFile, compareSHA1, Genuine

-----------------------------------------------------------------------------
(* The pool threads.                                                       *)

\* Where a worker may move its entry: only a bad check starts a download,
\* only a good one ends it.
StageStep(d, e, stage) ==
    /\ stage = "downloaded" =>
          /\ task[d][e] \in {"rechecking", "recomparing"}
          /\ checkFile(d, e, TRUE) = "good" \/ compareSHA1(d, e) = "good"
    /\ stage = "present" =>
          /\ task[d][e] = "comparing" \/ (task[d][e] = "checking" /\ meta[d][e].path)
          /\ checkFile(d, e, FALSE) = "good" \/ compareSHA1(d, e) = "good"
    /\ stage = "comparing" => task[d][e] = "checking" /\ meta[d][e].path
    /\ stage \in Writers =>
          \/ task[d][e] \in Writers
          \/ /\ task[d][e] = "comparing" \/ (task[d][e] = "checking" /\ meta[d][e].path)
             /\ checkFile(d, e, FALSE) = "bad" \/ compareSHA1(d, e) = "bad"
    /\ stage \in {"recheckQueued", "rechecking", "recomparing"} =>
          task[d][e] \in Writers \cup {"recheckQueued", "rechecking"}
    /\ task[d][e] \in Dirty => stage \in Dirty \cup {"downloaded"}

\* It writes its own file only, in the stages of a download.
DiskStep(d, e, stage) ==
    \/ UNCHANGED disk
    \/ /\ task[d][e] \in DownloadWork /\ stage \in Dirty
       /\ \E file \in File : disk' = [disk EXCEPT ![PathOf[e]] = file]

\* It completes the metadata of its entry, once, from what the list and the
\* server know.
MetaStep(d, e) ==
    \/ UNCHANGED meta
    \/ /\ task[d][e] \in MetadataWork
       /\ \E m \in Metadata :
             /\ meta' = [meta EXCEPT ![d][e] = m]
             /\ m.path => /\ m.size \in {meta[d][e].size, SizeOf[e]}
                          /\ meta[d][e].path \/ m.size = SizeOf[e]
                          /\ Listing[e].hashed /\ (meta[d][e].path => meta[d][e].hash = "right")
                             => m.hash = "right"

FileStep(d, e) ==
    /\ task[d][e] \in InFlight
    /\ UNCHANGED runner
    /\ \E stage \in Stages : /\ task' = [task EXCEPT ![d][e] = stage]
                             /\ StageStep(d, e, stage) /\ DiskStep(d, e, stage)
    /\ MetaStep(d, e)

LEMMA MetadataWorker ==
  ASSUME TypeOK, NEW d \in Downloaders, NEW e \in Elements,
         \/ acquireMetadata(d, e) \/ getFileSize(d, e) \/ getLibrarySha1Hash(d, e)
  PROVE  FileStep(d, e)
  <1>1. meta[d][e] \in Metadata /\ SizeOf[e] \in Nat
    BY DownloaderAssumption DEF TypeOK, Metadata
  <1>2. CASE acquireMetadata(d, e)
    <2>1. MetaStep(d, e)
      <3>1. CASE UNCHANGED meta
        BY <3>1 DEF MetaStep
      <3>2. CASE ~UNCHANGED meta
        <4> DEFINE m == [path |-> TRUE, url |-> TRUE, size |-> SizeOf[e],
                         hash |-> IF Listing[e].hashed THEN "right" ELSE "none"]
        <4>1. m \in Metadata
          BY <1>1 DEF Metadata, Hash
        <4>2. meta' = [meta EXCEPT ![d][e] = m] /\ task[d][e] \in MetadataWork
          BY <1>2, <3>2 DEF acquireMetadata, MetadataWork
        <4> QED BY <4>1, <4>2 DEF MetaStep
      <3> QED BY <3>1, <3>2
    <2>2. /\ task[d][e] = "acquiring" /\ UNCHANGED <<runner, disk>>
          /\ MoveTo(d, e, "sizing") \/ MoveTo(d, e, "failed") \/ MoveTo(d, e, "crashed")
      BY <1>2 DEF acquireMetadata
    <2> QED BY <2>1, <2>2, StageNames
        DEF FileStep, StageStep, DiskStep, MoveTo, Writers, Dirty, InFlight, MetadataWork,
            DownloadWork
  <1>3. CASE getFileSize(d, e)
    <2>1. MetaStep(d, e)
      <3>1. CASE UNCHANGED meta
        BY <3>1 DEF MetaStep
      <3>2. CASE ~UNCHANGED meta
        <4>1. PICK size \in {Unknown, SizeOf[e]} : meta' = [meta EXCEPT ![d][e].size = size]
          BY <1>3, <3>2 DEF getFileSize
        <4> DEFINE m == [meta[d][e] EXCEPT !.size = size]
        <4>2. m \in Metadata /\ m.path = meta[d][e].path /\ m.size = size
              /\ m.hash = meta[d][e].hash
          BY <1>1 DEF Metadata, Unknown
        <4>3. meta' = [meta EXCEPT ![d][e] = m] /\ task[d][e] \in MetadataWork
          BY <1>3, <4>1 DEF getFileSize, MetadataWork
        <4>4. meta[d][e].size = Unknown
          BY <1>3, <3>2 DEF getFileSize
        <4> HIDE DEF m
        <4> QED BY <4>2, <4>3, <4>4 DEF MetaStep
      <3> QED BY <3>1, <3>2
    <2>2. task[d][e] = "sizing" /\ UNCHANGED <<runner, disk>> /\ MoveTo(d, e, "hashing")
      BY <1>3 DEF getFileSize
    <2> QED BY <2>1, <2>2, StageNames
        DEF FileStep, StageStep, DiskStep, MoveTo, Writers, Dirty, InFlight, MetadataWork,
            DownloadWork
  <1>4. CASE getLibrarySha1Hash(d, e)
    <2>1. MetaStep(d, e)
      <3>1. CASE UNCHANGED meta
        BY <3>1 DEF MetaStep
      <3>2. CASE ~UNCHANGED meta
        <4>1. PICK hash \in Hash : meta' = [meta EXCEPT ![d][e].hash = hash]
          BY <1>4, <3>2 DEF getLibrarySha1Hash
        <4> DEFINE m == [meta[d][e] EXCEPT !.hash = hash]
        <4>2. m \in Metadata /\ m.path = meta[d][e].path /\ m.size = meta[d][e].size
          BY <1>1 DEF Metadata
        <4>3. meta' = [meta EXCEPT ![d][e] = m] /\ task[d][e] \in MetadataWork
          BY <1>4, <4>1 DEF getLibrarySha1Hash, MetadataWork
        <4>4. meta[d][e].hash = "none"
          BY <1>4, <3>2 DEF getLibrarySha1Hash, wantsLibraryHash
        <4> HIDE DEF m
        <4> QED BY <4>2, <4>3, <4>4 DEF MetaStep
      <3> QED BY <3>1, <3>2
    <2>2. task[d][e] = "hashing" /\ UNCHANGED <<runner, disk>> /\ MoveTo(d, e, "metaDone")
      BY <1>4 DEF getLibrarySha1Hash
    <2> QED BY <2>1, <2>2, StageNames
        DEF FileStep, StageStep, DiskStep, MoveTo, Writers, Dirty, InFlight, MetadataWork,
            DownloadWork
  <1> QED BY <1>2, <1>3, <1>4

LEMMA VerifyWorker ==
  ASSUME NEW d \in Downloaders, NEW e \in Elements,
         takeTask(d, e) \/ checkFileOnDisk(d, e) \/ recheckFileOnDisk(d, e)
  PROVE  FileStep(d, e)
  <1> USE StageNames DEF FileStep, StageStep, DiskStep, MetaStep, MoveTo, Writers, Dirty, InFlight,
                         MetadataWork, VerifyWork, DownloadWork
  <1>1. CASE takeTask(d, e)
    BY <1>1 DEF takeTask, TakeTask
  <1>2. CASE checkFileOnDisk(d, e)
    <2>1. UNCHANGED <<runner, disk, meta>>
      BY <1>2 DEF checkFileOnDisk
    <2>2. CASE task[d][e] = "checking"
      <3>1. \/ MoveTo(d, e, "crashed") \/ MoveTo(d, e, "failed")
            \/ /\ meta[d][e].path
               /\ \/ MoveTo(d, e, "comparing")
                  \/ checkFile(d, e, FALSE) = "good" /\ MoveTo(d, e, "present")
                  \/ checkFile(d, e, FALSE) = "bad" /\ MoveTo(d, e, "downloadQueued")
        BY <1>2, <2>2 DEF checkFileOnDisk, FirstVerdict, Fails
      <3> QED BY <2>1, <2>2, <3>1
    <2>3. CASE task[d][e] = "comparing"
      <3>1. \/ MoveTo(d, e, "failed")
            \/ compareSHA1(d, e) = "good" /\ MoveTo(d, e, "present")
            \/ compareSHA1(d, e) = "bad" /\ MoveTo(d, e, "downloadQueued")
        BY <1>2, <2>3 DEF checkFileOnDisk, FirstVerdict, Fails, compareSHA1
      <3>2. CASE MoveTo(d, e, "failed")
        BY <2>1, <2>3, <3>2
      <3>3. CASE compareSHA1(d, e) = "good" /\ MoveTo(d, e, "present")
        BY <2>1, <2>3, <3>3
      <3>4. CASE compareSHA1(d, e) = "bad" /\ MoveTo(d, e, "downloadQueued")
        BY <2>1, <2>3, <3>4
      <3> QED BY <3>1, <3>2, <3>3, <3>4
    <2> QED BY <1>2, <2>2, <2>3 DEF checkFileOnDisk
  <1>3. CASE recheckFileOnDisk(d, e)
    <2>1. /\ UNCHANGED <<runner, disk, meta>>
          /\ \/ /\ task[d][e] = "rechecking"
                /\ \/ MoveTo(d, e, "failed") \/ MoveTo(d, e, "recomparing")
                   \/ checkFile(d, e, TRUE) = "good" /\ MoveTo(d, e, "downloaded")
             \/ /\ task[d][e] = "recomparing"
                /\ \/ MoveTo(d, e, "failed")
                   \/ compareSHA1(d, e) = "good" /\ MoveTo(d, e, "downloaded")
      BY <1>3 DEF recheckFileOnDisk, RecheckVerdict, Fails, compareSHA1
    <2> QED BY <2>1
  <1> QED BY <1>1, <1>2, <1>3

LEMMA DownloadWorker ==
  ASSUME TypeOK, NEW d \in Downloaders, NEW e \in Elements,
         \/ startFile(d, e) \/ openFile(d, e) \/ continueFile(d, e) \/ rangeAnswered(d, e)
         \/ copyChunk(d, e) \/ endOfBody(d, e) \/ transferFails(d, e)
  PROVE  FileStep(d, e)
  <1> DEFINE Move(stages) == \E stage \in stages : MoveTo(d, e, stage)
  <1>1. /\ task[d][e] \in {"trying", "opening", "connecting", "copying"}
        /\ UNCHANGED <<runner, meta>>
    BY DEF startFile, openFile, continueFile, rangeAnswered, copyChunk, endOfBody, transferFails
  <1>2. Move({"trying", "opening", "connecting", "copying", "recheckQueued", "failed", "crashed"})
    <2>1. CASE copyChunk(d, e)
      <3>1. MoveTo(d, e, "copying")
        BY <2>1 DEF copyChunk, MoveTo, TypeOK
      <3> QED BY <3>1
    <2>2. CASE transferFails(d, e)
      BY <2>2 DEF transferFails, onIOException, performRetry, TryAgain, Fails
    <2>3. CASE rangeAnswered(d, e)
      BY <2>3 DEF rangeAnswered, performRetry, TryAgain
    <2>4. CASE startFile(d, e) \/ openFile(d, e) \/ continueFile(d, e) \/ endOfBody(d, e)
      BY <2>4 DEF startFile, openFile, continueFile, endOfBody, submitFileForRecheck
    <2> QED BY <2>1, <2>2, <2>3, <2>4
  <1>3. \/ UNCHANGED disk
        \/ \E file \in File : disk' = [disk EXCEPT ![PathOf[e]] = file]
    <2>1. FileOf(e) \in File /\ transfer[d][e].pos \in Nat
      BY DEF TypeOK, Paths, FileOf, Transfer
    <2>2. CASE openFile(d, e)
      <3>1. Truncated \in File
        BY DEF Truncated, File
      <3> QED BY <2>2, <3>1 DEF openFile
    <2>3. CASE copyChunk(d, e)
      <3> DEFINE t == transfer[d][e]
      <3>1. PICK intact \in BOOLEAN :
               disk' = [disk EXCEPT ![PathOf[e]] =
                  IF t.append
                  THEN WriteAppended(FileOf(e), intact /\ LengthOf(FileOf(e)) + 1 = t.pos)
                  ELSE WriteAt(FileOf(e), t.pos, intact)]
        BY <2>3 DEF copyChunk, FileOf
      <3>2. WriteAppended(FileOf(e), intact /\ LengthOf(FileOf(e)) + 1 = t.pos) \in File
        BY <2>1, WrittenAppended
      <3>3. WriteAt(FileOf(e), t.pos, intact) \in File
        BY <2>1, WrittenAt
      <3> QED BY <3>1, <3>2, <3>3
    <2>4. CASE ~openFile(d, e) /\ ~copyChunk(d, e)
      BY <2>4 DEF startFile, continueFile, rangeAnswered, endOfBody, transferFails
    <2> QED BY <2>2, <2>3, <2>4
  <1> QED BY <1>1, <1>2, <1>3, StageNames
      DEF FileStep, StageStep, DiskStep, MetaStep, MoveTo, Writers, Dirty, InFlight, DownloadWork

LEMMA WorkerFiles ==
  ASSUME TypeOK, NEW d \in Downloaders, NEW e \in Elements, Worker(d, e)
  PROVE  FileStep(d, e)
  BY MetadataWorker, VerifyWorker, DownloadWorker DEF Worker

-----------------------------------------------------------------------------
(* What a worker's step keeps, part by part.                               *)

LEMMA OneActiveKept ==
  ASSUME TypeOK, OneActive, NEW d \in Downloaders, NEW e \in Elements, FileStep(d, e)
  PROVE  OneActive'
  <1>1. Active(d)
    BY DEF FileStep, Active, Terminated
  <1>2. \A c \in Downloaders : Active(c)' => Active(c)
    <2> SUFFICES ASSUME NEW c \in Downloaders, Active(c)', c # d PROVE Active(c)
      BY <1>1
    <2>1. task'[c] = task[c] /\ runner' = runner
      BY DEF FileStep, TypeOK
    <2> QED BY <2>1 DEF Active, Terminated
  <1> QED BY <1>2 DEF OneActive

LEMMA MetaKept ==
  ASSUME TypeOK, NEW d \in Downloaders, NEW e \in Elements, FileStep(d, e),
         NEW c \in Downloaders, NEW f \in Elements, MetaInv(c, f)
  PROVE  MetaInv(c, f)'
  <1>1. CASE c = d /\ f = e
    <2>1. PICK stage \in Stages : /\ task' = [task EXCEPT ![d][e] = stage]
                                  /\ StageStep(d, e, stage)
      BY DEF FileStep
    <2>2. task'[d][e] = stage
      BY <2>1 DEF TypeOK
    <2>3. stage \in Checked \cup Completed => meta[d][e].path /\ task[d][e] \notin MetadataWork
      BY <1>1, <2>1 DEF StageStep, MetaInv, Checked, Completed, Writers, DownloadWork, MetadataWork
    <2>6. runner' = runner
      BY DEF FileStep
    <2>4. CASE UNCHANGED meta
      BY <1>1, <2>2, <2>3, <2>4 DEF MetaInv
    <2>5. CASE ~UNCHANGED meta
      <3>1. PICK m \in Metadata :
               /\ meta' = [meta EXCEPT ![d][e] = m]
               /\ m.path => /\ m.size \in {meta[d][e].size, SizeOf[e]}
                            /\ meta[d][e].path \/ m.size = SizeOf[e]
                            /\ Listing[e].hashed /\ (meta[d][e].path => meta[d][e].hash = "right")
                               => m.hash = "right"
        BY <2>5 DEF FileStep, MetaStep
      <3>2. task[d][e] \in MetadataWork
        BY <2>5 DEF FileStep, MetaStep
      <3>3. meta'[d][e] = m
        BY <3>1 DEF TypeOK
      <3> QED BY <1>1, <2>2, <2>3, <3>1, <3>2, <3>3 DEF MetaInv
    <2> QED BY <2>4, <2>5
  <1>2. CASE ~(c = d /\ f = e)
    <2>1. task'[c][f] = task[c][f] /\ meta'[c][f] = meta[c][f] /\ runner' = runner
      BY <1>2 DEF FileStep, MetaStep, TypeOK
    <2> QED BY <2>1 DEF MetaInv
  <1> QED BY <1>1, <1>2

\* The object at work.
LEMMA OwnFilesKept ==
  ASSUME SharedFilesHashed, TypeOK, CounterInv,
         NEW d \in Downloaders, NEW e \in Elements, FileStep(d, e),
         FilesInv(d), MetaInv(d, e)
  PROVE  FilesInv(d)'
  <1>1. runner' = runner /\ task[d][e] \notin Completed
    BY DEF FileStep, InFlight, Completed, MetadataWork, VerifyWork, DownloadWork
  <1>2. runner[d] # "awaiting"
    BY <1>1 DEF CounterInv, Phases
  <1> SUFFICES ASSUME runner[d] = "downloading", NEW x \in Elements, HashSeen(d, x)'
               PROVE  (\/ Genuine(FileOf(x), SizeOf[x])
                       \/ \E f \in Elements : PathOf[f] = PathOf[x] /\ task[d][f] \in Dirty)'
    BY <1>1, <1>2 DEF FilesInv
  <1>3. task[d][e] \notin MetadataWork
    BY DEF CounterInv, Phases, DownloadPhase, MetadataWork, VerifyWork, DownloadWork, Completed
  <1>4. meta' = meta
    BY <1>3 DEF FileStep, MetaStep
  <1>5. PICK stage \in Stages : /\ task' = [task EXCEPT ![d][e] = stage]
                                /\ StageStep(d, e, stage) /\ DiskStep(d, e, stage)
    BY DEF FileStep
  <1>6. task'[d][e] = stage /\ \A f \in Elements \ {e} : task'[d][f] = task[d][f]
    BY <1>5 DEF TypeOK
  <1>7. VerifyFiles /\ meta[d][x].hash = "right"
    BY <1>4 DEF HashSeen
  <1>8. \/ UNCHANGED disk
        \/ stage \in Dirty /\ \A p \in Paths \ {PathOf[e]} : disk'[p] = disk[p]
    BY <1>5 DEF DiskStep, TypeOK
  <1>9. CASE x = e
    <2>1. /\ stage = "downloaded" \/ (stage = "present" /\ ~RapidStart)
          /\ \E after \in BOOLEAN :
                /\ after \/ ~RapidStart
                /\ checkFile(d, e, after) = "good" \/ compareSHA1(d, e) = "good"
      <3>1. stage = "downloaded" \/ (stage = "present" /\ ~RapidStart)
        BY <1>6, <1>9 DEF HashSeen
      <3>2. CASE stage = "downloaded"
        BY <1>5, <3>1, <3>2 DEF StageStep
      <3>3. CASE stage = "present" /\ ~RapidStart
        BY <1>5, <3>1, <3>3 DEF StageStep
      <3> QED BY <3>1, <3>2, <3>3
    <2>2. Genuine(FileOf(e), SizeOf[e])
      BY <1>7, <1>9, <2>1, GoodIsGenuine
    <2>3. disk' = disk
      BY <1>8, <2>1 DEF Dirty, DownloadWork
    <2> QED BY <1>9, <2>2, <2>3 DEF FileOf
  <1>10. CASE x # e
    <2>1. HashSeen(d, x)
      BY <1>4, <1>6, <1>10 DEF HashSeen
    <2>2. CASE Genuine(FileOf(x), SizeOf[x])
      <3>1. CASE UNCHANGED disk \/ PathOf[e] # PathOf[x]
        BY <1>8, <2>2, <3>1 DEF FileOf, Paths
      <3>2. CASE ~UNCHANGED disk /\ PathOf[e] = PathOf[x]
        BY <1>6, <1>8, <3>2
      <3> QED BY <3>1, <3>2
    <2>3. CASE \E f \in Elements : PathOf[f] = PathOf[x] /\ task[d][f] \in Dirty
      <3>1. PICK f \in Elements : PathOf[f] = PathOf[x] /\ task[d][f] \in Dirty
        BY <2>3
      <3>2. CASE f # e \/ stage \in Dirty
        BY <1>6, <3>1, <3>2
      <3>3. CASE f = e /\ stage \notin Dirty
        <4>1. /\ stage = "downloaded" /\ task[d][e] \in {"rechecking", "recomparing"}
              /\ checkFile(d, e, TRUE) = "good" \/ compareSHA1(d, e) = "good"
          BY <1>5, <3>1, <3>3 DEF StageStep
        <4>2. meta[d][e].hash = "right"
          BY <1>10, <3>1, <3>3, <4>1 DEF SharedFilesHashed, MetaInv, Checked
        <4>3. Genuine(FileOf(e), SizeOf[e])
          BY <1>7, <4>1, <4>2, GoodIsGenuine
        <4>4. SizeOf[e] = SizeOf[x] /\ FileOf(e) = FileOf(x) /\ disk' = disk
          BY <1>8, <3>1, <3>3, DownloaderAssumption DEF FileOf
        <4> QED BY <4>3, <4>4 DEF FileOf
      <3> QED BY <3>2, <3>3
    <2> QED BY <2>1, <2>2, <2>3 DEF FilesInv
  <1> QED BY <1>9, <1>10

\* An object that is not at work, while another one is.
LEMMA OtherFilesKept ==
  ASSUME OneActive, NEW d \in Downloaders, NEW e \in Elements, FileStep(d, e),
         NEW c \in Downloaders, c # d
  PROVE  FilesInv(c)'
  <1>1. runner[c] \notin Running /\ runner' = runner
    BY DEF OneActive, Active, FileStep, Terminated
  <1> QED BY <1>1 DEF FilesInv, Running

-----------------------------------------------------------------------------
(* The threads that call runDownloads, and the end of the process.         *)

LEMMA StartFiles ==
  ASSUME RetryInProcess = FALSE, TypeOK, DiskInv, NEW d \in Downloaders, insertMetadata(d)
  PROVE  DiskInv'
  <1>1. \A c \in Downloaders : runner[c] \notin Running /\ Terminated(c)
    BY DEF insertMetadata
  <1>2. /\ runner[d] = "idle" /\ runner' = [runner EXCEPT ![d] = "inserting"]
        /\ UNCHANGED <<disk, meta>>
        /\ task' = [task EXCEPT ![d] = [e \in Elements |->
              IF shouldCompleteMetadata(e) THEN "metaQueued" ELSE "unsubmitted"]]
    BY DEF insertMetadata, RunnerMoves, Submit
  <1>3. /\ runner'[d] = "inserting"
        /\ \A e \in Elements : task'[d][e] \in {"metaQueued", "unsubmitted"}
        /\ \A c \in Downloaders \ {d} : runner'[c] = runner[c] /\ task'[c] = task[c]
    BY <1>2 DEF TypeOK
  <1>4. OneActive'
    <2>1. \A c \in Downloaders \ {d} : ~Active(c)'
      BY <1>1, <1>3 DEF Active, Terminated
    <2> QED BY <2>1 DEF OneActive
  <1>5. ASSUME NEW c \in Downloaders, NEW e \in Elements PROVE MetaInv(c, e)'
    BY <1>2, <1>3 DEF DiskInv, MetaInv, Checked, Writers, DownloadWork, Completed
  <1>6. ASSUME NEW c \in Downloaders PROVE FilesInv(c)'
    BY <1>1, <1>3 DEF FilesInv, Running
  <1> QED BY <1>4, <1>5, <1>6 DEF DiskInv

\* A runner that only moves on: nobody's tasks change.
LEMMA PollFiles ==
  ASSUME TypeOK, DiskInv, NEW d \in Downloaders, insertMetadataThrows(d) \/ pollDownloads(d)
  PROVE  DiskInv'
  <1>1. /\ runner[d] \in Running /\ UNCHANGED <<disk, meta, task>>
        /\ \E to \in {"closing", "thrown", "awaiting", "done", "bug"} :
              /\ runner' = [runner EXCEPT ![d] = to]
              /\ to = "awaiting" => runner[d] = "downloading"
    BY DEF insertMetadataThrows, pollDownloads, RunnerMoves, Running
  <1>2. PICK to : /\ runner' = [runner EXCEPT ![d] = to]
                  /\ to \in {"closing", "thrown", "awaiting", "done", "bug"}
                  /\ to = "awaiting" => runner[d] = "downloading"
    BY <1>1
  <1>3. runner'[d] = to /\ \A c \in Downloaders \ {d} : runner'[c] = runner[c]
    BY <1>2 DEF TypeOK
  <1>4. OneActive'
    <2>1. \A c \in Downloaders : Active(c)' => Active(c)
      BY <1>1, <1>3 DEF Active, Terminated
    <2> QED BY <2>1 DEF DiskInv, OneActive
  <1>5. ASSUME NEW c \in Downloaders, NEW e \in Elements PROVE MetaInv(c, e)'
    BY <1>1, <1>3 DEF DiskInv, MetaInv, Running
  <1>6. ASSUME NEW c \in Downloaders PROVE FilesInv(c)'
    BY <1>1, <1>2, <1>3 DEF DiskInv, FilesInv, HashSeen, FileOf
  <1> QED BY <1>4, <1>5, <1>6 DEF DiskInv

LEMMA CheckFiles ==
  ASSUME TypeOK, DiskInv, NEW d \in Downloaders, performDownloads(d)
  PROVE  DiskInv'
  <1>1. /\ runner[d] = "inserting" /\ runner' = [runner EXCEPT ![d] = "downloading"]
        /\ UNCHANGED <<disk, meta>>
        /\ task' = [task EXCEPT ![d] = [e \in Elements |-> "checkQueued"]]
    BY DEF performDownloads, RunnerMoves, Submit
  <1>2. /\ runner'[d] = "downloading" /\ \A e \in Elements : task'[d][e] = "checkQueued"
        /\ \A c \in Downloaders \ {d} : runner'[c] = runner[c] /\ task'[c] = task[c]
    BY <1>1 DEF TypeOK
  <1>3. OneActive'
    <2>1. \A c \in Downloaders : Active(c)' => Active(c)
      BY <1>1, <1>2 DEF Active, Terminated, Running
    <2> QED BY <2>1 DEF DiskInv, OneActive
  <1>4. ASSUME NEW c \in Downloaders, NEW e \in Elements PROVE MetaInv(c, e)'
    BY <1>1, <1>2 DEF DiskInv, MetaInv, Checked, Writers, DownloadWork, Completed
  <1>5. ASSUME NEW c \in Downloaders PROVE FilesInv(c)'
    <2>1. CASE c = d
      BY <1>2, <2>1 DEF FilesInv, HashSeen
    <2>2. CASE c # d
      <3>1. runner[c] \notin Running
        BY <1>1, <2>2 DEF DiskInv, OneActive, Active, Running
      <3> QED BY <1>2, <2>2, <3>1 DEF FilesInv, Running
    <2> QED BY <2>1, <2>2
  <1> QED BY <1>3, <1>4, <1>5 DEF DiskInv

LEMMA InitialMetadataGood ==
  ASSUME NEW e \in Elements, InitialMetadata(e).path
  PROVE  /\ InitialMetadata(e).size \in {Unknown, SizeOf[e]}
         /\ Listing[e].hashed => InitialMetadata(e).hash = "right"
  BY DEF InitialMetadata

LEMMA InitialFilesGood == Init => DiskInv
  <1> SUFFICES ASSUME Init PROVE DiskInv
    OBVIOUS
  <1>1. \A d \in Downloaders : ~Active(d)
    BY DEF Init, Active, Running, Terminated, InFlight, MetadataWork, VerifyWork, DownloadWork
  <1>2. ASSUME NEW d \in Downloaders, NEW e \in Elements PROVE MetaInv(d, e)
    BY InitialMetadataGood DEF Init, MetaInv, Checked, Writers, DownloadWork, Completed
  <1>3. ASSUME NEW d \in Downloaders PROVE FilesInv(d)
    BY DEF Init, FilesInv
  <1> QED BY <1>1, <1>2, <1>3 DEF DiskInv, OneActive

\* Nothing is left of an object after the process was killed.
LEMMA KillFiles == kill => DiskInv'
  <1> SUFFICES ASSUME kill PROVE DiskInv'
    OBVIOUS
  <1>0. \A d \in Downloaders :
           /\ runner'[d] \in {"idle", "killed"}
           /\ runner'[d] = "idle" => \A e \in Elements : task'[d][e] = "unsubmitted"
           /\ \A e \in Elements : /\ task'[d][e] \in Completed \cup {"unsubmitted", "killed"}
                                  /\ meta'[d][e] = InitialMetadata(e)
    BY DEF kill
  <1>1. \A d \in Downloaders : ~Active(d)'
    BY <1>0 DEF Active, Running, Terminated, InFlight, Completed, MetadataWork, VerifyWork,
                DownloadWork
  <1>2. ASSUME NEW d \in Downloaders, NEW e \in Elements PROVE MetaInv(d, e)'
    BY <1>0, InitialMetadataGood DEF MetaInv, Checked, Writers, DownloadWork, Completed
  <1>3. ASSUME NEW d \in Downloaders PROVE FilesInv(d)'
    BY <1>0 DEF FilesInv
  <1> QED BY <1>1, <1>2, <1>3 DEF DiskInv, OneActive

-----------------------------------------------------------------------------
\* The invariant holds in every run that starts one download at a time.
THEOREM DiskInvariant ==
  ASSUME RetryInProcess = FALSE, SharedFilesHashed
  PROVE  Spec => [](TypeOK /\ CounterInv /\ DiskInv)
  <1>1. Init => DiskInv
    BY InitialFilesGood
  <1>2. TypeOK /\ CounterInv /\ DiskInv /\ [Next]_vars => DiskInv'
    <2> SUFFICES ASSUME TypeOK, CounterInv, DiskInv, [Next]_vars PROVE DiskInv'
      OBVIOUS
    <2>1. ASSUME NEW d \in Downloaders, NEW e \in Elements, Worker(d, e) PROVE DiskInv'
      <3>1. FileStep(d, e)
        BY <2>1, WorkerFiles
      <3>2. OneActive'
        BY <3>1, OneActiveKept DEF DiskInv
      <3>3. ASSUME NEW c \in Downloaders, NEW f \in Elements PROVE MetaInv(c, f)'
        BY <3>1, MetaKept DEF DiskInv
      <3>4. ASSUME NEW c \in Downloaders PROVE FilesInv(c)'
        BY <3>1, OwnFilesKept, OtherFilesKept DEF DiskInv
      <3> QED BY <3>2, <3>3, <3>4 DEF DiskInv
    <2>2. ASSUME NEW d \in Downloaders, insertMetadata(d) \/ Runner(d) PROVE DiskInv'
      BY <2>2, StartFiles, PollFiles, CheckFiles DEF Runner
    <2>3. CASE kill
      BY <2>3, KillFiles
    <2>4. CASE UNCHANGED vars
      BY <2>4 DEF vars, DiskInv, OneActive, Active, Terminated, MetaInv, FilesInv, HashSeen, FileOf
    <2> QED BY <2>1, <2>2, <2>3, <2>4 DEF Next
  <1> QED BY <1>1, <1>2, TypeCorrect, CounterInvariant, PTL DEF Spec

\* When runDownloads returns, every entry is there and every file whose hash
\* was looked at has the published contents, for any list in which files
\* with two names have hashes, any pools and faults, whatever was on the
\* storage, whatever servers sent, and however often the process was killed
\* and the download started again.
THEOREM DoneVerified ==
  ASSUME RetryInProcess = FALSE, SharedFilesHashed
  PROVE  Spec => DoneMeansVerified
  <1> DEFINE Good(d) == \A e \in Elements :
                /\ task[d][e] \in Completed
                /\ (/\ VerifyFiles /\ meta[d][e].hash = "right"
                    /\ task[d][e] = "downloaded" \/ ~RapidStart)
                   => Genuine(FileOf(e), SizeOf[e])
  <1>1. CounterInv /\ DiskInv => \A d \in Downloaders : runner[d] = "awaiting" => Good(d)
    <2> SUFFICES ASSUME CounterInv, DiskInv, NEW d \in Downloaders, runner[d] = "awaiting"
                 PROVE  Good(d)
      OBVIOUS
    <2>1. \A f \in Elements : task[d][f] \in Completed
      BY DEF CounterInv, Phases
    <2>2. \A f \in Elements : task[d][f] \notin Dirty
      BY <2>1 DEF Completed, Dirty, DownloadWork
    <2> QED BY <2>1, <2>2 DEF DiskInv, FilesInv, HashSeen, Completed
  <1>2. (\A d \in Downloaders : runner[d] = "awaiting" => Good(d)) /\ [Next]_vars =>
           [\A d \in Downloaders : runner[d] = "awaiting" /\ runner'[d] = "done" => Good(d)]_vars
    OBVIOUS
  <1> QED BY <1>1, <1>2, DiskInvariant, PTL DEF Spec, DoneMeansVerified

-----------------------------------------------------------------------------
(***************************************************************************)
(* What was compared with a listed hash once stays.  A later check, by the *)
(* same object or by the next one, has the same hash and the same size or  *)
(* none, so it cannot find the file bad, and only a bad file is opened for *)
(* writing.                                                                *)
(***************************************************************************)
NoSharedFiles == \A e, f \in Elements : PathOf[e] = PathOf[f] => e = f

Kept(d, e) ==
    Verified(d, e) => /\ Genuine(FileOf(e), SizeOf[e])
                      /\ \A c \in Downloaders : task[c][e] \notin Writers

KeptInv == \A d \in Downloaders, e \in Elements : Kept(d, e)

\* A worker writes to its own file only.
LEMMA FileLeft ==
  ASSUME TypeOK, NEW d \in Downloaders, NEW e \in Elements, FileStep(d, e),
         NEW f \in Elements, task[d][e] \notin DownloadWork \/ PathOf[f] # PathOf[e]
  PROVE  FileOf(f)' = FileOf(f)
  <1>1. CASE UNCHANGED disk
    BY <1>1 DEF FileOf
  <1>2. CASE ~UNCHANGED disk
    <2>1. PICK file : disk' = [disk EXCEPT ![PathOf[e]] = file]
      BY <1>2 DEF FileStep, DiskStep
    <2>2. PathOf[f] # PathOf[e] /\ PathOf[f] \in Paths
      BY <1>2 DEF FileStep, DiskStep, Paths
    <2> QED BY <2>1, <2>2 DEF FileOf, TypeOK
  <1> QED BY <1>1, <1>2

\* The entry that was just completed: its file is genuine and nobody else is
\* at work.
LEMMA CompletedKept ==
  ASSUME TypeOK, OneActive, NEW d \in Downloaders, NEW e \in Elements, FileStep(d, e),
         MetaInv(d, e)
  PROVE  Kept(d, e)'
  <1>1. PICK stage \in Stages : /\ task' = [task EXCEPT ![d][e] = stage]
                                /\ StageStep(d, e, stage) /\ DiskStep(d, e, stage)
    BY DEF FileStep
  <1>2. /\ task'[d][e] = stage /\ task[d][e] \in InFlight
        /\ \A c \in Downloaders \ {d} : task'[c] = task[c]
    BY <1>1 DEF FileStep, TypeOK
  <1> SUFFICES ASSUME Verified(d, e)'
               PROVE  Genuine(FileOf(e), SizeOf[e])' /\ \A c \in Downloaders : task'[c][e] \notin Writers
    BY DEF Kept
  <1>3. /\ VerifyFiles /\ Listing[e].hashed
        /\ stage = "downloaded" \/ (stage = "present" /\ ~RapidStart)
    <2>1. VerifyFiles /\ Listing[e].hashed
      BY DEF Verified
    <2>2. task'[d][e] \in {"present", "downloaded"} /\ (task'[d][e] = "downloaded" \/ ~RapidStart)
      BY DEF Verified, Completed
    <2> QED BY <1>2, <2>1, <2>2
  <1>4. disk' = disk
    BY <1>1, <1>3 DEF DiskStep, Dirty, DownloadWork
  <1>5. meta[d][e].hash = "right"
    BY <1>1, <1>3 DEF StageStep, MetaInv, Checked
  <1>6. Genuine(FileOf(e), SizeOf[e])
    <2>1. \E after \in BOOLEAN :
             /\ after \/ ~RapidStart
             /\ checkFile(d, e, after) = "good" \/ compareSHA1(d, e) = "good"
      BY <1>1, <1>3 DEF StageStep
    <2> QED BY <1>3, <1>5, <2>1, GoodIsGenuine
  <1>7. \A c \in Downloaders \ {d} : task[c][e] \notin Writers
    <2>1. \A c \in Downloaders \ {d} : Terminated(c)
      BY <1>2 DEF OneActive, Active, Terminated
    <2> QED BY <2>1 DEF Terminated, Writers, InFlight
  <1>8. stage \notin Writers
    BY <1>3 DEF Writers, DownloadWork
  <1> QED BY <1>2, <1>4, <1>6, <1>7, <1>8 DEF FileOf

\* An entry that was completed before: its file is not downloaded again.
LEMMA KeptKept ==
  ASSUME NoSharedFiles, TypeOK, NEW d \in Downloaders, NEW e \in Elements, FileStep(d, e),
         MetaInv(d, e),
         NEW c \in Downloaders, NEW f \in Elements, Kept(c, f), c # d \/ f # e
  PROVE  Kept(c, f)'
  <1>1. PICK stage \in Stages : /\ task' = [task EXCEPT ![d][e] = stage]
                                /\ StageStep(d, e, stage) /\ DiskStep(d, e, stage)
    BY DEF FileStep
  <1>2. /\ task'[c][f] = task[c][f] /\ task'[d][e] = stage
        /\ \A b \in Downloaders : b # d \/ f # e => task'[b][f] = task[b][f]
    BY <1>1 DEF TypeOK
  <1> SUFFICES ASSUME Verified(c, f)
               PROVE  Genuine(FileOf(f), SizeOf[f])' /\ \A b \in Downloaders : task'[b][f] \notin Writers
    BY <1>2 DEF Kept, Verified
  <1>3. Genuine(FileOf(f), SizeOf[f]) /\ \A b \in Downloaders : task[b][f] \notin Writers
    BY DEF Kept
  <1>4. FileOf(f)' = FileOf(f)
    <2>1. task[d][e] \notin DownloadWork \/ PathOf[f] # PathOf[e]
      BY <1>3 DEF NoSharedFiles, Writers
    <2> QED BY <2>1, FileLeft
  <1>5. f = e => stage \notin Writers
    <2> SUFFICES ASSUME f = e, stage \in Writers PROVE FALSE
      OBVIOUS
    <2>1. /\ task[d][e] = "comparing" \/ (task[d][e] = "checking" /\ meta[d][e].path)
          /\ checkFile(d, e, FALSE) = "bad" \/ compareSHA1(d, e) = "bad"
      BY <1>1, <1>3 DEF StageStep
    <2>2. meta[d][e].size \in {Unknown, SizeOf[e]} /\ meta[d][e].hash = "right"
      BY <2>1 DEF MetaInv, Checked, Verified
    <2> QED BY <1>3, <2>1, <2>2, GenuineIsNotBad
  <1> QED BY <1>2, <1>3, <1>4, <1>5

\* The threads that call runDownloads complete no entry and write no file.
LEMMA RunnerKeeps ==
  ASSUME TypeOK, KeptInv, NEW d \in Downloaders, insertMetadata(d) \/ Runner(d)
  PROVE  KeptInv'
  <1>1. disk' = disk
    BY DEF insertMetadata, Runner, insertMetadataThrows, performDownloads, pollDownloads,
           RunnerMoves
  <1>2. /\ \A c \in Downloaders \ {d} : task'[c] = task[c]
        /\ \/ task'[d] = task[d]
           \/ \A e \in Elements : task'[d][e] \in {"metaQueued", "unsubmitted", "checkQueued"}
    BY DEF insertMetadata, Runner, insertMetadataThrows, performDownloads, pollDownloads,
           RunnerMoves, Submit, TypeOK
  <1> SUFFICES ASSUME NEW c \in Downloaders, NEW e \in Elements, Verified(c, e)'
               PROVE  /\ Genuine(FileOf(e), SizeOf[e])
                      /\ \A b \in Downloaders : task'[b][e] \notin Writers
    BY <1>1 DEF KeptInv, Kept, FileOf
  <1>3. Verified(c, e)
    BY <1>2 DEF Verified, Completed
  <1>4. Genuine(FileOf(e), SizeOf[e]) /\ \A b \in Downloaders : task[b][e] \notin Writers
    BY <1>3 DEF KeptInv, Kept
  <1>5. {"metaQueued", "unsubmitted", "checkQueued"} \cap Writers = {}
    BY DEF Writers, DownloadWork
  <1> QED BY <1>2, <1>4, <1>5

\* What a dead object had compared is still genuine, and nobody writes.
LEMMA KillKeeps == KeptInv /\ kill => KeptInv'
  <1> SUFFICES ASSUME KeptInv, kill, NEW d \in Downloaders, NEW e \in Elements, Verified(d, e)'
               PROVE  /\ Genuine(FileOf(e), SizeOf[e])'
                      /\ \A c \in Downloaders : task'[c][e] \notin Writers
    BY DEF KeptInv, Kept
  <1>1. /\ disk' = disk
        /\ \A c \in Downloaders : task'[c][e] \in {task[c][e], "unsubmitted", "killed"}
        /\ \A c \in Downloaders : task'[c][e] \in Completed \cup {"unsubmitted", "killed"}
    BY DEF kill
  <1>2. Verified(d, e)
    BY <1>1 DEF Verified, Completed
  <1> QED BY <1>1, <1>2 DEF KeptInv, Kept, FileOf, Writers, DownloadWork, Completed

-----------------------------------------------------------------------------
\* A file that was compared with its listed hash keeps the published contents,
\* through the retries of its own object, later downloads and deaths of the
\* process: for any list of entries with files of their own.
THEOREM VerifiedKept ==
  ASSUME RetryInProcess = FALSE, NoSharedFiles
  PROVE  Spec => []VerifiedFilesKept
  <1>1. SharedFilesHashed
    BY DEF NoSharedFiles, SharedFilesHashed
  <1>2. Init => KeptInv
    BY DEF Init, KeptInv, Kept, Verified, Completed
  <1>3. TypeOK /\ DiskInv /\ KeptInv /\ [Next]_vars => KeptInv'
    <2> SUFFICES ASSUME TypeOK, DiskInv, KeptInv, [Next]_vars PROVE KeptInv'
      OBVIOUS
    <2>1. ASSUME NEW d \in Downloaders, NEW e \in Elements, Worker(d, e) PROVE KeptInv'
      <3>1. FileStep(d, e) /\ OneActive /\ MetaInv(d, e)
        BY <2>1, WorkerFiles DEF DiskInv
      <3>2. ASSUME NEW c \in Downloaders, NEW f \in Elements PROVE Kept(c, f)'
        <4>1. CASE c = d /\ f = e
          BY <3>1, <4>1, CompletedKept
        <4>2. CASE c # d \/ f # e
          BY <3>1, <4>2, KeptKept DEF KeptInv
        <4> QED BY <4>1, <4>2
      <3> QED BY <3>2 DEF KeptInv
    <2>2. CASE UNCHANGED vars
      BY <2>2 DEF vars, KeptInv, Kept, Verified, FileOf
    <2> QED BY <2>1, <2>2, RunnerKeeps, KillKeeps DEF Next
  <1>4. KeptInv => VerifiedFilesKept
    BY DEF KeptInv, Kept, VerifiedFilesKept
  <1> QED BY <1>1, <1>2, <1>3, <1>4, DiskInvariant, PTL DEF Spec
=============================================================================
