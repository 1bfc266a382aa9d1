------------------------ MODULE DownloaderTypeProofs ------------------------
(***************************************************************************)
(* The type invariant of Downloader, for any list, files and faults.       *)
(***************************************************************************)
EXTENDS Downloader, TLAPS

\* What the writes of a stream leave is a file.
LEMMA WrittenAt ==
  ASSUME NEW file \in File, NEW pos \in Nat, NEW chunk \in BOOLEAN
  PROVE  WriteAt(file, pos, chunk) \in File
  <1> DEFINE last == IF pos > LengthOf(file) THEN pos ELSE LengthOf(file)
             data == [i \in 1..last |->
                        IF i = pos THEN chunk ELSE i <= LengthOf(file) /\ file.data[i]]
  <1>1. last \in Nat
    BY DEF File, LengthOf
  <1>2. \A i \in 1..last : (IF i = pos THEN chunk ELSE i <= LengthOf(file) /\ file.data[i]) \in BOOLEAN
    OBVIOUS
  <1>3. data \in [1..last -> BOOLEAN]
    BY <1>2
  <1> HIDE DEF last, data
  <1>4. data \in Seq(BOOLEAN)
    BY <1>1, <1>3
  <1> QED BY <1>4 DEF File, WriteAt, last, data

LEMMA WrittenAppended ==
  ASSUME NEW file \in File, NEW chunk \in BOOLEAN
  PROVE  WriteAppended(file, chunk) \in File
  BY DEF File, WriteAppended

LEMMA LengthIsNatural == ASSUME NEW file \in File PROVE LengthOf(file) \in Nat
  BY DEF File, LengthOf

LEMMA MetadataTyped == ASSUME NEW e \in Elements PROVE InitialMetadata(e) \in Metadata
  BY DownloaderAssumption DEF InitialMetadata, Metadata, Hash, ListingEntry, Unknown

LEMMA TypeInit == Init => TypeOK
  <1> SUFFICES ASSUME Init PROVE TypeOK
    OBVIOUS
  <1>1. disk \in [Paths -> File]
    BY DownloaderAssumption DEF Init
  <1>2. meta \in [Downloaders -> [Elements -> Metadata]]
    BY MetadataTyped DEF Init
  <1>3. transfer \in [Downloaders -> [Elements -> Transfer]]
    BY DEF Init, NewTransfer, Transfer, NoResume
  <1>4. faults \in 0..MaxFaults
    BY DownloaderAssumption DEF Init
  <1> QED BY <1>1, <1>2, <1>3, <1>4 DEF Init, TypeOK, Running, Stages, InFlight

-----------------------------------------------------------------------------
\* A move of a task, a change of the counters and a failure keep the types.
LEMMA MoveTyped ==
  ASSUME TypeOK, NEW d \in Downloaders, NEW e \in Elements, NEW stage \in Stages,
         MoveTo(d, e, stage)
  PROVE  task' \in [Downloaders -> [Elements -> Stages]]
  BY DEF TypeOK, MoveTo

LEMMA SizeTyped ==
  ASSUME TypeOK, NEW d \in Downloaders, NEW n \in Int, addSize(d, n)
  PROVE  sizeCounter' \in [Downloaders -> Int]
  BY DEF TypeOK, addSize

LEMMA CounterTyped ==
  ASSUME TypeOK, NEW d \in Downloaders, fileComplete(d)
  PROVE  fileCounter' \in [Downloaders -> Nat]
  BY DEF TypeOK, fileComplete

LEMMA ExceptionTyped ==
  ASSUME TypeOK, NEW d \in Downloaders, taskException(d)
  PROVE  exception' \in [Downloaders -> BOOLEAN]
  BY DEF TypeOK, taskException

LEMMA FaultTyped == ASSUME TypeOK, Fault PROVE faults' \in 0..MaxFaults
  BY DownloaderAssumption DEF TypeOK, Fault

LEMMA TransferTyped ==
  ASSUME TypeOK, NEW d \in Downloaders, NEW e \in Elements, NEW t \in Transfer,
         transfer' = [transfer EXCEPT ![d][e] = t]
  PROVE  transfer' \in [Downloaders -> [Elements -> Transfer]]
  BY DEF TypeOK

LEMMA MetaTyped ==
  ASSUME TypeOK, NEW d \in Downloaders, NEW e \in Elements, NEW m \in Metadata,
         meta' = [meta EXCEPT ![d][e] = m]
  PROVE  meta' \in [Downloaders -> [Elements -> Metadata]]
  BY DEF TypeOK

LEMMA DiskTyped ==
  ASSUME TypeOK, NEW e \in Elements, NEW file \in File,
         disk' = [disk EXCEPT ![PathOf[e]] = file]
  PROVE  disk' \in [Paths -> File]
  BY DEF TypeOK

LEMMA StageNames ==
  /\ MetadataWork \cup VerifyWork \cup DownloadWork \cup InFlight \cup Completed \subseteq Stages
  /\ {"unsubmitted", "metaQueued", "sizing", "hashing", "metaDone", "failed", "crashed", "killed",
      "checkQueued", "checking", "comparing", "present", "downloadQueued", "trying", "opening",
      "connecting", "copying", "recheckQueued", "rechecking", "recomparing", "downloaded"}
        \subseteq Stages
  BY DEF Stages, InFlight, Completed, MetadataWork, VerifyWork, DownloadWork

LEMMA RetryTyped ==
  ASSUME TypeOK, NEW d \in Downloaders, NEW e \in Elements, NEW attempt \in Nat,
         NEW ranged \in BOOLEAN, NEW resume \in Nat \cup {NoResume},
         performRetry(d, e, attempt, ranged, resume)
  PROVE  /\ transfer' \in [Downloaders -> [Elements -> Transfer]]
         /\ task' \in [Downloaders -> [Elements -> Stages]]
         /\ sizeCounter' \in [Downloaders -> Int]
         /\ UNCHANGED exception
  <1>1. transfer[d][e] \in Transfer
    BY DEF TypeOK
  <1>2. -transfer[d][e].bytes \in Int
    BY <1>1 DEF Transfer
  <1> DEFINE t == [transfer[d][e] EXCEPT
             !.attempt = IF attempt > LastAttempt THEN attempt ELSE attempt + 1,
             !.ranged = ranged, !.resume = resume]
  <1>3. t \in Transfer
    <2>1. (IF attempt > LastAttempt THEN attempt ELSE attempt + 1) \in Nat
      BY DownloaderAssumption
    <2> QED BY <1>1, <2>1 DEF Transfer
  <1>4. transfer' \in [Downloaders -> [Elements -> Transfer]]
    <2>1. transfer' = [transfer EXCEPT ![d][e] = t]
      BY DEF performRetry, TryAgain
    <2> HIDE DEF t
    <2> QED BY <1>3, <2>1, TransferTyped
  <1> QED BY <1>2, <1>4, SizeTyped, MoveTyped, StageNames DEF performRetry, TryAgain

-----------------------------------------------------------------------------
(* One lemma for each thread: the runner, and the tasks of the three pools. *)

LEMMA RunnerTyped ==
  ASSUME TypeOK, NEW d \in Downloaders, insertMetadata(d) \/ Runner(d)
  PROVE  TypeOK'
  <1>1. CASE insertMetadata(d)
    BY <1>1, StageNames DEF TypeOK, insertMetadata, RunnerMoves, Submit, Running
  <1>2. CASE insertMetadataThrows(d)
    BY <1>2 DEF TypeOK, insertMetadataThrows, RunnerMoves, Running, objectVars
  <1>3. CASE performDownloads(d)
    BY <1>3, StageNames DEF TypeOK, performDownloads, RunnerMoves, Submit, Running
  <1>4. CASE pollDownloads(d)
    BY <1>4 DEF TypeOK, pollDownloads, RunnerMoves, Running, objectVars
  <1> QED BY <1>1, <1>2, <1>3, <1>4 DEF Runner

LEMMA TakeTaskTyped ==
  ASSUME TypeOK, NEW d \in Downloaders, NEW e \in Elements, takeTask(d, e)
  PROVE  TypeOK'
  <1>1. task' \in [Downloaders -> [Elements -> Stages]]
    <2>1. PICK stage \in Stages : MoveTo(d, e, stage)
      BY StageNames DEF takeTask, TakeTask, MetadataWork
    <2> QED BY <2>1, MoveTyped
  <1> QED BY <1>1 DEF TypeOK, takeTask, TakeTask, objectVars

LEMMA MetadataTaskTyped ==
  ASSUME TypeOK, NEW d \in Downloaders, NEW e \in Elements,
         acquireMetadata(d, e) \/ getFileSize(d, e) \/ getLibrarySha1Hash(d, e)
  PROVE  TypeOK'
  <1>1. meta[d][e] \in Metadata /\ SizeOf[e] \in Int
    BY DownloaderAssumption DEF TypeOK
  <1>2. CASE acquireMetadata(d, e)
    <2>1. meta' \in [Downloaders -> [Elements -> Metadata]]
      <3>1. CASE UNCHANGED meta
        BY <3>1 DEF TypeOK
      <3>2. CASE ~UNCHANGED meta
        <4> PICK m \in Metadata : meta' = [meta EXCEPT ![d][e] = m]
          BY <1>1, <1>2, <3>2 DEF acquireMetadata, Metadata, Hash
        <4> QED BY MetaTyped
      <3> QED BY <3>1, <3>2
    <2>2. task' \in [Downloaders -> [Elements -> Stages]]
      BY <1>2, MoveTyped, StageNames DEF acquireMetadata
    <2>3. exception' \in [Downloaders -> BOOLEAN]
      BY <1>2, ExceptionTyped DEF acquireMetadata, TypeOK
    <2>4. faults' \in 0..MaxFaults
      BY <1>2, FaultTyped DEF acquireMetadata, TypeOK
    <2> QED BY <1>2, <2>1, <2>2, <2>3, <2>4 DEF acquireMetadata, TypeOK
  <1>3. CASE getFileSize(d, e)
    <2>1. meta' \in [Downloaders -> [Elements -> Metadata]]
      <3>1. CASE UNCHANGED meta
        BY <3>1 DEF TypeOK
      <3>2. CASE ~UNCHANGED meta
        <4>1. PICK size \in Int : meta' = [meta EXCEPT ![d][e].size = size]
          BY <1>1, <1>3, <3>2 DEF getFileSize, Unknown
        <4>2. [meta[d][e] EXCEPT !.size = size] \in Metadata
          BY <1>1 DEF Metadata
        <4>3. meta' = [meta EXCEPT ![d][e] = [meta[d][e] EXCEPT !.size = size]]
          BY <4>1
        <4> QED BY <4>2, <4>3, MetaTyped
      <3> QED BY <3>1, <3>2
    <2>2. task' \in [Downloaders -> [Elements -> Stages]]
      BY <1>3, MoveTyped, StageNames DEF getFileSize
    <2> QED BY <1>3, <2>1, <2>2 DEF getFileSize, TypeOK, objectVars
  <1>4. CASE getLibrarySha1Hash(d, e)
    <2>1. meta' \in [Downloaders -> [Elements -> Metadata]]
      <3>1. CASE UNCHANGED meta
        BY <3>1 DEF TypeOK
      <3>2. CASE ~UNCHANGED meta
        <4>1. PICK hash \in Hash : meta' = [meta EXCEPT ![d][e].hash = hash]
          BY <1>4, <3>2 DEF getLibrarySha1Hash
        <4>2. [meta[d][e] EXCEPT !.hash = hash] \in Metadata
          BY <1>1 DEF Metadata
        <4>3. meta' = [meta EXCEPT ![d][e] = [meta[d][e] EXCEPT !.hash = hash]]
          BY <4>1
        <4> QED BY <4>2, <4>3, MetaTyped
      <3> QED BY <3>1, <3>2
    <2>2. task' \in [Downloaders -> [Elements -> Stages]]
      BY <1>4, MoveTyped, StageNames DEF getLibrarySha1Hash
    <2>3. fileCounter' \in [Downloaders -> Nat]
      BY <1>4, CounterTyped DEF getLibrarySha1Hash
    <2>4. useSize' \in [Downloaders -> BOOLEAN]
      BY <1>4 DEF getLibrarySha1Hash, disableSizeCounter, TypeOK
    <2> QED BY <1>4, <2>1, <2>2, <2>3, <2>4 DEF getLibrarySha1Hash, TypeOK
  <1> QED BY <1>2, <1>3, <1>4

LEMMA VerifyTaskTyped ==
  ASSUME TypeOK, NEW d \in Downloaders, NEW e \in Elements,
         checkFileOnDisk(d, e) \/ recheckFileOnDisk(d, e)
  PROVE  TypeOK'
  <1>1. meta[d][e].size \in Int
    BY DEF TypeOK, Metadata
  <1>2. CASE checkFileOnDisk(d, e)
    <2>1. \/ MoveTo(d, e, "crashed") /\ UNCHANGED objectVars
          \/ \E verdict \in {checkFile(d, e, FALSE), compareSHA1(d, e)} :
                FirstVerdict(d, e, verdict)
      BY <1>2 DEF checkFileOnDisk
    <2>2. task' \in [Downloaders -> [Elements -> Stages]]
      BY <2>1, MoveTyped, StageNames DEF FirstVerdict, Fails
    <2>3. fileCounter' \in [Downloaders -> Nat]
      BY <2>1, CounterTyped DEF FirstVerdict, TypeOK, objectVars
    <2>4. sizeCounter' \in [Downloaders -> Int]
      BY <1>1, <2>1, SizeTyped DEF FirstVerdict, TypeOK, objectVars
    <2>5. exception' \in [Downloaders -> BOOLEAN] /\ useSize' = useSize
      BY <2>1, ExceptionTyped DEF FirstVerdict, Fails, TypeOK, objectVars
    <2> QED BY <1>2, <2>2, <2>3, <2>4, <2>5 DEF checkFileOnDisk, TypeOK
  <1>3. CASE recheckFileOnDisk(d, e)
    <2>1. \E verdict \in {checkFile(d, e, TRUE), compareSHA1(d, e)} :
             RecheckVerdict(d, e, verdict)
      BY <1>3 DEF recheckFileOnDisk
    <2>2. task' \in [Downloaders -> [Elements -> Stages]]
      BY <2>1, MoveTyped, StageNames DEF RecheckVerdict, Fails
    <2>3. fileCounter' \in [Downloaders -> Nat]
      BY <2>1, CounterTyped DEF RecheckVerdict, TypeOK
    <2>4. exception' \in [Downloaders -> BOOLEAN]
      BY <2>1, ExceptionTyped DEF RecheckVerdict, Fails, TypeOK
    <2> QED BY <1>3, <2>2, <2>3, <2>4 DEF recheckFileOnDisk, TypeOK
  <1> QED BY <1>2, <1>3

LEMMA IOExceptionTyped ==
  ASSUME TypeOK, NEW d \in Downloaders, NEW e \in Elements, onIOException(d, e)
  PROVE  /\ transfer' \in [Downloaders -> [Elements -> Transfer]]
         /\ task' \in [Downloaders -> [Elements -> Stages]]
         /\ sizeCounter' \in [Downloaders -> Int]
         /\ exception' \in [Downloaders -> BOOLEAN]
         /\ faults' \in 0..MaxFaults
  <1> DEFINE t == transfer[d][e]
  <1>1. /\ t.attempt \in Nat /\ t.ranged \in BOOLEAN
        /\ t.resume \in Nat \cup {NoResume}
    BY DEF TypeOK, Transfer
  <1>2. faults' \in 0..MaxFaults
    BY FaultTyped DEF onIOException
  <1>3. UNCHANGED exception => exception' \in [Downloaders -> BOOLEAN]
    BY DEF TypeOK
  <1>4. CASE performRetry(d, e, t.attempt, t.ranged, t.resume)
    BY <1>1, <1>2, <1>3, <1>4, RetryTyped
  <1>5. CASE t.resume # NoResume /\ performRetry(d, e, t.resume, FALSE, NoResume)
    BY <1>1, <1>2, <1>3, <1>5, RetryTyped
  <1>6. CASE Fails(d, e) /\ UNCHANGED <<sizeCounter, transfer>>
    BY <1>2, <1>6, MoveTyped, ExceptionTyped, StageNames DEF Fails, TypeOK
  <1>7. CASE MoveTo(d, e, "crashed") /\ UNCHANGED <<exception, sizeCounter, transfer>>
    BY <1>2, <1>7, MoveTyped, StageNames DEF TypeOK
  <1> QED BY <1>4, <1>5, <1>6, <1>7 DEF onIOException

\* The steps of a download that move, create or write the file.
LEMMA DownloadTaskTyped ==
  ASSUME TypeOK, NEW d \in Downloaders, NEW e \in Elements,
         startFile(d, e) \/ openFile(d, e) \/ continueFile(d, e) \/ copyChunk(d, e)
  PROVE  TypeOK'
  <1> DEFINE t == transfer[d][e]
             file == FileOf(e)
  <1>1. t \in Transfer /\ file \in File /\ t.bytes \in Nat /\ t.pos \in Nat
    BY DEF TypeOK, Paths, FileOf, Transfer
  <1>2. CASE startFile(d, e)
    <2>1. transfer' \in [Downloaders -> [Elements -> Transfer]]
      <3>1. [t EXCEPT !.bytes = 0, !.pos = 1, !.append = FALSE] \in Transfer
        BY <1>1 DEF Transfer
      <3> QED BY <1>2, <3>1, TransferTyped DEF startFile
    <2>2. task' \in [Downloaders -> [Elements -> Stages]]
      BY <1>2, MoveTyped, StageNames DEF startFile
    <2> QED BY <1>2, <2>1, <2>2 DEF startFile, TypeOK, objectVars
  <1>5. CASE openFile(d, e)
    <2>1. disk' \in [Paths -> File]
      <3>1. Truncated \in File
        BY DEF Truncated, File
      <3> QED BY <1>5, <3>1, DiskTyped DEF openFile, TypeOK
    <2>2. task' \in [Downloaders -> [Elements -> Stages]]
      BY <1>5, MoveTyped, StageNames DEF openFile
    <2> QED BY <1>5, <2>1, <2>2 DEF openFile, TypeOK, objectVars
  <1>3. CASE continueFile(d, e)
    <2>1. LengthOf(file) \in Nat
      BY <1>1, LengthIsNatural
    <2>2. transfer' \in [Downloaders -> [Elements -> Transfer]]
      <3>1. [t EXCEPT !.bytes = LengthOf(file)] \in Transfer
        BY <1>1, <2>1 DEF Transfer
      <3>2. transfer' = [transfer EXCEPT ![d][e] = [t EXCEPT !.bytes = LengthOf(file)]]
        BY <1>3 DEF continueFile
      <3> QED BY <3>1, <3>2, TransferTyped
    <2>3. sizeCounter' \in [Downloaders -> Int]
      BY <1>3, <2>1, SizeTyped DEF continueFile
    <2>4. task' \in [Downloaders -> [Elements -> Stages]]
      BY <1>3, MoveTyped, StageNames DEF continueFile
    <2> QED BY <1>3, <2>2, <2>3, <2>4 DEF continueFile, TypeOK
  <1>4. CASE copyChunk(d, e)
    <2>1. transfer' \in [Downloaders -> [Elements -> Transfer]]
      <3>1. [t EXCEPT !.pos = t.pos + 1, !.bytes = t.bytes + 1] \in Transfer
        <4>1. t.pos + 1 \in Nat /\ t.bytes + 1 \in Nat
          BY <1>1
        <4> HIDE DEF t
        <4> QED BY <1>1, <4>1 DEF Transfer
      <3> QED BY <1>4, <3>1, TransferTyped DEF copyChunk
    <2>2. disk' \in [Paths -> File]
      <3>1. PICK intact \in BOOLEAN :
               disk' = [disk EXCEPT ![PathOf[e]] =
                  IF t.append
                  THEN WriteAppended(file, intact /\ LengthOf(file) + 1 = t.pos)
                  ELSE WriteAt(file, t.pos, intact)]
        BY <1>4 DEF copyChunk, FileOf
      <3>2. WriteAppended(file, intact /\ LengthOf(file) + 1 = t.pos) \in File
        BY <1>1, WrittenAppended
      <3>3. WriteAt(file, t.pos, intact) \in File
        BY <1>1, WrittenAt
      <3> QED BY <3>1, <3>2, <3>3, DiskTyped
    <2>3. sizeCounter' \in [Downloaders -> Int]
      BY <1>4, SizeTyped DEF copyChunk
    <2> QED BY <1>4, <2>1, <2>2, <2>3 DEF copyChunk, TypeOK
  <1> QED BY <1>2, <1>3, <1>4, <1>5

\* The steps that depend on the server's answer.
LEMMA AnswerTyped ==
  ASSUME TypeOK, NEW d \in Downloaders, NEW e \in Elements,
         rangeAnswered(d, e) \/ endOfBody(d, e) \/ transferFails(d, e)
  PROVE  TypeOK'
  <1> DEFINE t == transfer[d][e]
  <1>1. t \in Transfer /\ t.bytes \in Nat /\ t.attempt \in Nat
    BY DEF TypeOK, Transfer
  <1>2. CASE rangeAnswered(d, e)
    <2>1. ASSUME performRetry(d, e, t.attempt, FALSE, t.attempt) PROVE TypeOK'
      BY <1>1, <1>2, <2>1, RetryTyped DEF rangeAnswered, TypeOK
    <2>2. ASSUME ~performRetry(d, e, t.attempt, FALSE, t.attempt) PROVE TypeOK'
      <3>1. transfer' \in [Downloaders -> [Elements -> Transfer]]
        <4> DEFINE next == LengthOf(FileOf(e)) + 1
        <4>1. FileOf(e) \in File
          BY DEF TypeOK, Paths, FileOf
        <4>2. next \in Nat
          BY <4>1, LengthIsNatural
        <4>3. transfer' = [transfer EXCEPT ![d][e] = [t EXCEPT !.pos = next, !.append = TRUE]]
          BY <1>2, <2>2 DEF rangeAnswered
        <4> HIDE DEF t, next
        <4>4. [t EXCEPT !.pos = next, !.append = TRUE] \in Transfer
          BY <1>1, <4>2 DEF Transfer
        <4> QED BY <4>3, <4>4, TransferTyped
      <3>2. task' \in [Downloaders -> [Elements -> Stages]]
        BY <1>2, <2>2, MoveTyped, StageNames DEF rangeAnswered
      <3> QED BY <1>2, <2>2, <3>1, <3>2 DEF rangeAnswered, TypeOK
    <2> QED BY <2>1, <2>2
  <1>3. CASE endOfBody(d, e)
    <2>1. task' \in [Downloaders -> [Elements -> Stages]]
      BY <1>3, MoveTyped, StageNames DEF endOfBody, submitFileForRecheck
    <2> QED BY <1>3, <2>1 DEF endOfBody, submitFileForRecheck, TypeOK
  <1>4. CASE transferFails(d, e)
    BY <1>4, IOExceptionTyped DEF transferFails, TypeOK
  <1> QED BY <1>2, <1>3, <1>4

LEMMA KillTyped == TypeOK /\ kill => TypeOK'
  <1> SUFFICES ASSUME TypeOK, kill PROVE TypeOK'
    OBVIOUS
  <1>1. meta' \in [Downloaders -> [Elements -> Metadata]]
    BY MetadataTyped DEF kill
  <1>2. transfer' \in [Downloaders -> [Elements -> Transfer]]
    BY DEF kill, NewTransfer, Transfer, NoResume
  <1>3. task' \in [Downloaders -> [Elements -> Stages]]
    BY StageNames DEF kill, TypeOK
  <1> QED BY <1>1, <1>2, <1>3 DEF kill, TypeOK

\* Every variable of Downloader keeps its type.
THEOREM TypeCorrect == Spec => []TypeOK
  <1>1. TypeOK /\ [Next]_vars => TypeOK'
    <2> SUFFICES ASSUME TypeOK, [Next]_vars PROVE TypeOK'
      OBVIOUS
    <2>1. ASSUME NEW d \in Downloaders, NEW e \in Elements, Worker(d, e) PROVE TypeOK'
      BY <2>1, TakeTaskTyped, MetadataTaskTyped, VerifyTaskTyped, DownloadTaskTyped,
         AnswerTyped DEF Worker
    <2>2. CASE UNCHANGED vars
      BY <2>2 DEF vars, objectVars, TypeOK
    <2> QED BY <2>1, <2>2, RunnerTyped, KillTyped DEF Next
  <1> QED BY <1>1, TypeInit, PTL DEF Spec
=============================================================================
