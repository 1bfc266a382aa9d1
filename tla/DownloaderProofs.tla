-------------------------- MODULE DownloaderProofs --------------------------
(***************************************************************************)
(* Proofs about Downloader: the file counter of an object is exact and the *)
(* retries of a download are limited, for any list, pools, faults and      *)
(* number of objects.                                                      *)
(***************************************************************************)
EXTENDS DownloaderTypeProofs, FiniteSetTheorems

(***************************************************************************)
(* The counter decides when performDownloads ends, while the tasks it      *)
(* counts run on.  What makes it exact is that each phase has stages of    *)
(* its own: no task of the metadata phase is left when the counter is      *)
(* reset, a finished entry is never worked on again, and a thread counts   *)
(* an entry in the very step that finishes it.                             *)
(***************************************************************************)
MetadataPhase == MetadataWork \cup {"unsubmitted", "metaQueued", "metaDone", "failed", "crashed"}
DownloadPhase == VerifyWork \cup DownloadWork \cup Completed
                 \cup {"checkQueued", "downloadQueued", "recheckQueued", "failed", "crashed"}

Finished(d, stages) == {e \in Elements : task[d][e] \in stages}

CounterTypes ==
    /\ task \in [Downloaders -> [Elements -> Stages]]
    /\ runner \in [Downloaders -> Running \cup {"idle", "done", "thrown", "bug", "killed"}]
    /\ fileCounter \in [Downloaders -> Nat]

Phases(d) ==
    /\ runner[d] = "inserting" =>
          /\ \A e \in Elements : task[d][e] \in MetadataPhase
          /\ fileCounter[d] = Cardinality(Finished(d, {"metaDone"}))
    /\ runner[d] \in {"downloading", "awaiting", "done"} =>
          /\ \A e \in Elements : task[d][e] \in DownloadPhase
          /\ fileCounter[d] = Cardinality(Finished(d, Completed))
    /\ runner[d] \in {"awaiting", "done"} => \A e \in Elements : task[d][e] \in Completed
    /\ runner[d] # "bug"

CounterInv == CounterTypes /\ \A d \in Downloaders : Phases(d)

-----------------------------------------------------------------------------
(* Counting.                                                               *)

\* An entry that was not counted adds one.
LEMMA CountOneMore ==
  ASSUME NEW S, IsFiniteSet(S), NEW A \in SUBSET S, NEW x \in S, x \notin A
  PROVE  Cardinality(A \cup {x}) = Cardinality(A) + 1
  BY FS_Subset, FS_AddElement

\* A counter at the total leaves nothing out.
LEMMA CountedAll ==
  ASSUME NEW S, IsFiniteSet(S), NEW A \in SUBSET S, Cardinality(A) >= Cardinality(S)
  PROVE  A = S
  BY FS_Subset, FS_CardinalityType

-----------------------------------------------------------------------------
(* The pool threads.                                                       *)

\* A worker moves its own entry within the phase, and counts it exactly when
\* the move finishes it.
Works(d, e) ==
    /\ task[d][e] \in InFlight
    /\ UNCHANGED runner
    /\ \E stage \in Stages :
          /\ task' = [task EXCEPT ![d][e] = stage]
          /\ task[d][e] \in MetadataPhase => stage \in MetadataPhase
          /\ task[d][e] \in DownloadPhase => stage \in DownloadPhase
          /\ fileCounter' = IF stage \in Completed \cup {"metaDone"}
                            THEN [fileCounter EXCEPT ![d] = @ + 1]
                            ELSE fileCounter

LEMMA WorkerWorks ==
  ASSUME CounterTypes, NEW d \in Downloaders, NEW e \in Elements, Worker(d, e)
  PROVE  Works(d, e)
  <1> USE DEF CounterTypes, Works, MoveTo, MetadataPhase, DownloadPhase, InFlight, Stages,
              MetadataWork, VerifyWork, DownloadWork, Completed
  <1>1. CASE takeTask(d, e)
    BY <1>1 DEF takeTask, TakeTask, objectVars
  <1>2. CASE acquireMetadata(d, e)
    <2>1. /\ task[d][e] = "acquiring"
          /\ MoveTo(d, e, "sizing") \/ MoveTo(d, e, "failed") \/ MoveTo(d, e, "crashed")
          /\ UNCHANGED <<runner, fileCounter>>
      BY <1>2 DEF acquireMetadata
    <2> QED BY <2>1
  <1>3. CASE getFileSize(d, e)
    BY <1>3 DEF getFileSize, objectVars
  <1>4. CASE getLibrarySha1Hash(d, e)
    <2>1. /\ task[d][e] = "hashing"
          /\ MoveTo(d, e, "metaDone") /\ fileComplete(d)
          /\ UNCHANGED runner
      BY <1>4 DEF getLibrarySha1Hash
    <2> QED BY <2>1 DEF fileComplete
  <1>5. CASE checkFileOnDisk(d, e)
    <2>1. /\ task[d][e] \in {"checking", "comparing"}
          /\ UNCHANGED runner
          /\ \/ /\ \/ MoveTo(d, e, "crashed") \/ MoveTo(d, e, "downloadQueued")
                   \/ MoveTo(d, e, "comparing") \/ MoveTo(d, e, "failed")
                /\ UNCHANGED fileCounter
             \/ MoveTo(d, e, "present") /\ fileComplete(d)
      BY <1>5 DEF checkFileOnDisk, FirstVerdict, Fails, objectVars
    <2> QED BY <2>1 DEF fileComplete
  <1>6. CASE recheckFileOnDisk(d, e)
    <2>1. /\ task[d][e] \in {"rechecking", "recomparing"}
          /\ UNCHANGED runner
          /\ \/ /\ MoveTo(d, e, "recomparing") \/ MoveTo(d, e, "failed")
                /\ UNCHANGED fileCounter
             \/ MoveTo(d, e, "downloaded") /\ fileComplete(d)
      BY <1>6 DEF recheckFileOnDisk, RecheckVerdict, Fails
    <2> QED BY <2>1 DEF fileComplete
  <1>7. CASE startFile(d, e)
    BY <1>7 DEF startFile, objectVars
  <1>13. CASE openFile(d, e)
    <2>1. /\ task[d][e] = "opening"
          /\ MoveTo(d, e, "copying") \/ MoveTo(d, e, "crashed")
          /\ UNCHANGED <<runner, fileCounter>>
      BY <1>13 DEF openFile, objectVars
    <2> QED BY <2>1
  <1>8. CASE continueFile(d, e)
    <2>1. /\ task[d][e] = "trying"
          /\ MoveTo(d, e, "connecting") \/ MoveTo(d, e, "crashed")
          /\ UNCHANGED <<runner, fileCounter>>
      BY <1>8 DEF continueFile
    <2> QED BY <2>1
  <1>9. CASE rangeAnswered(d, e)
    BY <1>9 DEF rangeAnswered, performRetry, TryAgain
  <1>10. CASE copyChunk(d, e)
    BY <1>10 DEF copyChunk
  <1>11. CASE endOfBody(d, e)
    BY <1>11 DEF endOfBody, submitFileForRecheck
  <1>12. CASE transferFails(d, e)
    BY <1>12 DEF transferFails, onIOException, performRetry, TryAgain, Fails
  <1> QED
    BY <1>1, <1>2, <1>3, <1>4, <1>5, <1>6, <1>7, <1>8, <1>9, <1>10, <1>11, <1>12,
       <1>13 DEF Worker

\* Such a move keeps the counter equal to the number of finished entries.
LEMMA WorksCounts ==
  ASSUME CounterInv, NEW d \in Downloaders, NEW e \in Elements, Works(d, e)
  PROVE  CounterInv'
  <1> PICK stage \in Stages :
          /\ task' = [task EXCEPT ![d][e] = stage]
          /\ task[d][e] \in MetadataPhase => stage \in MetadataPhase
          /\ task[d][e] \in DownloadPhase => stage \in DownloadPhase
          /\ fileCounter' = IF stage \in Completed \cup {"metaDone"}
                            THEN [fileCounter EXCEPT ![d] = @ + 1]
                            ELSE fileCounter
    BY DEF Works
  <1> USE DEF CounterInv, CounterTypes
  <1>1. CounterTypes'
    <2>1. fileCounter' \in [Downloaders -> Nat] /\ runner' = runner
      BY DEF Works
    <2>2. task' \in [Downloaders -> [Elements -> Stages]]
      OBVIOUS
    <2> QED BY <2>1, <2>2
  <1>2. ASSUME NEW c \in Downloaders, c # d PROVE Phases(c)'
    BY <1>2 DEF Works, Phases, Finished
  <1>3. ASSUME NEW stages, stage \in stages, task[d][e] \notin stages
        PROVE  Cardinality(Finished(d, stages)') = Cardinality(Finished(d, stages)) + 1
    <2>1. Finished(d, stages)' = Finished(d, stages) \cup {e}
      BY <1>3 DEF Finished
    <2>2. Finished(d, stages) \in SUBSET Elements /\ e \notin Finished(d, stages)
      BY <1>3 DEF Finished
    <2> QED BY <2>1, <2>2, CountOneMore, DownloaderAssumption
  <1>4. ASSUME NEW stages, stage \notin stages, task[d][e] \notin stages
        PROVE  Finished(d, stages)' = Finished(d, stages)
    BY <1>4 DEF Finished
  <1>5. task[d][e] \notin Completed /\ task[d][e] # "metaDone"
    BY DEF Works, InFlight, MetadataWork, VerifyWork, DownloadWork, Completed
  <1>6. runner' = runner /\ \A f \in Elements : f # e => task'[d][f] = task[d][f]
    BY DEF Works
  <1>7. Phases(d)'
    <2>1. CASE runner[d] = "inserting"
      <3>1. stage \in MetadataPhase /\ stage \notin Completed
        BY <2>1 DEF Phases, MetadataPhase, MetadataWork, Completed
      <3>2. CASE stage = "metaDone"
        BY <3>1, <3>2, <2>1, <1>3, <1>5, <1>6 DEF Phases
      <3>3. CASE stage # "metaDone"
        BY <3>1, <3>3, <2>1, <1>4, <1>5, <1>6 DEF Phases
      <3> QED BY <3>2, <3>3
    <2>2. CASE runner[d] \in {"downloading", "awaiting", "done"}
      <3>1. stage \in DownloadPhase /\ stage # "metaDone"
        BY <2>2 DEF Phases, DownloadPhase, VerifyWork, DownloadWork, Completed
      <3>2. runner[d] = "downloading"
        BY <2>2, <1>5 DEF Phases
      <3>3. CASE stage \in Completed
        BY <3>1, <3>2, <3>3, <1>3, <1>5, <1>6 DEF Phases
      <3>4. CASE stage \notin Completed
        BY <3>1, <3>2, <3>4, <1>4, <1>5, <1>6 DEF Phases
      <3> QED BY <3>3, <3>4
    <2>3. CASE runner[d] \notin {"inserting", "downloading", "awaiting", "done"}
      BY <2>3, <1>6 DEF Phases
    <2> QED BY <2>1, <2>2, <2>3
  <1> QED BY <1>1, <1>2, <1>7

-----------------------------------------------------------------------------
(* The runner's thread.                                                    *)

LEMMA CounterInit == Init => CounterInv
  BY DEF Init, CounterInv, CounterTypes, Phases, Stages, InFlight, Running

\* Each phase of runDownloads begins with the counter at zero and nothing
\* finished; the loop ends with every entry finished, so the pools are idle.
LEMMA RunnerCounts ==
  ASSUME CounterInv, NEW d \in Downloaders, insertMetadata(d) \/ Runner(d)
  PROVE  CounterInv'
  <1> USE DEF CounterInv, CounterTypes
  <1>1. CASE insertMetadata(d)
    <2> DEFINE stages == [e \in Elements |->
                 IF shouldCompleteMetadata(e) THEN "metaQueued" ELSE "unsubmitted"]
    <2>1. /\ runner' = [runner EXCEPT ![d] = "inserting"]
          /\ fileCounter' = [fileCounter EXCEPT ![d] = 0]
          /\ task' = [task EXCEPT ![d] = stages]
      BY <1>1 DEF insertMetadata, RunnerMoves, Submit
    <2>2. stages \in [Elements -> {"metaQueued", "unsubmitted"}]
      OBVIOUS
    <2> HIDE DEF stages
    <2>3. CounterTypes'
      BY <2>1, <2>2 DEF Stages, InFlight, Running
    <2>4. Finished(d, {"metaDone"})' = {}
      BY <2>1, <2>2 DEF Finished
    <2>5. Phases(d)'
      BY <2>1, <2>2, <2>4, FS_EmptySet DEF Phases, MetadataPhase
    <2>6. ASSUME NEW c \in Downloaders, c # d PROVE Phases(c)'
      BY <2>1, <2>6 DEF Phases, Finished
    <2> QED BY <2>3, <2>5, <2>6
  <1>2. CASE performDownloads(d)
    <2>1. /\ runner' = [runner EXCEPT ![d] = "downloading"]
          /\ fileCounter' = [fileCounter EXCEPT ![d] = 0]
          /\ task' = [task EXCEPT ![d] = [e \in Elements |-> "checkQueued"]]
      BY <1>2 DEF performDownloads, RunnerMoves, Submit
    <2>2. CounterTypes'
      BY <2>1 DEF Stages, InFlight, Running
    <2>3. Finished(d, Completed)' = {}
      BY <2>1 DEF Finished, Completed
    <2>4. Phases(d)'
      BY <2>1, <2>3, FS_EmptySet DEF Phases, DownloadPhase
    <2>5. ASSUME NEW c \in Downloaders, c # d PROVE Phases(c)'
      BY <2>1, <2>5 DEF Phases, Finished
    <2> QED BY <2>2, <2>4, <2>5
  <1>3. CASE insertMetadataThrows(d)
    <2>1. /\ UNCHANGED <<task, fileCounter>>
          /\ \E stage \in {"closing", "thrown"} : runner' = [runner EXCEPT ![d] = stage]
      BY <1>3 DEF insertMetadataThrows, RunnerMoves, objectVars
    <2>2. CounterTypes'
      BY <2>1 DEF Running
    <2>3. runner'[d] \notin {"inserting", "downloading", "awaiting", "done", "bug"}
      BY <2>1
    <2>4. Phases(d)'
      BY <2>3 DEF Phases
    <2>5. ASSUME NEW c \in Downloaders, c # d PROVE Phases(c)'
      BY <2>1, <2>5 DEF Phases, Finished
    <2> QED BY <2>2, <2>4, <2>5
  <1>4. CASE pollDownloads(d)
    <2>1. /\ UNCHANGED <<task, fileCounter>>
          /\ \/ runner' = [runner EXCEPT ![d] = "thrown"]
             \/ /\ fileCounter[d] >= Cardinality(Elements)
                /\ runner[d] = "downloading"
                /\ runner' = [runner EXCEPT ![d] = "awaiting"]
             \/ /\ runner[d] = "awaiting"
                /\ runner' = [runner EXCEPT ![d] = IF Terminated(d) THEN "done" ELSE "bug"]
      BY <1>4 DEF pollDownloads, RunnerMoves, objectVars
    <2>2. ASSUME NEW c \in Downloaders, c # d PROVE Phases(c)'
      BY <2>1, <2>2 DEF Phases, Finished
    <2>3. ASSUME runner[d] = "downloading", fileCounter[d] >= Cardinality(Elements)
          PROVE  \A e \in Elements : task[d][e] \in Completed
      <3>1. Finished(d, Completed) \in SUBSET Elements
        BY DEF Finished
      <3>2. Finished(d, Completed) = Elements
        BY <2>3, <3>1, CountedAll, DownloaderAssumption DEF Phases
      <3> QED BY <3>2 DEF Finished
    <2>4. runner[d] = "awaiting" => Terminated(d)
      BY DEF Phases, Terminated, Completed, InFlight, MetadataWork, VerifyWork, DownloadWork
    <2>5. Phases(d)'
      BY <2>1, <2>3, <2>4 DEF Phases, Finished
    <2>6. CounterTypes'
      BY <2>1 DEF Running
    <2> QED BY <2>2, <2>5, <2>6
  <1> QED BY <1>1, <1>2, <1>3, <1>4 DEF Runner

LEMMA KillCounts == CounterInv /\ kill => CounterInv'
  BY DEF CounterInv, CounterTypes, kill, Phases, Finished, Stages, Running

\* Each object counts the finished entries of its phase.
THEOREM CounterInvariant == Spec => []CounterInv
  <1>1. CounterInv /\ [Next]_vars => CounterInv'
    <2> SUFFICES ASSUME CounterInv, [Next]_vars PROVE CounterInv'
      OBVIOUS
    <2>1. ASSUME NEW d \in Downloaders, NEW e \in Elements, Worker(d, e) PROVE CounterInv'
      BY <2>1, WorkerWorks, WorksCounts DEF CounterInv
    <2>2. CASE UNCHANGED vars
      BY <2>2 DEF vars, objectVars, CounterInv, CounterTypes, Phases, Finished
    <2> QED BY <2>1, <2>2, RunnerCounts, KillCounts DEF Next
  <1> QED BY <1>1, CounterInit, PTL DEF Spec

\* mDownloadedFileCounter is the number of finished entries, for any list,
\* pool sizes, number of faults and objects.
THEOREM FileCounterCorrect == Spec => []FileCounterExact
  <1>1. CounterInv => FileCounterExact
    BY DEF CounterInv, Phases, Finished, FileCounterExact
  <1> QED BY <1>1, CounterInvariant, PTL

\* Hence performDownloads never throws "BUG! The file counter is wrong".
THEOREM CounterNeverWrong == Spec => []NoCounterBug
  <1>1. CounterInv => NoCounterBug
    BY DEF CounterInv, Phases, NoCounterBug
  <1> QED BY <1>1, CounterInvariant, PTL

-----------------------------------------------------------------------------
(***************************************************************************)
(* The retries of a download.  A chain started from the try block of       *)
(* attempt n (resume = n) is past n and asks for no range any more, so     *)
(* only a refusal on the last attempt itself starts one that never meets   *)
(* the last attempt again.                                                 *)
(***************************************************************************)
RetryInv(d, e) ==
    LET t == transfer[d][e]
    IN  /\ t.attempt > LastAttempt => t.resume = LastAttempt
        /\ t.resume # NoResume => t.attempt > t.resume /\ ~t.ranged
        /\ task[d][e] = "connecting" => t.ranged

RetryIInv == TypeOK /\ \A d \in Downloaders, e \in Elements : RetryInv(d, e)

\* What another attempt leaves of the arguments of tryDownload.
LEMMA TryAgainArguments ==
  ASSUME TypeOK, NEW d \in Downloaders, NEW e \in Elements,
         NEW attempt, NEW ranged, NEW resume, TryAgain(d, e, attempt, ranged, resume)
  PROVE  /\ transfer'[d][e].attempt = IF attempt > LastAttempt THEN attempt ELSE attempt + 1
         /\ transfer'[d][e].ranged = ranged
         /\ transfer'[d][e].resume = resume
         /\ task'[d][e] = "trying"
  <1>1. transfer[d][e] \in Transfer
    BY DEF TypeOK
  <1> QED BY <1>1 DEF TypeOK, Transfer, TryAgain, MoveTo

\* Every other step of the entry keeps them, and only continueFile connects.
LEMMA ArgumentsKept ==
  ASSUME TypeOK, NEW d \in Downloaders, NEW e \in Elements, RetryInv(d, e),
         transfer'[d][e].attempt = transfer[d][e].attempt,
         transfer'[d][e].ranged = transfer[d][e].ranged,
         transfer'[d][e].resume = transfer[d][e].resume,
         task'[d][e] = "connecting" => task[d][e] = "connecting" \/ transfer[d][e].ranged
  PROVE  RetryInv(d, e)'
  BY DEF RetryInv

LEMMA RetryWorker ==
  ASSUME RetryIInv, NEW d \in Downloaders, NEW e \in Elements, Worker(d, e)
  PROVE  RetryInv(d, e)'
  <1> DEFINE t == transfer[d][e]
  <1>1. /\ TypeOK /\ RetryInv(d, e)
        /\ t \in Transfer /\ t.attempt \in Nat /\ LastAttempt \in Nat
        /\ t.resume \in Nat \cup {NoResume} /\ t.ranged \in BOOLEAN
    BY DownloaderAssumption DEF RetryIInv, TypeOK, Transfer
  <1>2. CASE UNCHANGED transfer /\ task'[d][e] # "connecting"
    BY <1>1, <1>2, ArgumentsKept
  <1>3. ASSUME NEW stage, MoveTo(d, e, stage), stage # "connecting" PROVE task'[d][e] # "connecting"
    BY <1>1, <1>3 DEF TypeOK, MoveTo
  <1>4. CASE takeTask(d, e)
    BY <1>2, <1>3, <1>4 DEF takeTask, TakeTask
  <1>5. CASE acquireMetadata(d, e) \/ getFileSize(d, e) \/ getLibrarySha1Hash(d, e)
    BY <1>2, <1>3, <1>5 DEF acquireMetadata, getFileSize, getLibrarySha1Hash
  <1>6. CASE checkFileOnDisk(d, e) \/ recheckFileOnDisk(d, e)
    BY <1>2, <1>3, <1>6 DEF checkFileOnDisk, recheckFileOnDisk, FirstVerdict,
       RecheckVerdict, Fails
  <1>13. CASE openFile(d, e)
    BY <1>2, <1>3, <1>13 DEF openFile
  <1>7. CASE endOfBody(d, e)
    BY <1>2, <1>3, <1>7 DEF endOfBody, submitFileForRecheck
  <1>8. CASE startFile(d, e)
    <2>1. transfer'[d][e] = [t EXCEPT !.bytes = 0, !.pos = 1, !.append = FALSE]
      BY <1>8 DEF startFile, TypeOK, RetryIInv
    <2>2. task'[d][e] # "connecting"
      BY <1>3, <1>8 DEF startFile
    <2> QED BY <1>1, <2>1, <2>2, ArgumentsKept DEF Transfer
  <1>9. CASE continueFile(d, e)
    <2>1. transfer'[d][e] = [t EXCEPT !.bytes = LengthOf(FileOf(e))]
      BY <1>9 DEF continueFile, TypeOK, RetryIInv
    <2>2. t.ranged
      BY <1>9 DEF continueFile
    <2> QED BY <1>1, <2>1, <2>2, ArgumentsKept DEF Transfer
  <1>10. CASE copyChunk(d, e)
    <2>1. transfer'[d][e] = [t EXCEPT !.pos = t.pos + 1, !.bytes = t.bytes + 1]
      BY <1>10 DEF copyChunk, TypeOK, RetryIInv
    <2>2. task' = task
      BY <1>10 DEF copyChunk
    <2> QED BY <1>1, <2>1, <2>2, ArgumentsKept DEF Transfer
  <1>11. CASE rangeAnswered(d, e)
    <2>1. CASE performRetry(d, e, t.attempt, FALSE, t.attempt)
      <3>1. t.attempt <= LastAttempt
        BY <1>1, <1>11 DEF RetryInv, rangeAnswered, NoResume
      <3>2. /\ transfer'[d][e].attempt = t.attempt + 1
            /\ transfer'[d][e].ranged = FALSE
            /\ transfer'[d][e].resume = t.attempt
            /\ task'[d][e] = "trying"
        <4>1. TryAgain(d, e, t.attempt, FALSE, t.attempt) /\ TypeOK
          BY <1>1, <2>1 DEF performRetry
        <4>2. ~(t.attempt > LastAttempt)
          BY <1>1, <3>1
        <4> HIDE DEF t
        <4>3. /\ transfer'[d][e].attempt =
                     IF t.attempt > LastAttempt THEN t.attempt ELSE t.attempt + 1
              /\ transfer'[d][e].ranged = FALSE
              /\ transfer'[d][e].resume = t.attempt
              /\ task'[d][e] = "trying"
          BY <4>1, TryAgainArguments, Zenon
        <4> QED BY <4>2, <4>3
      <3> HIDE DEF t
      <3> QED BY <1>1, <3>1, <3>2 DEF RetryInv
    <2>2. CASE ~performRetry(d, e, t.attempt, FALSE, t.attempt)
      <3>1. transfer'[d][e] = [t EXCEPT !.pos = LengthOf(FileOf(e)) + 1, !.append = TRUE]
        <4>1. transfer' = [transfer EXCEPT ![d][e] =
                               [t EXCEPT !.pos = LengthOf(FileOf(e)) + 1, !.append = TRUE]]
          BY <1>11, <2>2 DEF rangeAnswered
        <4> QED BY <4>1 DEF TypeOK, RetryIInv
      <3>2. task'[d][e] # "connecting"
        BY <1>3, <1>11, <2>2 DEF rangeAnswered
      <3> QED BY <1>1, <3>1, <3>2, ArgumentsKept DEF Transfer
    <2> QED BY <2>1, <2>2
  <1>12. CASE transferFails(d, e)
    <2>1. CASE t.attempt # LastAttempt /\ performRetry(d, e, t.attempt, t.ranged, t.resume)
      BY <1>1, <2>1, TryAgainArguments DEF performRetry, RetryInv, NoResume
    <2>2. CASE t.attempt = LastAttempt /\ t.resume # NoResume
                 /\ performRetry(d, e, t.resume, FALSE, NoResume)
      <3>1. t.resume \in Nat /\ t.resume < LastAttempt
        BY <1>1, <2>2 DEF RetryInv
      <3>2. /\ transfer'[d][e].attempt = t.resume + 1
            /\ transfer'[d][e].ranged = FALSE
            /\ transfer'[d][e].resume = NoResume
            /\ task'[d][e] = "trying"
        <4>1. TryAgain(d, e, t.resume, FALSE, NoResume) /\ TypeOK
          BY <1>1, <2>2 DEF performRetry
        <4>2. ~(t.resume > LastAttempt)
          BY <1>1, <3>1
        <4> HIDE DEF t
        <4> QED BY <4>1, <4>2, TryAgainArguments, Zenon
      <3> HIDE DEF t
      <3> QED BY <1>1, <3>1, <3>2 DEF RetryInv
    <2>3. CASE UNCHANGED transfer
      BY <1>2, <1>3, <1>12, <2>3 DEF transferFails, onIOException, Fails, performRetry, TryAgain
    <2> QED BY <1>12, <2>1, <2>2, <2>3 DEF transferFails, onIOException
  <1> QED BY <1>4, <1>5, <1>6, <1>7, <1>8, <1>9, <1>10, <1>11, <1>12, <1>13 DEF Worker

\* A task changes nothing of another entry's task and transfer.
LEMMA OthersKept ==
  ASSUME TypeOK, NEW d \in Downloaders, NEW e \in Elements, Worker(d, e),
         NEW c \in Downloaders, NEW f \in Elements, <<c, f>> # <<d, e>>
  PROVE  transfer'[c][f] = transfer[c][f] /\ task'[c][f] = task[c][f]
  <1>1. task'[c][f] = task[c][f]
    BY WorkerWorks DEF Works, TypeOK, CounterTypes
  <1>2. UNCHANGED transfer \/ \E t : transfer' = [transfer EXCEPT ![d][e] = t]
    BY DEF Worker, takeTask, TakeTask, acquireMetadata, getFileSize, getLibrarySha1Hash,
       checkFileOnDisk, recheckFileOnDisk, startFile, openFile, continueFile, rangeAnswered,
       copyChunk, endOfBody, transferFails, onIOException, performRetry, TryAgain
  <1> QED BY <1>1, <1>2 DEF TypeOK

\* The arguments of tryDownload stay within those bounds.
THEOREM RetryInvariant == Spec => []RetryIInv
  <1>1. Init => RetryIInv
    <2> SUFFICES ASSUME Init, NEW d \in Downloaders, NEW e \in Elements PROVE RetryInv(d, e)
      BY TypeInit DEF RetryIInv
    <2> QED BY DownloaderAssumption DEF Init, RetryInv, NewTransfer
  <1>2. RetryIInv /\ TypeOK' /\ [Next]_vars => RetryIInv'
    <2> SUFFICES ASSUME RetryIInv, TypeOK', [Next]_vars,
                        NEW c \in Downloaders, NEW f \in Elements
                 PROVE  RetryInv(c, f)'
      BY DEF RetryIInv
    <2> USE DEF RetryIInv
    <2>1. ASSUME NEW d \in Downloaders, NEW e \in Elements, Worker(d, e) PROVE RetryInv(c, f)'
      <3>1. CASE <<c, f>> = <<d, e>>
        BY <2>1, <3>1, RetryWorker
      <3>2. CASE <<c, f>> # <<d, e>>
        BY <2>1, <3>2, OthersKept, ArgumentsKept
      <3> QED BY <3>1, <3>2
    <2>2. ASSUME NEW d \in Downloaders, insertMetadata(d) \/ performDownloads(d)
          PROVE  RetryInv(c, f)'
      <3>1. PICK stages \in [Elements -> {"metaQueued", "unsubmitted", "checkQueued"}] :
               transfer' = transfer /\ task' = [task EXCEPT ![d] = stages]
        BY <2>2 DEF insertMetadata, performDownloads, RunnerMoves, Submit
      <3>2. task'[c][f] = "connecting" => task[c][f] = "connecting"
        BY <3>1 DEF TypeOK
      <3> QED BY <3>1, <3>2, ArgumentsKept
    <2>3. ASSUME NEW d \in Downloaders, insertMetadataThrows(d) \/ pollDownloads(d)
          PROVE  RetryInv(c, f)'
      <3>1. transfer' = transfer /\ task' = task
        BY <2>3 DEF insertMetadataThrows, pollDownloads, RunnerMoves
      <3> QED BY <3>1, ArgumentsKept
    <2>4. CASE kill
      BY <2>4, DownloaderAssumption DEF kill, RetryInv, NewTransfer
    <2>5. CASE UNCHANGED vars
      BY <2>5, ArgumentsKept DEF vars
    <2> QED BY <2>1, <2>2, <2>3, <2>4, <2>5 DEF Next, Runner
  <1> QED BY <1>1, <1>2, TypeCorrect, PTL DEF Spec

\* tryDownload passes its last attempt only if the server refused to continue
\* the file on the last attempt itself.
THEOREM RetryLimited == Spec => []RetryLimit
  <1>1. RetryIInv => RetryLimit
    BY DEF RetryIInv, RetryInv, RetryLimit
  <1> QED BY <1>1, RetryInvariant, PTL
=============================================================================
