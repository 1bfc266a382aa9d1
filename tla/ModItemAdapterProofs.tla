------------------------ MODULE ModItemAdapterProofs ------------------------
(* Proofs about the rows of the mod search, for any rows, items, requests  *)
(* and loads, and any sizes of the pool and of the number of retries.      *)
EXTENDS ModItemAdapter, TLAPS

(***************************************************************************)
(* The inductive invariant.                                                *)
(***************************************************************************)

\* A download that is under way has a retry left.
Retrying == \A r \in Receivers : request[r] \in Downloading => retries[r] < MaxRetries

\* A request belongs to the row and has the tag it was made for.
Requested ==
    \A r \in Receivers :
        request[r] # "none" => rowOf[r] \in Rows /\ tag[r] \in Tags

\* The receiver of a row asked for the icon of the row's item.
Received ==
    \A row \in Rows : receiver[row] # None =>
        LET r == receiver[row]
        IN  request[r] # "none" /\ rowOf[r] = row /\ tag[r] = item[row]

\* A request that is under way was cancelled, or its row waits for it.
LiveRequest ==
    \A r \in Receivers :
        request[r] \notin Ended \cup {"none"} /\ r \notin cancelled => receiver[rowOf[r]] = r

\* A load belongs to the row that was tapped, and to that row's Future.
Loading ==
    /\ \A l \in Loads : load[l] # "none" => rowOf[l] \in Rows
    /\ \A row \in Rows : future[row] # None =>
        load[future[row]] # "none" /\ rowOf[future[row]] = row

\* A load that was not cancelled fetches the details of the item of its row.
LoadOfItem ==
    \A l \in Loads :
        load[l] \in {"fetching", "posted"} /\ l \notin interrupted => loadItem[l] = item[rowOf[l]]

IInv ==
    /\ TypeOK /\ Retrying
    /\ Requested /\ Received /\ LiveRequest /\ ImageOfItem
    /\ Loading /\ RightFuture /\ LoadOfItem /\ WrongDetailsCameLate

(***************************************************************************)
(* The icon cache.                                                         *)
(***************************************************************************)

\* What a step of the cache may do to a request: it goes on, it fails, or it
\* is given up because its row cancelled it.
Advances(r) ==
    /\ request[r] \notin Ended \cup {"none"}
    /\ UNCHANGED <<tag, cancelled>>
    /\ \E s \in RequestStages \ {"none", "delivered"} :
          /\ request' = [request EXCEPT ![r] = s]
          /\ s = "dropped" => r \in cancelled
          /\ s \in Downloading => retries'[r] < MaxRetries
    /\ \A q \in Receivers \ {r} : retries'[q] = retries[q]

LEMMA QueueAdvances ==
  ASSUME IInv, NEW r \in Receivers, readFromDisk(r) \/ downloadImage(r) \/ decodeIcon(r)
  PROVE  CacheTypeOK' /\ Advances(r)
  <1> USE DEF IInv, TypeOK, CacheTypeOK, Advances, Go, RequestStages, Reading, Downloading, Ended
  <1>1. CASE readFromDisk(r)
    <2>1. PICK s \in {"readWaits", "dropped", "downloadQueued"} :
             request' = [request EXCEPT ![r] = s] /\ (s = "dropped" => r \in cancelled)
      <3>1. CASE icons[tag[r]] # "absent"
        BY <1>1, <3>1 DEF readFromDisk, TakeRequest
      <3>2. CASE icons[tag[r]] = "absent" /\ r \in cancelled
        BY <1>1, <3>2 DEF readFromDisk, TakeRequest
      <3>3. CASE icons[tag[r]] = "absent" /\ r \notin cancelled
        BY <1>1, <3>3 DEF readFromDisk, TakeRequest
      <3> QED BY <3>1, <3>2, <3>3
    <2> QED BY <1>1, <2>1 DEF readFromDisk, TakeRequest, janitorVars
  <1>2. CASE downloadImage(r)
    <2>1. retries' \in [Receivers -> 0..MaxRetries] /\ retries'[r] < MaxRetries
          /\ \A q \in Receivers \ {r} : retries'[q] = retries[q]
      BY <1>2, ModIconCacheAssumption DEF downloadImage
    <2> QED BY <1>2, <2>1 DEF downloadImage, TakeRequest, janitorVars
  <1>3. CASE decodeIcon(r)
    BY <1>3 DEF decodeIcon, QueueUnlessCancelled, janitorVars
  <1> QED BY <1>1, <1>2, <1>3

LEMMA WaitAdvances ==
  ASSUME IInv, NEW r \in Receivers, waitForJanitorToFinish(r)
  PROVE  CacheTypeOK' /\ Advances(r)
  BY DEF IInv, TypeOK, CacheTypeOK, Advances, Go, RequestStages, Reading, Downloading, Ended,
         Retrying, Holding, waitForJanitorToFinish

\* retryDownload counts up to MaxRetries and no further.
LEMMA RetryAdvances ==
  ASSUME IInv, NEW r \in Receivers, request[r] \in Downloading, retryDownload(r)
  PROVE  /\ retries' \in [Receivers -> 0..MaxRetries]
         /\ \A q \in Receivers \ {r} : retries'[q] = retries[q]
         /\ \E s \in {"downloadWaits", "failed"} :
               /\ request' = [request EXCEPT ![r] = s]
               /\ s = "downloadWaits" => retries'[r] < MaxRetries
  <1>1. retries \in [Receivers -> 0..MaxRetries] /\ retries[r] < MaxRetries
    BY DEF IInv, TypeOK, CacheTypeOK, Retrying
  <1>2. retries[r] + 1 \in 0..MaxRetries
    BY <1>1, ModIconCacheAssumption
  <1>3. retries' = [retries EXCEPT ![r] = retries[r] + 1]
    BY DEF retryDownload
  <1> QED BY <1>1, <1>2, <1>3 DEF retryDownload, Go

LEMMA WritesIcon ==
  ASSUME IInv, NEW r \in Receivers, request[r] # "none"
  PROVE  /\ \A contents \in SUBSET Icon : WriteIcon(r, contents) => icons' \in [Tags -> Icon]
         /\ \A s : openIcon(r, s) => /\ icons' \in [Tags -> Icon]
                                     /\ writer' \in [Receivers -> {"sole", "shared", "unlinked"}]
                                     /\ request' = [request EXCEPT ![r] = s]
  <1>1. icons \in [Tags -> Icon] /\ tag[r] \in Tags /\ icons[tag[r]] \in Icon
        /\ writer \in [Receivers -> {"sole", "shared", "unlinked"}]
    BY DEF IInv, TypeOK, CacheTypeOK, Requested
  <1>2. ASSUME NEW contents \in SUBSET Icon, WriteIcon(r, contents)
        PROVE  icons' \in [Tags -> Icon]
    <2>1. PICK icon \in CASE writer[r] = "sole" -> contents
                          [] writer[r] = "shared" -> Icon \ {"absent"}
                          [] writer[r] = "unlinked" -> {icons[tag[r]]} :
             icons' = [icons EXCEPT ![tag[r]] = icon]
      BY <1>2 DEF WriteIcon
    <2>2. writer[r] \in {"sole", "shared", "unlinked"}
      BY <1>1
    <2>3. icon \in Icon
      BY <1>1, <2>1, <2>2
    <2> QED BY <1>1, <2>1, <2>3
  <1>3. ASSUME NEW s, openIcon(r, s)
        PROVE  /\ icons' \in [Tags -> Icon]
               /\ writer' \in [Receivers -> {"sole", "shared", "unlinked"}]
               /\ request' = [request EXCEPT ![r] = s]
    <2>1. "partial" \in Icon
      BY DEF Icon
    <2> QED BY <1>1, <1>3, <2>1 DEF openIcon, Go
  <1> QED BY <1>2, <1>3

LEMMA DownloadAdvances ==
  ASSUME IInv, NEW r \in Receivers,
         downloadFile(r) \/ fetchIcon(r) \/ probeIcon(r) \/ resizeIcon(r) \/ compressFails(r)
  PROVE  CacheTypeOK' /\ Advances(r)
  <1> DEFINE Types == /\ icons \in [Tags -> Icon]
                      /\ retries \in [Receivers -> 0..MaxRetries]
                      /\ writer \in [Receivers -> {"sole", "shared", "unlinked"}]
  <1>1. request[r] \in {"opening", "fetching", "probing", "resizing"} /\ UNCHANGED <<tag, cancelled, janitorVars>>
    BY DEF downloadFile, fetchIcon, probeIcon, resizeIcon, compressFails
  <1>2. Types /\ request \in [Receivers -> RequestStages] /\ request[r] \in Downloading /\ retries[r] < MaxRetries
    BY <1>1 DEF IInv, TypeOK, CacheTypeOK, Retrying, Downloading
  <1>3. /\ Types'
        /\ \E s \in {"fetching", "probing", "resizing", "readQueued", "dropped", "downloadWaits", "failed"} :
              /\ request' = [request EXCEPT ![r] = s]
              /\ s = "dropped" => r \in cancelled
              /\ s \in Downloading => retries'[r] < MaxRetries
        /\ \A q \in Receivers \ {r} : retries'[q] = retries[q]
    <2>0. {"whole", "useless"} \subseteq Icon /\ {"whole"} \subseteq Icon
          /\ {"partial"} \subseteq Icon
      BY DEF Icon
    <2> USE <1>1, <1>2, <2>0, WritesIcon, RetryAdvances DEF Go, QueueUnlessCancelled
    <2>1. CASE downloadFile(r)
      BY <2>1 DEF downloadFile
    <2>2. CASE fetchIcon(r)
      BY <2>2 DEF fetchIcon, Downloading
    <2>3. CASE probeIcon(r)
      BY <2>3 DEF probeIcon, Downloading
    <2>4. CASE resizeIcon(r)
      BY <2>4 DEF resizeIcon, Downloading
    <2>5. CASE compressFails(r)
      BY <2>5 DEF compressFails, Downloading
    <2> QED BY <2>1, <2>2, <2>3, <2>4, <2>5
  <1>4. CacheTypeOK'
    BY <1>1, <1>2, <1>3 DEF IInv, TypeOK, CacheTypeOK, janitorVars, RequestStages, Reading, Downloading, Ended
  <1> QED BY <1>1, <1>3, <1>4 DEF Advances, RequestStages, Reading, Downloading, Ended

LEMMA LoadInv ==
  ASSUME IInv, NEW r \in Receivers, Load(r), UNCHANGED <<rowVars, loadVars>>
  PROVE  IInv'
  <1>1. CacheTypeOK' /\ Advances(r)
    BY QueueAdvances, WaitAdvances, DownloadAdvances DEF Load
  <1>2. request \in [Receivers -> RequestStages] /\ retries \in [Receivers -> 0..MaxRetries]
    BY DEF IInv, TypeOK, CacheTypeOK
  <1>3. /\ tag' = tag /\ cancelled' = cancelled
        /\ request[r] \notin Ended \cup {"none"}
        /\ \A q \in Receivers \ {r} : retries'[q] = retries[q] /\ request'[q] = request[q]
        /\ request'[r] # "none" /\ (request'[r] \in Downloading => retries'[r] < MaxRetries)
    BY <1>1, <1>2 DEF Advances
  <1>4. /\ item' = item /\ receiver' = receiver /\ image' = image /\ detail' = detail
        /\ extended' = extended /\ future' = future /\ rowOf' = rowOf
        /\ load' = load /\ loadItem' = loadItem /\ interrupted' = interrupted
    BY DEF rowVars, loadVars
  <1>5. TypeOK'
    BY <1>1, <1>4 DEF IInv, TypeOK
  <1>6. Retrying'
    BY <1>3 DEF IInv, Retrying
  <1>7. Requested'
    BY <1>3, <1>4 DEF IInv, Requested
  <1>8. Received'
    <2>1. \A q \in Receivers : request[q] # "none" => request'[q] # "none"
      BY <1>3
    <2> QED BY <1>3, <1>4, <2>1 DEF IInv, Received, TypeOK
  <1>9. LiveRequest'
    BY <1>3, <1>4 DEF IInv, LiveRequest
  <1>10. /\ ImageOfItem' /\ Loading' /\ RightFuture' /\ LoadOfItem' /\ WrongDetailsCameLate'
    BY <1>4 DEF IInv, ImageOfItem, Loading, RightFuture, LoadOfItem, WrongDetailsCameLate
  <1> QED BY <1>5, <1>6, <1>7, <1>8, <1>9, <1>10 DEF IInv

LEMMA JanitorInv ==
  ASSUME IInv, runJanitor \/ JanitorTask, UNCHANGED <<rowVars, loadVars>>
  PROVE  IInv'
  <1> USE DEF runJanitor, JanitorTask, measureCache, cleanUp, finishJanitor
  <1>1. UNCHANGED <<request, tag, retries, cancelled, rowVars, loadVars>>
    OBVIOUS
  <1>2. CacheTypeOK'
    <2>1. icons' \in [Tags -> Icon] /\ writer' \in [Receivers -> {"sole", "shared", "unlinked"}]
      BY DEF IInv, TypeOK, CacheTypeOK, Icon
    <2>2. janitor' \in Janitor /\ janitorLock' \in Receivers \cup {None}
          /\ janitorFuture' \in BOOLEAN /\ janitorRan' \in BOOLEAN
      BY DEF IInv, TypeOK, CacheTypeOK, Janitor
    <2> QED BY <1>1, <2>1, <2>2 DEF IInv, TypeOK, CacheTypeOK
  <1>3. TypeOK'
    BY <1>1, <1>2 DEF IInv, TypeOK, rowVars, loadVars
  <1> QED BY <1>1, <1>3
      DEF IInv, Retrying, Requested, Received, LiveRequest, ImageOfItem, Loading, RightFuture,
          LoadOfItem, WrongDetailsCameLate, rowVars, loadVars

(***************************************************************************)
(* The rows.                                                               *)
(***************************************************************************)

LEMMA bindInv ==
  ASSUME IInv, NEW row \in Rows, NEW i \in Tags, bind(row, i)
  PROVE  IInv'
  <1>1. PICK r \in Receivers :
           /\ request[r] = "none"
           /\ request' = [request EXCEPT ![r] = "readQueued"]
           /\ tag' = [tag EXCEPT ![r] = i]
           /\ receiver' = [receiver EXCEPT ![row] = r]
           /\ rowOf' = [rowOf EXCEPT ![r] = row]
    BY DEF bind, getImage
  <1>2. /\ cancelled' = cancelled \cup ({receiver[row]} \ {None})
        /\ interrupted' = interrupted \cup ({future[row]} \ {None})
        /\ future' = [future EXCEPT ![row] = None]
        /\ item' = [item EXCEPT ![row] = i]
        /\ detail' = [detail EXCEPT ![row] = None]
        /\ image' = [image EXCEPT ![row] = None]
        /\ extended' = [extended EXCEPT ![row] = IF @ = "never" THEN @ ELSE "hidden"]
        /\ UNCHANGED <<icons, retries, writer, janitorVars, load, loadItem>>
    BY DEF bind, cancelReceiver, cancelFuture
  <1>3. /\ request \in [Receivers -> RequestStages] /\ tag \in [Receivers -> Tags \cup {None}]
        /\ receiver \in [Rows -> Receivers \cup {None}] /\ item \in [Rows -> Tags \cup {None}]
        /\ rowOf \in [Receivers \cup Loads -> Rows \cup {None}]
        /\ future \in [Rows -> Loads \cup {None}]
        /\ detail \in [Rows -> Tags \cup {None}] /\ image \in [Rows -> Tags \cup {None}]
        /\ extended \in [Rows -> {"never", "hidden", "visible"}]
        /\ retries \in [Receivers -> 0..MaxRetries]
        /\ None \notin Receivers /\ None \notin Loads /\ Receivers \cap Loads = {}
    BY ModIconCacheAssumption, ModItemAdapterAssumption DEF IInv, TypeOK, CacheTypeOK
  <1>4. /\ \A q \in Receivers \ {r} : /\ request'[q] = request[q] /\ tag'[q] = tag[q]
                                      /\ rowOf'[q] = rowOf[q]
        /\ request'[r] = "readQueued" /\ tag'[r] = i /\ rowOf'[r] = row
        /\ \A l \in Loads : rowOf'[l] = rowOf[l]
        /\ \A other \in Rows \ {row} :
              /\ receiver'[other] = receiver[other] /\ item'[other] = item[other]
              /\ future'[other] = future[other] /\ detail'[other] = detail[other]
              /\ image'[other] = image[other]
        /\ receiver'[row] = r /\ item'[row] = i /\ future'[row] = None
        /\ detail'[row] = None /\ image'[row] = None
    BY <1>1, <1>2, <1>3
  <1>5. TypeOK'
    <2>1. request' \in [Receivers -> RequestStages] /\ tag' \in [Receivers -> Tags \cup {None}]
      BY <1>1, <1>3 DEF RequestStages
    <2>2. CacheTypeOK'
      BY <1>2, <1>3, <2>1 DEF IInv, TypeOK, CacheTypeOK, janitorVars
    <2>3. /\ receiver' \in [Rows -> Receivers \cup {None}] /\ item' \in [Rows -> Tags \cup {None}]
          /\ rowOf' \in [Receivers \cup Loads -> Rows \cup {None}]
          /\ future' \in [Rows -> Loads \cup {None}]
          /\ detail' \in [Rows -> Tags \cup {None}] /\ image' \in [Rows -> Tags \cup {None}]
          /\ interrupted' \subseteq Loads
      BY <1>1, <1>2, <1>3 DEF IInv, TypeOK
    <2>4. extended' \in [Rows -> {"never", "hidden", "visible"}]
      BY <1>2, <1>3
    <2> QED BY <1>2, <2>2, <2>3, <2>4 DEF IInv, TypeOK
  <1>6. Retrying'
    BY <1>2, <1>4 DEF IInv, Retrying, Downloading
  <1>7. Requested'
    BY <1>4 DEF IInv, Requested
  <1>8. Received'
    <2> SUFFICES ASSUME NEW other \in Rows, receiver'[other] # None
                 PROVE  LET q == receiver'[other]
                        IN  request'[q] # "none" /\ rowOf'[q] = other /\ tag'[q] = item'[other]
      BY DEF Received
    <2>1. CASE other = row
      BY <1>4, <2>1
    <2>2. CASE other # row
      <3>1. receiver[other] \in Receivers \ {r}
        BY <1>1, <1>3, <1>4, <2>2 DEF IInv, Received
      <3> QED BY <1>4, <2>2, <3>1 DEF IInv, Received
    <2> QED BY <2>1, <2>2
  <1>9. LiveRequest'
    <2> SUFFICES ASSUME NEW q \in Receivers, request'[q] \notin Ended \cup {"none"}, q \notin cancelled'
                 PROVE  receiver'[rowOf'[q]] = q
      BY DEF LiveRequest
    <2>1. CASE q = r
      BY <1>4, <2>1
    <2>2. CASE q # r
      <3>1. rowOf[q] \in Rows /\ receiver[rowOf[q]] = q /\ rowOf'[q] = rowOf[q]
        BY <1>2, <1>4, <2>2 DEF IInv, LiveRequest, Requested
      <3>2. rowOf[q] # row
        BY <1>2, <1>3, <3>1
      <3> QED BY <1>4, <3>1, <3>2
    <2> QED BY <2>1, <2>2
  <1>10. ImageOfItem'
    BY <1>4 DEF IInv, ImageOfItem
  <1>11. Loading'
    <2>1. \A l \in Loads : load'[l] # "none" => rowOf'[l] \in Rows
      BY <1>2, <1>4 DEF IInv, Loading
    <2>2. \A other \in Rows : future'[other] # None =>
             other # row /\ future'[other] = future[other] /\ future[other] \in Loads
      BY <1>3, <1>4
    <2> QED BY <1>2, <1>4, <2>1, <2>2 DEF IInv, Loading
  <1>12. \A l \in Loads : load[l] \notin {"none", "over"} /\ l \notin interrupted'
                          => /\ rowOf[l] \in Rows /\ rowOf[l] # row /\ rowOf'[l] = rowOf[l]
                             /\ l \notin interrupted /\ future[rowOf[l]] = l
    BY <1>2, <1>3, <1>4 DEF IInv, RightFuture, Loading
  <1>13. RightFuture'
    BY <1>2, <1>4, <1>12 DEF RightFuture
  <1>14. LoadOfItem'
    BY <1>2, <1>4, <1>12 DEF IInv, LoadOfItem
  <1>15. WrongDetailsCameLate'
    <2>1. interrupted \subseteq interrupted' /\ interrupted \subseteq Loads
      BY <1>2 DEF IInv, TypeOK
    <2>2. \A other \in Rows : detail'[other] \notin {None, item'[other]} =>
             detail'[other] = detail[other] /\ item'[other] = item[other]
      BY <1>4
    <2> QED BY <1>2, <1>4, <2>1, <2>2 DEF IInv, WrongDetailsCameLate
  <1> QED BY <1>5, <1>6, <1>7, <1>8, <1>9, <1>10, <1>11, <1>13, <1>14, <1>15 DEF IInv

LEMMA tapInv ==
  ASSUME IInv, NEW row \in Rows, tap(row)
  PROVE  IInv'
  <1>1. /\ UNCHANGED <<cacheVars, item, receiver, image, detail, loadItem, interrupted>>
        /\ extended' = [extended EXCEPT ![row] = IF @ = "visible" THEN "hidden" ELSE "visible"]
    BY DEF tap
  <1>2. /\ load \in [Loads -> LoadStages] /\ future \in [Rows -> Loads \cup {None}]
        /\ rowOf \in [Receivers \cup Loads -> Rows \cup {None}]
        /\ extended \in [Rows -> {"never", "hidden", "visible"}]
        /\ interrupted \subseteq Loads /\ receiver \in [Rows -> Receivers \cup {None}]
        /\ None \notin Loads /\ Receivers \cap Loads = {}
    BY ModItemAdapterAssumption DEF IInv, TypeOK
  <1>3. extended' \in [Rows -> {"never", "hidden", "visible"}]
    BY <1>1, <1>2
  <1>4. CASE UNCHANGED <<load, rowOf, future>>
    BY <1>1, <1>3, <1>4
    DEF IInv, TypeOK, CacheTypeOK, Retrying, Requested, Received, LiveRequest, ImageOfItem,
        Loading, RightFuture, LoadOfItem, WrongDetailsCameLate, cacheVars, janitorVars
  <1>5. CASE ~UNCHANGED <<load, rowOf, future>>
    <2>1. PICK l \in Loads :
             /\ load[l] = "none" /\ future[row] = None
             /\ load' = [load EXCEPT ![l] = "queued"]
             /\ rowOf' = [rowOf EXCEPT ![l] = row]
             /\ future' = [future EXCEPT ![row] = l]
      BY <1>5 DEF tap, startsLoading
    <2>2. /\ load'[l] = "queued" /\ rowOf'[l] = row /\ future'[row] = l
          /\ \A m \in Loads \ {l} : load'[m] = load[m] /\ rowOf'[m] = rowOf[m]
          /\ \A r \in Receivers : rowOf'[r] = rowOf[r]
          /\ \A other \in Rows \ {row} : future'[other] = future[other]
      BY <1>2, <2>1
    <2>3. TypeOK'
      <3>1. load' \in [Loads -> LoadStages]
        BY <1>2, <2>1 DEF LoadStages
      <3>2. rowOf' \in [Receivers \cup Loads -> Rows \cup {None}]
            /\ future' \in [Rows -> Loads \cup {None}]
        BY <1>2, <2>1
      <3> QED BY <1>1, <1>3, <3>1, <3>2 DEF IInv, TypeOK, CacheTypeOK, cacheVars, janitorVars
    <2>4. Retrying' /\ Requested' /\ ImageOfItem'
      BY <1>1, <2>2 DEF IInv, Retrying, Requested, ImageOfItem, cacheVars
    <2>5. Received'
      BY <1>1, <1>2, <2>2 DEF IInv, Received, cacheVars
    <2>6. LiveRequest'
      BY <1>1, <2>2 DEF IInv, LiveRequest, cacheVars
    <2>7. Loading'
      <3>1. \A other \in Rows \ {row} : future[other] # None =>
               future[other] \in Loads \ {l} /\ load[future[other]] # "none"
               /\ rowOf[future[other]] = other
        BY <1>2, <2>1 DEF IInv, Loading
      <3>2. \A m \in Loads : load'[m] # "none" => rowOf'[m] \in Rows
        BY <2>2 DEF IInv, Loading
      <3>3. ASSUME NEW other \in Rows, future'[other] # None
            PROVE  load'[future'[other]] # "none" /\ rowOf'[future'[other]] = other
        <4>1. CASE other = row
          BY <2>2, <4>1
        <4>2. CASE other # row
          BY <2>2, <3>1, <3>3, <4>2
        <4> QED BY <4>1, <4>2
      <3> QED BY <3>2, <3>3 DEF Loading
    <2>8. \A m \in Loads : load[m] \notin {"none", "over"} /\ m \notin interrupted
                           => /\ m # l /\ rowOf[m] \in Rows /\ rowOf[m] # row
                              /\ future[rowOf[m]] = m
      BY <1>2, <2>1 DEF IInv, RightFuture, Loading
    <2>9. RightFuture'
      BY <1>1, <2>2, <2>8 DEF RightFuture
    <2>10. LoadOfItem'
      BY <1>1, <2>2 DEF IInv, LoadOfItem
    <2>11. WrongDetailsCameLate'
      <3>1. \A m \in interrupted : load[m] \in {"posted", "over"} => m \in Loads \ {l}
        BY <1>2, <2>1
      <3> QED BY <1>1, <2>2, <3>1 DEF IInv, WrongDetailsCameLate
    <2> QED BY <2>3, <2>4, <2>5, <2>6, <2>7, <2>9, <2>10, <2>11 DEF IInv
  <1> QED BY <1>4, <1>5

\* An icon comes for the item of its row, or its receiver was cancelled.
LEMMA showImageInv ==
  ASSUME IInv, NEW r \in Receivers, showImage(r)
  PROVE  IInv'
  <1>1. /\ UNCHANGED <<icons, tag, retries, writer, cancelled, janitorVars, loadVars,
                       item, detail, extended, future, rowOf>>
        /\ request[r] = "posted"
        /\ request' = [request EXCEPT ![r] = IF r \in cancelled THEN "dropped" ELSE "delivered"]
    BY DEF showImage, deliverImage, Go
  <1>2. /\ request \in [Receivers -> RequestStages] /\ receiver \in [Rows -> Receivers \cup {None}]
        /\ image \in [Rows -> Tags \cup {None}] /\ None \notin Receivers
        /\ rowOf[r] \in Rows /\ tag[r] \in Tags
    BY <1>1, ModIconCacheAssumption DEF IInv, TypeOK, CacheTypeOK, Requested
  <1>3. /\ request' \in [Receivers -> RequestStages] /\ request'[r] \in Ended
        /\ \A q \in Receivers \ {r} : request'[q] = request[q]
        /\ request'[r] = "delivered" <=> r \notin cancelled
    BY <1>1, <1>2 DEF RequestStages, Ended
  <1>4. /\ r \in cancelled => receiver' = receiver /\ image' = image
        /\ r \notin cancelled =>
              /\ receiver' = [receiver EXCEPT ![rowOf[r]] = None]
              /\ image' = [image EXCEPT ![rowOf[r]] = tag[r]]
              /\ tag[r] = item[rowOf[r]] /\ receiver[rowOf[r]] = r
    <2>1. r \notin cancelled => receiver[rowOf[r]] = r
      BY <1>1 DEF IInv, LiveRequest, Ended
    <2>2. r \notin cancelled => tag[r] = item[rowOf[r]]
      BY <1>2, <2>1 DEF IInv, Received
    <2>3. IF request'[r] = "delivered"
          THEN /\ receiver' = [receiver EXCEPT ![rowOf[r]] = None]
               /\ image' = [image EXCEPT ![rowOf[r]] = tag[r]]
          ELSE UNCHANGED <<receiver, image>>
      BY DEF showImage
    <2> QED BY <1>3, <2>1, <2>2, <2>3
  <1>5. receiver' \in [Rows -> Receivers \cup {None}] /\ image' \in [Rows -> Tags \cup {None}]
    BY <1>2, <1>4
  <1>6. TypeOK'
    BY <1>1, <1>3, <1>5 DEF IInv, TypeOK, CacheTypeOK, janitorVars, loadVars
  <1>7. Retrying' /\ Requested'
    BY <1>1, <1>3 DEF IInv, Retrying, Requested, Downloading, Ended
  <1>8. Received'
    <2>1. \A row \in Rows : receiver'[row] # None => receiver'[row] = receiver[row]
      BY <1>2, <1>4
    <2>2. \A q \in Receivers : request[q] # "none" => request'[q] # "none"
      BY <1>3 DEF Ended
    <2> QED BY <1>1, <1>2, <2>1, <2>2 DEF IInv, Received
  <1>9. LiveRequest'
    <2> SUFFICES ASSUME NEW q \in Receivers, request'[q] \notin Ended \cup {"none"}, q \notin cancelled
                 PROVE  receiver'[rowOf[q]] = q
      BY <1>1 DEF LiveRequest
    <2>1. q # r /\ receiver[rowOf[q]] = q /\ rowOf[q] \in Rows
      BY <1>3 DEF IInv, LiveRequest, Requested
    <2> QED BY <1>2, <1>4, <2>1
  <1>10. ImageOfItem'
    BY <1>1, <1>2, <1>4 DEF IInv, ImageOfItem
  <1>11. Loading' /\ RightFuture' /\ LoadOfItem' /\ WrongDetailsCameLate'
    BY <1>1 DEF IInv, Loading, RightFuture, LoadOfItem, WrongDetailsCameLate, loadVars
  <1> QED BY <1>6, <1>7, <1>8, <1>9, <1>10, <1>11 DEF IInv

(***************************************************************************)
(* The loads of details.                                                   *)
(***************************************************************************)

\* What no load touches.
LEMMA IconsQuiet ==
  ASSUME IInv, UNCHANGED <<cacheVars, item, receiver, image, rowOf>>
  PROVE  /\ CacheTypeOK' /\ Retrying' /\ Requested' /\ Received' /\ LiveRequest' /\ ImageOfItem'
         /\ item' \in [Rows -> Tags \cup {None}] /\ receiver' \in [Rows -> Receivers \cup {None}]
         /\ image' \in [Rows -> Tags \cup {None}]
         /\ rowOf' \in [Receivers \cup Loads -> Rows \cup {None}]
  BY DEF IInv, TypeOK, CacheTypeOK, Retrying, Requested, Received, LiveRequest, ImageOfItem,
         cacheVars, janitorVars

LEMMA showDetailsInv ==
  ASSUME IInv, NEW l \in Loads, showDetails(l)
  PROVE  IInv'
  <1> DEFINE row == rowOf[l]
  <1>1. /\ UNCHANGED <<cacheVars, item, receiver, image, detail, rowOf, loadItem, interrupted>>
        /\ load[l] = "posted" /\ load' = [load EXCEPT ![l] = "over"]
        /\ l \in interrupted => future' = future /\ extended' = extended
        /\ l \notin interrupted =>
              /\ future' = [future EXCEPT ![row] = None]
              /\ extended' = [extended EXCEPT ![row] = IF detail[row] = None THEN "hidden" ELSE @]
    BY DEF showDetails
  <1>2. /\ load \in [Loads -> LoadStages] /\ future \in [Rows -> Loads \cup {None}]
        /\ extended \in [Rows -> {"never", "hidden", "visible"}]
        /\ row \in Rows /\ None \notin Loads
    BY <1>1, ModItemAdapterAssumption DEF IInv, TypeOK, Loading
  <1>3. load'[l] = "over" /\ \A m \in Loads \ {l} : load'[m] = load[m]
    BY <1>1, <1>2
  <1>4. l \notin interrupted => future[row] = l
    BY <1>1 DEF IInv, RightFuture
  <1>5. \A other \in Rows : \/ future'[other] = future[other]
                            \/ future'[other] = None /\ future[other] = l
    BY <1>1, <1>2, <1>4
  <1>6. TypeOK'
    <2>1. load' \in [Loads -> LoadStages]
      BY <1>1, <1>2 DEF LoadStages
    <2>2. future' \in [Rows -> Loads \cup {None}]
          /\ extended' \in [Rows -> {"never", "hidden", "visible"}]
      BY <1>1, <1>2
    <2> QED BY <1>1, <2>1, <2>2, IconsQuiet DEF IInv, TypeOK
  <1>7. Loading'
    <2>1. \A m \in Loads : load'[m] # "none" <=> load[m] # "none"
      BY <1>1, <1>3
    <2> QED BY <1>1, <1>2, <1>5, <2>1 DEF IInv, Loading
  <1>8. RightFuture'
    <2> SUFFICES ASSUME NEW m \in Loads, load'[m] \notin {"none", "over"}, m \notin interrupted
                 PROVE  future'[rowOf[m]] = m
      BY <1>1 DEF RightFuture
    <2>1. m # l /\ future[rowOf[m]] = m /\ rowOf[m] \in Rows
      BY <1>3 DEF IInv, RightFuture, Loading
    <2> QED BY <1>5, <2>1
  <1>9. LoadOfItem'
    BY <1>1, <1>3 DEF IInv, LoadOfItem
  <1>10. WrongDetailsCameLate'
    <2>1. \A m \in interrupted : load[m] \in {"posted", "over"} => load'[m] \in {"posted", "over"}
      BY <1>3 DEF IInv, TypeOK
    <2> QED BY <1>1, <2>1 DEF IInv, WrongDetailsCameLate
  <1> QED BY <1>1, <1>6, <1>7, <1>8, <1>9, <1>10, IconsQuiet DEF IInv

\* The stage of a load changes, and the load was not over.
LEMMA LoadGoesOn ==
  ASSUME IInv, NEW l \in Loads, NEW s \in LoadStages \ {"none"},
         load[l] \notin {"none", "over"}, load' = [load EXCEPT ![l] = s],
         load[l] = "posted" => s = "over",
         UNCHANGED <<future, rowOf, interrupted>>
  PROVE  /\ load' \in [Loads -> LoadStages] /\ load'[l] = s
         /\ \A m \in Loads \ {l} : load'[m] = load[m]
         /\ Loading' /\ RightFuture'
         /\ \A m \in interrupted : load[m] \in {"posted", "over"} => load'[m] \in {"posted", "over"}
  <1>1. load \in [Loads -> LoadStages] /\ future \in [Rows -> Loads \cup {None}]
        /\ interrupted \subseteq Loads
    BY DEF IInv, TypeOK
  <1>2. load' \in [Loads -> LoadStages] /\ load'[l] = s /\ \A m \in Loads \ {l} : load'[m] = load[m]
    BY <1>1
  <1>3. Loading'
    BY <1>1, <1>2 DEF IInv, Loading
  <1>4. RightFuture'
    BY <1>1, <1>2 DEF IInv, RightFuture
  <1> QED BY <1>1, <1>2, <1>3, <1>4

LEMMA startLoadInv ==
  ASSUME IInv, NEW l \in Loads, startLoad(l)
  PROVE  IInv'
  <1>1. UNCHANGED <<cacheVars, item, receiver, image, detail, extended, future, rowOf, loadItem,
                    interrupted>>
    BY DEF startLoad, rowVars
  <1>2. PICK s \in {"started", "over"} :
           load[l] \in {"queued", "started"} /\ load' = [load EXCEPT ![l] = s]
    BY DEF startLoad
  <1>3. /\ load' \in [Loads -> LoadStages] /\ load'[l] = s
        /\ \A m \in Loads \ {l} : load'[m] = load[m]
        /\ Loading' /\ RightFuture'
        /\ \A m \in interrupted : load[m] \in {"posted", "over"} => load'[m] \in {"posted", "over"}
    BY <1>1, <1>2, LoadGoesOn DEF LoadStages
  <1>4. TypeOK'
    BY <1>1, <1>3, IconsQuiet DEF IInv, TypeOK
  <1>5. LoadOfItem'
    BY <1>1, <1>3 DEF IInv, LoadOfItem
  <1>6. WrongDetailsCameLate'
    BY <1>1, <1>3 DEF IInv, WrongDetailsCameLate
  <1> QED BY <1>1, <1>3, <1>4, <1>5, <1>6, IconsQuiet DEF IInv

LEMMA askForDetailsInv ==
  ASSUME IInv, NEW l \in Loads, askForDetails(l)
  PROVE  IInv'
  <1>1. /\ UNCHANGED <<cacheVars, item, receiver, image, detail, extended, future, rowOf,
                       interrupted>>
        /\ load[l] = "started" /\ load' = [load EXCEPT ![l] = "fetching"]
        /\ loadItem' = [loadItem EXCEPT ![l] = item[rowOf[l]]]
    BY DEF askForDetails, rowVars
  <1>2. /\ load' \in [Loads -> LoadStages] /\ load'[l] = "fetching"
        /\ \A m \in Loads \ {l} : load'[m] = load[m]
        /\ Loading' /\ RightFuture'
        /\ \A m \in interrupted : load[m] \in {"posted", "over"} => load'[m] \in {"posted", "over"}
    BY <1>1, LoadGoesOn DEF LoadStages
  <1>3. /\ loadItem \in [Loads -> Tags \cup {None}] /\ item[rowOf[l]] \in Tags \cup {None}
        /\ interrupted \subseteq Loads
    BY <1>1 DEF IInv, TypeOK, Loading
  <1>4. /\ loadItem' \in [Loads -> Tags \cup {None}] /\ loadItem'[l] = item[rowOf[l]]
        /\ \A m \in Loads \ {l} : loadItem'[m] = loadItem[m]
    BY <1>1, <1>3
  <1>5. TypeOK'
    BY <1>1, <1>2, <1>4, IconsQuiet DEF IInv, TypeOK
  <1>6. LoadOfItem'
    BY <1>1, <1>2, <1>4 DEF IInv, LoadOfItem
  <1>7. WrongDetailsCameLate'
    <2>1. \A m \in interrupted : load[m] \in {"posted", "over"} => loadItem'[m] = loadItem[m]
      BY <1>1, <1>3, <1>4
    <2> QED BY <1>1, <1>2, <2>1 DEF IInv, WrongDetailsCameLate
  <1> QED BY <1>1, <1>2, <1>5, <1>6, <1>7, IconsQuiet DEF IInv

\* The assignment to mModDetail: wrong only if the load was cancelled.
LEMMA getModDetailsInv ==
  ASSUME IInv, NEW l \in Loads, getModDetails(l)
  PROVE  IInv'
  <1>1. /\ UNCHANGED <<cacheVars, item, receiver, image, extended, future, rowOf, loadItem,
                       interrupted>>
        /\ load[l] = "fetching"
    BY DEF getModDetails
  <1>2. PICK s \in {"posted", "over"} :
           /\ load' = [load EXCEPT ![l] = s]
           /\ \/ s = "posted" /\ \E answer \in {loadItem[l], None} :
                                    detail' = [detail EXCEPT ![rowOf[l]] = answer]
              \/ detail' = detail
    BY DEF getModDetails
  <1>3. /\ load' \in [Loads -> LoadStages] /\ load'[l] = s
        /\ \A m \in Loads \ {l} : load'[m] = load[m]
        /\ Loading' /\ RightFuture'
        /\ \A m \in interrupted : load[m] \in {"posted", "over"} => load'[m] \in {"posted", "over"}
    BY <1>1, <1>2, LoadGoesOn DEF LoadStages
  <1>4. /\ detail \in [Rows -> Tags \cup {None}] /\ rowOf[l] \in Rows
        /\ loadItem[l] \in Tags \cup {None} /\ interrupted \subseteq Loads
        /\ l \notin interrupted => loadItem[l] = item[rowOf[l]]
    BY <1>1 DEF IInv, TypeOK, Loading, LoadOfItem
  <1>5. detail' \in [Rows -> Tags \cup {None}]
        /\ \A row \in Rows : \/ detail'[row] = detail[row]
                             \/ detail'[row] = None
                             \/ row = rowOf[l] /\ detail'[row] = loadItem[l] /\ s = "posted"
    BY <1>2, <1>4
  <1>6. TypeOK'
    BY <1>1, <1>3, <1>5, IconsQuiet DEF IInv, TypeOK
  <1>7. LoadOfItem'
    BY <1>1, <1>3 DEF IInv, LoadOfItem
  <1>8. WrongDetailsCameLate'
    <2> SUFFICES ASSUME NEW row \in Rows, detail'[row] \notin {None, item[row]}
                 PROVE  \E m \in interrupted :
                           /\ rowOf[m] = row /\ loadItem[m] = detail'[row]
                           /\ load'[m] \in {"posted", "over"}
      BY <1>1 DEF WrongDetailsCameLate
    <2>1. CASE detail'[row] = detail[row]
      BY <1>3, <2>1 DEF IInv, WrongDetailsCameLate
    <2>2. CASE detail'[row] # detail[row]
      BY <1>3, <1>4, <1>5, <2>2
    <2> QED BY <2>1, <2>2
  <1> QED BY <1>1, <1>3, <1>6, <1>7, <1>8, IconsQuiet DEF IInv

(***************************************************************************)
(* The theorems.                                                           *)
(***************************************************************************)

LEMMA InitInv == Init => IInv
  <1> SUFFICES ASSUME Init
               PROVE  IInv
    OBVIOUS
  <1> USE DEF Init, CacheInit
  <1>1. TypeOK
    <2>1. CacheTypeOK
      <3>1. 0 \in 0..MaxRetries
        BY ModIconCacheAssumption
      <3>2. request \in [Receivers -> RequestStages]
        BY DEF RequestStages
      <3>3. retries \in [Receivers -> 0..MaxRetries]
        BY <3>1
      <3> QED BY <3>2, <3>3 DEF CacheTypeOK, Janitor
    <2>2. load \in [Loads -> LoadStages]
      BY DEF LoadStages
    <2> QED BY <2>1, <2>2 DEF TypeOK
  <1>2. Retrying /\ Requested /\ Received /\ LiveRequest /\ ImageOfItem
    BY DEF Retrying, Requested, Received, LiveRequest, ImageOfItem, Downloading
  <1>3. Loading /\ RightFuture /\ LoadOfItem /\ WrongDetailsCameLate
    BY DEF Loading, RightFuture, LoadOfItem, WrongDetailsCameLate
  <1> QED BY <1>1, <1>2, <1>3 DEF IInv

LEMMA StepInv == IInv /\ [Next]_vars => IInv'
  <1> SUFFICES ASSUME IInv, [Next]_vars
               PROVE  IInv'
    OBVIOUS
  <1>1. CASE \E row \in Rows : tap(row) \/ \E i \in Tags : bind(row, i)
    BY <1>1, tapInv, bindInv
  <1>2. CASE \E r \in Receivers : showImage(r)
    BY <1>2, showImageInv
  <1>3. CASE \E l \in Loads : LoadDetails(l) \/ showDetails(l)
    BY <1>3, startLoadInv, askForDetailsInv, getModDetailsInv, showDetailsInv DEF LoadDetails
  <1>4. CASE Cache
    BY <1>4, LoadInv, JanitorInv DEF Cache
  <1>5. CASE UNCHANGED vars
    BY <1>5, IconsQuiet
    DEF vars, rowVars, loadVars, IInv, TypeOK, Loading, RightFuture, LoadOfItem, WrongDetailsCameLate
  <1> QED BY <1>1, <1>2, <1>3, <1>4, <1>5 DEF Next

\* The inductive invariant holds in every behaviour of the rows.
THEOREM Invariant == Spec => []IInv
  BY InitInv, StepInv, PTL DEF Spec

\* The variables keep their types; in particular no DownloadImageTask tries
\* more than MaxRetries downloads.
THEOREM TypeCorrect == Spec => []TypeOK
  <1>1. IInv => TypeOK
    BY DEF IInv
  <1> QED BY <1>1, Invariant, PTL

\* The ImageReceiver of a row never shows the icon of an item the row was bound to
\* before, whatever the pool, the janitor and the list do meanwhile.
THEOREM IconIsOfItem == Spec => []ImageOfItem
  <1>1. IInv => ImageOfItem
    BY DEF IInv
  <1> QED BY <1>1, Invariant, PTL

\* "If the future is not cancelled, it is the right one for this ViewHolder":
\* the comment in the load's last step on the UI thread is true.
THEOREM FutureIsRight == Spec => []RightFuture
  <1>1. IInv => RightFuture
    BY DEF IInv
  <1> QED BY <1>1, Invariant, PTL

\* Wrong details in a row are those of a load that was cancelled and ended
\* nevertheless: the one way in which the assignment of mModDetail goes wrong.
THEOREM OnlyLateDetailsAreWrong == Spec => []WrongDetailsCameLate
  <1>1. IInv => WrongDetailsCameLate
    BY DEF IInv
  <1> QED BY <1>1, Invariant, PTL
=============================================================================
