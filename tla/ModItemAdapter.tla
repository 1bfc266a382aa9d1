--------------------------- MODULE ModItemAdapter ---------------------------
(***************************************************************************)
(* The rows of the mod search.  A row is a ViewHolder that the list reuses *)
(* for one item after another, while the icon it asked ModIconCache for    *)
(* and the details it loads on the launcher's executor are still under     *)
(* way for the item it showed before.                                      *)
(*                                                                         *)
(* An item is named by its icon cache tag.  bind, tap, showImage and       *)
(* showDetails run on the UI thread, so each is one step.  Of the views    *)
(* only the icon and whether the row is unfolded are kept.                 *)
(***************************************************************************)
EXTENDS ModIconCache

CONSTANTS
    Rows,    \* ViewHolders
    Loads    \* Futures of getModDetails, each of one tap

ASSUME ModItemAdapterAssumption ==
    None \notin Rows \cup Loads /\ Receivers \cap Loads = {}

VARIABLES
    item,            \* mModItem of each row
    receiver,        \* mImageReceiver
    image,           \* the item whose icon is in mIconView
    detail,          \* the item mModDetail was loaded for
    extended,        \* mExtendedLayout: not inflated yet, hidden or visible
    future,          \* mExtensionFuture
    rowOf,           \* the row that made each receiver or load
    load,            \* the stage of each load
    loadItem,        \* the item given to its getModDetails
    interrupted      \* the loads whose Future was cancelled

rowVars == <<item, receiver, image, detail, extended, future, rowOf>>
loadVars == <<load, loadItem, interrupted>>
vars == <<cacheVars, rowVars, loadVars>>

LoadStages == {"none", "queued", "started", "fetching", "posted", "over"}

Init ==
    /\ CacheInit
    /\ item = [row \in Rows |-> None]
    /\ receiver = [row \in Rows |-> None]
    /\ image = [row \in Rows |-> None]
    /\ detail = [row \in Rows |-> None]
    /\ extended = [row \in Rows |-> "never"]
    /\ future = [row \in Rows |-> None]
    /\ rowOf = [x \in Receivers \cup Loads |-> None]
    /\ load = [l \in Loads |-> "none"]
    /\ loadItem = [l \in Loads |-> None]
    /\ interrupted = {}

-----------------------------------------------------------------------------
(* The UI thread.                                                          *)

\* mExtensionFuture.cancel(true), if there is one.
cancelFuture_Forget(row) == UNCHANGED interrupted
cancelFuture(row) == interrupted' = interrupted \cup ({future[row]} \ {None})

\* mIconCache.cancelImage(mImageReceiver), if there is one.
cancelReceiver_Forget(row) == UNCHANGED cancelled
cancelReceiver(row) == cancelled' = cancelled \cup ({receiver[row]} \ {None})

\* setStateLimited, called by onBindViewHolder.  A row that is no longer on the
\* screen keeps its item and its request, so another one may ask for the same.
bind(row, i) ==
    /\ \E r \in Receivers :
          /\ request[r] = "none"
          /\ getImage(r, i)
          /\ receiver' = [receiver EXCEPT ![row] = r]
          /\ rowOf' = [rowOf EXCEPT ![r] = row]
    /\ cancelReceiver(row)
    /\ cancelFuture(row)
    /\ future' = [future EXCEPT ![row] = None]
    /\ item' = [item EXCEPT ![row] = i]
    /\ detail' = [detail EXCEPT ![row] = None]
    /\ image' = [image EXCEPT ![row] = None]
    /\ extended' = [extended EXCEPT ![row] = IF @ = "never" THEN @ ELSE "hidden"]
    /\ UNCHANGED <<icons, retries, writer, janitorVars, load, loadItem>>

\* The row's click listener folds or unfolds it; an unfolded row with neither
\* details nor a Future starts to load them.
startsLoading(row) == extended[row] # "visible" /\ detail[row] = None /\ future[row] = None

tap(row) ==
    /\ item[row] # None
    /\ extended' = [extended EXCEPT ![row] = IF @ = "visible" THEN "hidden" ELSE "visible"]
    /\ IF startsLoading(row)
       THEN \E l \in Loads :
               /\ load[l] = "none"
               /\ load' = [load EXCEPT ![l] = "queued"]
               /\ rowOf' = [rowOf EXCEPT ![l] = row]
               /\ future' = [future EXCEPT ![row] = l]
       ELSE UNCHANGED <<load, rowOf, future>>
    /\ UNCHANGED <<cacheVars, item, receiver, image, detail, loadItem, interrupted>>

\* ReadFromDiskTask's runnable and the row's ImageReceiver.
showImage(r) ==
    /\ request[r] = "posted"
    /\ deliverImage(r)
    /\ IF request'[r] = "delivered"
       THEN /\ receiver' = [receiver EXCEPT ![rowOf[r]] = None]
            /\ image' = [image EXCEPT ![rowOf[r]] = tag[r]]
       ELSE UNCHANGED <<receiver, image>>
    /\ UNCHANGED <<icons, tag, retries, writer, cancelled, janitorVars, loadVars,
                   item, detail, extended, future, rowOf>>

\* The runnable at the end of a load: setStateDetailed of whatever mModDetail
\* is by now, unless the Future was cancelled.
showDetails(l) ==
    LET row == rowOf[l]
    IN  /\ load[l] = "posted"
        /\ load' = [load EXCEPT ![l] = "over"]
        /\ IF l \in interrupted
           THEN UNCHANGED <<future, extended>>
           ELSE /\ future' = [future EXCEPT ![row] = None]
                /\ extended' = [extended EXCEPT ![row] =
                                    IF detail[row] = None THEN "hidden" ELSE @]
        /\ UNCHANGED <<cacheVars, item, receiver, image, detail, rowOf, loadItem, interrupted>>

-----------------------------------------------------------------------------
(* The launcher's executor.                                                *)

\* A cancelled Future that has not started does not start; one that is
\* cancelled while it waits for its own Future is interrupted.
startLoad(l) ==
    /\ \/ load[l] = "queued" /\ l \notin interrupted /\ load' = [load EXCEPT ![l] = "started"]
       \/ load[l] \in {"queued", "started"} /\ l \in interrupted
          /\ load' = [load EXCEPT ![l] = "over"]
    /\ UNCHANGED <<cacheVars, rowVars, loadItem, interrupted>>

\* The task reads the row's mModItem and asks the server.
askForDetails(l) ==
    /\ load[l] = "started"
    /\ load' = [load EXCEPT ![l] = "fetching"]
    /\ loadItem' = [loadItem EXCEPT ![l] = item[rowOf[l]]]
    /\ UNCHANGED <<cacheVars, rowVars, interrupted>>

\* getModDetails returns details, returns null or throws what the Future
\* keeps; what it returns is assigned at once.
getModDetails(l) ==
    /\ load[l] = "fetching"
    /\ \/ /\ \E answer \in {loadItem[l], None} : detail' = [detail EXCEPT ![rowOf[l]] = answer]
          /\ load' = [load EXCEPT ![l] = "posted"]
       \/ UNCHANGED detail /\ load' = [load EXCEPT ![l] = "over"]
    /\ UNCHANGED <<cacheVars, item, receiver, image, extended, future, rowOf,
                   loadItem, interrupted>>

LoadDetails(l) == startLoad(l) \/ askForDetails(l) \/ getModDetails(l)

Cache == (runJanitor \/ JanitorTask \/ \E r \in Receivers : Load(r))
         /\ UNCHANGED <<rowVars, loadVars>>

Next ==
    \/ \E row \in Rows : tap(row) \/ \E i \in Tags : bind(row, i)
    \/ \E r \in Receivers : showImage(r)
    \/ \E l \in Loads : LoadDetails(l) \/ showDetails(l)
    \/ Cache

Spec == Init /\ [][Next]_vars

\* The loader pool, the executor and the UI thread keep running; nobody has
\* to scroll or tap.
FairSpec ==
    /\ Spec
    /\ \A r \in Receivers :
          WF_vars(Load(r) /\ UNCHANGED <<rowVars, loadVars>>) /\ WF_vars(showImage(r))
    /\ \A l \in Loads : WF_vars(LoadDetails(l)) /\ WF_vars(showDetails(l))
    /\ WF_vars(JanitorTask /\ UNCHANGED <<rowVars, loadVars>>)

-----------------------------------------------------------------------------
(* Properties.                                                             *)

\* Every variable has its type.
TypeOK ==
    /\ CacheTypeOK
    /\ item \in [Rows -> Tags \cup {None}]
    /\ receiver \in [Rows -> Receivers \cup {None}]
    /\ image \in [Rows -> Tags \cup {None}]
    /\ detail \in [Rows -> Tags \cup {None}]
    /\ extended \in [Rows -> {"never", "hidden", "visible"}]
    /\ future \in [Rows -> Loads \cup {None}]
    /\ rowOf \in [Receivers \cup Loads -> Rows \cup {None}]
    /\ load \in [Loads -> LoadStages]
    /\ loadItem \in [Loads -> Tags \cup {None}]
    /\ interrupted \subseteq Loads

\* A row never shows the icon of an item it was bound to before, however late
\* the cache answers.
ImageOfItem == \A row \in Rows : image[row] \in {None, item[row]}

\* "If the future is not cancelled, it is the right one for this ViewHolder":
\* a load that will change its row is the one the row waits for.
RightFuture ==
    \A l \in Loads :
        load[l] \notin {"none", "over"} /\ l \notin interrupted => future[rowOf[l]] = l

\* The details of a row are wrong in one way only: a load that was cancelled
\* when the row went to another item ended afterwards.  Loads of the row's own
\* item never mix, however often it is folded, unfolded and bound again.
WrongDetailsCameLate ==
    \A row \in Rows : detail[row] \notin {None, item[row]} =>
        \E l \in interrupted :
            rowOf[l] = row /\ loadItem[l] = detail[row] /\ load[l] \in {"posted", "over"}

\* Two requests for the same icon that are both still wanted: each may empty
\* the file that the other just wrote, with new retries each time.
Rivals ==
    \E r, q \in Receivers :
        /\ r # q /\ tag[q] = tag[r]
        /\ \A one \in {r, q} : one \notin cancelled /\ request[one] \notin Ended \cup {"none"}

\* Every icon request ends: shown, given up after its row was bound again, or
\* out of retries, unless the resized copy fails silently again and again or
\* there are rivals again and again.  A request that is no longer wanted keeps
\* no other one from its end, though both write one file.
IconRequestsEnd ==
    \/ \A r \in Receivers : request[r] # "none" ~> request[r] \in Ended
    \/ []<><<\E r \in Receivers : compressFails(r)>>_vars
    \/ []<>Rivals

\* The listener's comment: "we return and do not alter the state (since we
\* might alter the state of an unrelated item otherwise)": the details of a
\* row are those of its item.
DetailOfItem == \A row \in Rows : detail[row] \in {None, item[row]}
=============================================================================
