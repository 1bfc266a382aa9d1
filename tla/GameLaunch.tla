----------------------------- MODULE GameLaunch -----------------------------
(* From the play button to the game: the launch listener on the UI thread, *)
(* MoJsonDownloader.start on the executor, ContextAwareDoneListener, which *)
(* waits in ProgressKeeper and then starts the game from the activity in   *)
(* the foreground or shows a notification that does, logins of the account *)
(* spinner, and other tasks.  The start of the game kills the process.     *)
EXTENDS ProgressKeeper

CONSTANTS
    Workers,   \* threads that run one task after another
    KeyOf      \* the record of each worker's tasks

\* Only MoJsonDownloader reports under DOWNLOAD_GAME.
ASSUME GameLaunchAssumption ==
    /\ Workers \cap Callers = {} /\ Holders \cap Spinners = {}
    /\ Cancel \notin Holders /\ NoMessage \notin Holders
    /\ KeyOf \in [Workers -> Keys \ {GameKey}]
    /\ GameKey \in Keys /\ LoginKey \in Keys \ {GameKey}

VARIABLES
    resumed,        \* whether the activity is in the foreground: sActivity
    notification,   \* whether the notification that starts the game is shown
    outcome,        \* outcome[h]: what became of a finished download
    disturbed,      \* history: downloads whose record another one closed
    superseded      \* history: downloads since whose result a task was opened

launchVars == <<resumed, notification, outcome>>
historyVars == <<disturbed, superseded>>
vars == <<keeperVars, pc, launchVars, historyVars>>

\* A notification may be left from an earlier process.
Init ==
    /\ KeeperInit
    /\ pc = [t \in Workers \cup Callers |-> "idle"]
    /\ resumed = TRUE /\ notification \in BOOLEAN
    /\ outcome = [h \in Holders |-> "none"]
    /\ disturbed = {} /\ superseded = {}

-----------------------------------------------------------------------------
(* Tasks: a worker's task opens its record, reports and ends, whatever else *)
(* has the key open; a report opens it anew when another task closed it.    *)

workerStarts(w) == pc[w] = "idle" /\ Goto(w, "working") /\ openRecord(KeyOf[w])
workerReports(w) == pc[w] = "working" /\ UNCHANGED pc /\ openRecord(KeyOf[w])
workerEnds(w) == pc[w] = "working" /\ Goto(w, "idle") /\ closeRecord(KeyOf[w], logins)

loginReports(s) == logins[s] > 0 /\ UNCHANGED pc /\ openRecord(LoginKey)
loginEnds(s) ==
    /\ logins[s] > 0 /\ UNCHANGED pc
    /\ closeRecord(LoginKey, [logins EXCEPT ![s] = @ - 1])

-----------------------------------------------------------------------------
(* MoJsonDownloader.start *)

holderStarts(h) == pc[h] = "clicked" /\ Goto(h, "count") /\ openRecord(GameKey)
holderReports(h) == pc[h] = "count" /\ UNCHANGED pc /\ openRecord(GameKey)

\* onDownloadFailed only shows the error.
holderFails(h) == pc[h] = "count" /\ Goto(h, "failed") /\ UNCHANGED keeperVars

\* clearProgress after onDownloadDone or onDownloadFailed returned.
holderEnds(h) ==
    /\ pc[h] \in {"returned", "failed"}
    /\ Goto(h, IF pc[h] = "failed" THEN "gaveUp" ELSE "over")
    /\ closeRecord(GameKey, logins)

Task ==
    \/ \E w \in Workers : workerStarts(w) \/ workerReports(w) \/ workerEnds(w)
    \/ \E s \in Spinners : loginReports(s) \/ loginEnds(s)
    \/ \E h \in Holders : holderStarts(h) \/ holderReports(h) \/ holderFails(h) \/ holderEnds(h)
    \/ \E h \in Holders : waitUntilDone(h)

-----------------------------------------------------------------------------
(* The UI thread, which is busy while a spinner is inside waitUntilDone *)

UiFree == \A s \in Spinners : pc[s] \in {"idle", "returned"}

\* The play button; refused while tasks are ongoing.  The record opens later,
\* on the executor, and a button pressed again until then starts another
\* download that uses the same record.
launchGame(h) ==
    /\ UiFree /\ resumed /\ records = {}
    /\ pc[h] = "idle" /\ Goto(h, "clicked")
    /\ UNCHANGED <<keeperVars, launchVars>>

refreshAccount(s) ==
    /\ UiFree
    /\ pc[s] = "idle" /\ Goto(s, "count")
    /\ UNCHANGED <<keeperVars, launchVars>>

onResume ==
    /\ UiFree /\ ~resumed
    /\ resumed' = TRUE
    /\ UNCHANGED <<keeperVars, pc, notification, outcome>>

onPause ==
    /\ UiFree /\ resumed
    /\ resumed' = FALSE
    /\ UNCHANGED <<keeperVars, pc, notification, outcome>>

NextMessage ==
    /\ UiFree /\ looper # <<>>
    /\ looper' = Tail(looper)
    /\ UNCHANGED <<records, listeners, runs, logins, early, pc>>

\* Mutant: what ContextExecutor.executeActivity does.
execute_ActivityOnly(h) ==
    /\ NextMessage /\ Head(looper) = h
    /\ outcome' = IF resumed THEN [outcome EXCEPT ![h] = "started"] ELSE outcome
    /\ UNCHANGED <<resumed, notification>>

\* executeWithActivity starts the game and kills the process, or shows the
\* error of a start that throws; else executeWithApplication shows the
\* notification.
execute(h) ==
    /\ NextMessage /\ Head(looper) = h
    /\ IF resumed
       THEN /\ \E start \in {"started", "refused"} : outcome' = [outcome EXCEPT ![h] = start]
            /\ UNCHANGED notification
       ELSE outcome' = [outcome EXCEPT ![h] = "notified"] /\ notification' = TRUE
    /\ UNCHANGED resumed

cancelNotification ==
    /\ NextMessage /\ Head(looper) = Cancel
    /\ notification' = FALSE
    /\ UNCHANGED <<resumed, outcome>>

skipNothing == NextMessage /\ Head(looper) = NoMessage /\ UNCHANGED launchVars

UiThread ==
    \/ onResume \/ onPause \/ cancelNotification \/ skipNothing
    \/ \E h \in Holders : launchGame(h) \/ execute(h)
    \/ \E s \in Spinners : refreshAccount(s) \/ (waitUntilDone(s) /\ UNCHANGED launchVars)

Alive == \A h \in Holders : outcome[h] # "started"

\* Whether a step opens a record; the runnable of a spinner may open that of
\* logins, which the same step may have closed.
Opens ==
    \/ ~(records' \subseteq records)
    \/ LoginKey \in records' /\ \E s \in Spinners : runs'[s] # runs[s]

InDownload == {"count", "run", "update", "add", "returned", "failed"}

History ==
    /\ disturbed' = disturbed \cup {h \in Holders : pc[h] \in InDownload /\ \E other \in Holders \ {h} :
           pc[other] \in InDownload /\ pc'[other] \in {"over", "gaveUp"}}
    /\ superseded' = IF Opens THEN superseded \cup {h \in Holders : runs'[h] > 0} ELSE superseded

Next == Alive /\ ((Task /\ UNCHANGED launchVars) \/ UiThread) /\ History

Spec == Init /\ [][Next]_vars

-----------------------------------------------------------------------------
\* Every variable has its type.
TypeOK ==
    /\ records \subseteq Keys
    /\ listeners \in Seq(Callers)
    /\ pc \in [Workers \cup Callers ->
                  {"idle", "working", "clicked", "count", "run", "update", "add", "returned",
                   "failed", "over", "gaveUp"}]
    /\ runs \in [Callers -> Nat] /\ logins \in [Spinners -> Nat]
    /\ early \subseteq Callers
    /\ looper \in Seq(Messages)
    /\ resumed \in BOOLEAN /\ notification \in BOOLEAN
    /\ outcome \in [Holders -> {"none", "started", "refused", "notified"}]
    /\ disturbed \subseteq Holders /\ superseded \subseteq Holders

\* The result of a game download, the start of the game, is posted when all
\* is over, and never twice but for a download whose record another one closed:
\* it may run its runnable in the first update of its listener and again later.
HoldersRunOnce ==
    \A h \in Holders :
        /\ pc[h] = "over" /\ records = {} => runs[h] >= 1
        /\ h \notin disturbed => runs[h] <= 1

\* It is posted in a step that leaves no record open, but for that of a login
\* which another waiting runnable began in the same step.
HoldersRunAfterTasks ==
    [][\A h \in Holders \ disturbed : runs'[h] # runs[h] => records' \subseteq {LoginKey}]_vars

\* A finished download is not forgotten, whether the activity is there or not:
\* when all is done and handled, the game was started, the user was shown why
\* not, or the notification that starts it is there, unless a task was opened
\* since, whose Cancel takes it away.
ResultNotForgotten ==
    \A h \in Holders \ disturbed :
        pc[h] = "over" /\ records = {} /\ looper = <<>> =>
            \/ outcome[h] \in {"started", "refused"}
            \/ outcome[h] = "notified" /\ (notification \/ h \in superseded)

\* ContextAwareDoneListener: "the notification is automatically removed once
\* there are tasks ongoing".  While there are (logins apart), a notification
\* that is still shown has its removal on the way, unless a download whose
\* record another one closed posted its result among them.
NotificationHidden ==
    /\ notification /\ ~(records \subseteq {LoginKey})
    /\ \A h \in disturbed : runs[h] = 0
    => Cancel \in Members(looper)

\* waitUntilDone: "the runnable to run when no tasks are remaining".
HoldersRunWhenIdle == early \cap Holders = {}
=============================================================================
