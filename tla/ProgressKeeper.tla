--------------------------- MODULE ProgressKeeper ---------------------------
(* ProgressKeeper: the launcher's table of ongoing tasks, its task count    *)
(* listeners, and waitUntilDone.  A record is only there or not: its        *)
(* percentage and text decide nothing.  submitProgress and getTaskCount     *)
(* hold the class lock, so each is one step with all that the listeners do  *)
(* meanwhile; waitUntilDone takes the locks one after another and is three. *)
(* GameLaunch composes the threads of the launcher from these steps.        *)
EXTENDS Naturals, Sequences

CONSTANTS
    Holders,    \* game downloads: MoJsonDownloader.start keeps the record of
                \* downloads open while it calls waitUntilDone
    Spinners,   \* calls of AccountSpinner.refreshAccount, on the UI thread
    Keys,       \* progress records
    GameKey,    \* the record of all game downloads, DOWNLOAD_GAME
    LoginKey    \* the record of logins, AUTHENTICATE

Callers == Holders \cup Spinners
Cancel == "cancel"       \* the message that takes the notification away
NoMessage == "nothing"   \* stands for a runnable that posts nothing
Messages == Holders \cup {Cancel, NoMessage}

VARIABLES
    records,    \* the keys of sProgressStates
    listeners,  \* the callers whose listener is in sTaskCountListeners, in order
    pc,         \* what each thread does next
    runs,       \* runs[c]: how often the runnable of caller c ran
    logins,     \* logins[s]: the logins begun by spinner s and not yet over
    early,      \* history: callers whose runnable ran with a record open
    looper      \* what was posted to the UI thread; a holder's name is the
                \* message that executes its result

keeperVars == <<records, listeners, runs, logins, early, looper>>

KeeperInit ==
    /\ records = {} /\ listeners = <<>> /\ looper = <<>>
    /\ runs = [c \in Callers |-> 0]
    /\ logins = [s \in Spinners |-> 0] /\ early = {}

Goto(t, label) == pc' = [pc EXCEPT ![t] = label]
Members(q) == {q[k] : k \in DOMAIN q}

-----------------------------------------------------------------------------
\* A count above zero makes mDoubleLaunchPreventionListener post a Cancel; one
\* behind another is like one.
PostCancel ==
    looper' = IF looper # <<>> /\ looper[Len(looper)] = Cancel THEN looper
              ELSE Append(looper, Cancel)

\* The runnables of the callers in q run, one after another, when the table
\* holds "left".  A holder's posts its result.  A spinner's may begin a login
\* (those in "asking" do), which opens the record of logins at once.
RunRunnables(q, left, going, asking) ==
    LET Asked(k) == \E j \in 1..(k - 1) : q[j] \in asking
        Message(k) == IF q[k] \in Holders THEN q[k]
                      ELSE IF q[k] \in asking /\ LoginKey \notin left /\ ~Asked(k) THEN Cancel
                      ELSE NoMessage
    IN
    /\ runs' = [c \in Callers |-> IF c \in Members(q) THEN runs[c] + 1 ELSE runs[c]]
    /\ logins' = [s \in Spinners |-> IF s \in asking THEN going[s] + 1 ELSE going[s]]
    /\ records' = IF asking = {} THEN left ELSE left \cup {LoginKey}
    /\ early' = early \cup {q[k] : k \in {i \in DOMAIN q : left # {} \/ Asked(i)}}
    /\ looper' = looper \o [k \in DOMAIN q |-> Message(k)]

\* Mutant: the key is put into the table before it is looked up, so that the
\* listeners are told of ends only.
openRecord_Quiet(key) ==
    /\ records' = records \cup {key}
    /\ UNCHANGED <<listeners, runs, logins, early, looper>>

\* submitProgress of a key: the listeners are told if it was not there.
openRecord(key) ==
    /\ records' = records \cup {key}
    /\ IF key \in records THEN UNCHANGED looper ELSE PostCancel
    /\ UNCHANGED <<listeners, runs, logins, early>>

\* Mutant: waitUntilDone's listener answers false and stays in the list.
closeRecord_KeepListeners(key, going) ==
    LET left == records \ {key} IN
    IF left = {}
    THEN /\ \E asking \in SUBSET (Spinners \cap Members(listeners)) :
               RunRunnables(listeners, {}, going, asking)
         /\ UNCHANGED listeners
    ELSE /\ records' = left /\ logins' = going
         /\ PostCancel
         /\ UNCHANGED <<listeners, runs, early>>

\* submitProgress with -1, -1 removes the key, there or not, and tells the
\* listeners the count; at zero each of waitUntilDone's runs its runnable and
\* is removed.  The walk goes on with zero whatever the runnables opened.
\* "going" are the logins that are not over by now.
closeRecord(key, going) ==
    LET left == records \ {key} IN
    IF left = {}
    THEN /\ \E asking \in SUBSET (Spinners \cap Members(listeners)) :
               RunRunnables(listeners, {}, going, asking)
         /\ listeners' = <<>>
    ELSE /\ records' = left /\ logins' = going
         /\ PostCancel
         /\ UNCHANGED <<listeners, runs, early>>

-----------------------------------------------------------------------------
\* Mutant: the holder closes its record before it calls waitUntilDone.
readCount_AfterClose(c) ==
    /\ pc[c] = "count"
    /\ records' = IF c \in Holders THEN records \ {GameKey} ELSE records
    /\ Goto(c, IF records' = {} THEN "run" ELSE "update")
    /\ UNCHANGED <<listeners, runs, logins, early, looper>>

\* waitUntilDone reads the count and runs the runnable at once if it is zero,
readCount(c) ==
    /\ pc[c] = "count"
    /\ Goto(c, IF records = {} THEN "run" ELSE "update")
    /\ UNCHANGED keeperVars

RunOwn(c) ==
    /\ \E asking \in SUBSET (Spinners \cap {c}) : RunRunnables(<<c>>, records, logins, asking)
    /\ UNCHANGED listeners

runAtOnce(c) ==
    /\ pc[c] = "run"
    /\ Goto(c, "returned")
    /\ RunOwn(c)

\* else addTaskCountListener first updates the new listener, which may find
\* zero by now; its answer is not looked at,
updateListener(c) ==
    /\ pc[c] = "update"
    /\ Goto(c, "add")
    /\ IF records = {} THEN RunOwn(c) ELSE UNCHANGED keeperVars

\* and then adds it.
addListener(c) ==
    /\ pc[c] = "add"
    /\ listeners' = Append(listeners, c)
    /\ Goto(c, "returned")
    /\ UNCHANGED <<records, runs, logins, early, looper>>

waitUntilDone(c) == readCount(c) \/ runAtOnce(c) \/ updateListener(c) \/ addListener(c)
=============================================================================
