--------------------------- MODULE GameLaunchProofs ---------------------------
(* Proofs about GameLaunch, for any threads, keys, downloads and refreshes. *)
EXTENDS GameLaunch, TLAPS

KeeperType ==
    /\ records \subseteq Keys
    /\ listeners \in Seq(Callers)
    /\ runs \in [Callers -> Nat] /\ logins \in [Spinners -> Nat]
    /\ early \subseteq Callers
    /\ looper \in Seq(Messages)

(***************************************************************************)
(* Types.  What the runnables of a sequence of callers leave is typed.     *)
(***************************************************************************)
LEMMA RunType ==
  ASSUME KeeperType, NEW q \in Seq(Callers), NEW left \in SUBSET Keys,
         NEW going \in [Spinners -> Nat], NEW asking \in SUBSET Spinners,
         RunRunnables(q, left, going, asking), LoginKey \in Keys
  PROVE  /\ records' \subseteq Keys
         /\ runs' \in [Callers -> Nat] /\ logins' \in [Spinners -> Nat]
         /\ early' \subseteq Callers
         /\ looper' \in Seq(Messages)
  <1>1. records' \subseteq Keys
    BY DEF RunRunnables
  <1>2. runs' \in [Callers -> Nat]
    BY DEF RunRunnables, KeeperType
  <1>3. logins' \in [Spinners -> Nat]
    BY DEF RunRunnables
  <1>4. early' \subseteq Callers
    BY DEF RunRunnables, KeeperType
  <1>5. looper' \in Seq(Messages)
    <2> DEFINE Asked(k) == \E j \in 1..(k - 1) : q[j] \in asking
               Message(k) == IF q[k] \in Holders THEN q[k]
                             ELSE IF q[k] \in asking /\ LoginKey \notin left /\ ~Asked(k)
                                  THEN Cancel ELSE NoMessage
    <2>1. \A k \in DOMAIN q : Message(k) \in Messages
      BY DEF Messages
    <2>2. looper' = looper \o [k \in DOMAIN q |-> Message(k)]
      BY DEF RunRunnables
    <2> HIDE DEF Message
    <2>3. [k \in DOMAIN q |-> Message(k)] \in Seq(Messages)
      BY <2>1
    <2> QED BY <2>2, <2>3 DEF KeeperType
  <1> QED BY <1>1, <1>2, <1>3, <1>4, <1>5

LEMMA PostCancelType == KeeperType /\ PostCancel => looper' \in Seq(Messages)
  BY DEF KeeperType, PostCancel, Messages

LEMMA OpenType ==
  ASSUME KeeperType, NEW key \in Keys, openRecord(key) PROVE KeeperType'
  BY PostCancelType DEF openRecord, KeeperType

LEMMA CloseType ==
  ASSUME KeeperType, NEW key \in Keys, NEW going \in [Spinners -> Nat],
         closeRecord(key, going), LoginKey \in Keys
  PROVE  KeeperType'
  <1>1. CASE records \ {key} = {}
    <2>1. PICK asking \in SUBSET (Spinners \cap Members(listeners)) :
             RunRunnables(listeners, {}, going, asking)
      BY <1>1 DEF closeRecord
    <2>2. listeners' = <<>>
      BY <1>1 DEF closeRecord
    <2>3. listeners \in Seq(Callers)
      BY DEF KeeperType
    <2>4. /\ records' \subseteq Keys
          /\ runs' \in [Callers -> Nat] /\ logins' \in [Spinners -> Nat]
          /\ early' \subseteq Callers
          /\ looper' \in Seq(Messages)
      BY <2>1, <2>3, RunType
    <2> QED BY <2>2, <2>4 DEF KeeperType
  <1>2. CASE records \ {key} # {}
    BY <1>2, PostCancelType DEF closeRecord, KeeperType
  <1> QED BY <1>1, <1>2

LEMMA WaitType ==
  ASSUME KeeperType, NEW c \in Callers, waitUntilDone(c), LoginKey \in Keys
  PROVE  KeeperType'
  <1>1. ASSUME RunOwn(c) PROVE KeeperType'
    <2>1. PICK asking \in SUBSET (Spinners \cap {c}) : RunRunnables(<<c>>, records, logins, asking)
      BY <1>1 DEF RunOwn
    <2>2. <<c>> \in Seq(Callers)
      OBVIOUS
    <2> QED BY <1>1, <2>1, <2>2, RunType DEF KeeperType, RunOwn
  <1>2. CASE UNCHANGED keeperVars
    BY <1>2 DEF keeperVars, KeeperType
  <1>3. CASE addListener(c)
    BY <1>3 DEF addListener, KeeperType
  <1> QED BY <1>1, <1>2, <1>3 DEF waitUntilDone, readCount, runAtOnce, updateListener

LEMMA TypeInit == Init => TypeOK
  BY DEF Init, KeeperInit, TypeOK, Callers

LEMMA TypeOfKeeper == TypeOK => KeeperType
  BY DEF TypeOK, KeeperType

\* The keys that tasks close and open are keys, and their logins are counted.
LEMMA TaskType ==
  ASSUME TypeOK, Task PROVE KeeperType' /\ pc' \in [Workers \cup Callers ->
                  {"idle", "working", "clicked", "count", "run", "update", "add", "returned",
                   "failed", "over", "gaveUp"}]
  <1> USE GameLaunchAssumption, TypeOfKeeper DEF Goto, Callers
  <1>1. ASSUME NEW w \in Workers, workerStarts(w) \/ workerReports(w) PROVE KeeperType'
    BY <1>1, OpenType DEF workerStarts, workerReports
  <1>2. ASSUME NEW w \in Workers, workerEnds(w) PROVE KeeperType'
    BY <1>2, CloseType DEF workerEnds, TypeOK
  <1>3. ASSUME NEW s \in Spinners, loginReports(s) PROVE KeeperType'
    BY <1>3, OpenType DEF loginReports
  <1>4. ASSUME NEW s \in Spinners, loginEnds(s) PROVE KeeperType'
    <2>1. [logins EXCEPT ![s] = @ - 1] \in [Spinners -> Nat]
      BY <1>4 DEF loginEnds, TypeOK
    <2> QED BY <1>4, <2>1, CloseType DEF loginEnds
  <1>5. ASSUME NEW h \in Holders, holderStarts(h) PROVE KeeperType'
    BY <1>5, OpenType DEF holderStarts
  <1>6. ASSUME NEW h \in Holders, holderFails(h) PROVE KeeperType'
    BY <1>6 DEF holderFails, keeperVars, KeeperType
  <1>6a. ASSUME NEW h \in Holders, holderReports(h) PROVE KeeperType'
    BY <1>6a, OpenType DEF holderReports
  <1>7. ASSUME NEW h \in Holders, holderEnds(h) PROVE KeeperType'
    BY <1>7, CloseType DEF holderEnds, TypeOK
  <1>8. ASSUME NEW h \in Holders, waitUntilDone(h) PROVE KeeperType'
    BY <1>8, WaitType
  <1>9. KeeperType'
    BY <1>1, <1>2, <1>3, <1>4, <1>5, <1>6, <1>6a, <1>7, <1>8 DEF Task
  <1>10. pc' \in [Workers \cup Callers ->
                  {"idle", "working", "clicked", "count", "run", "update", "add", "returned",
                   "failed", "over", "gaveUp"}]
    BY DEF Task, TypeOK, workerStarts, workerReports, workerEnds, loginReports, loginEnds,
           holderStarts, holderReports, holderFails, holderEnds, waitUntilDone, readCount, runAtOnce,
           updateListener, addListener
  <1> QED BY <1>9, <1>10

LEMMA NextMessageType == TypeOK /\ NextMessage => looper' \in Seq(Messages)
  BY DEF TypeOK, NextMessage

LEMMA TypeStep == TypeOK /\ [Next]_vars => TypeOK'
  <1> USE GameLaunchAssumption DEF Goto, Callers
  <1> SUFFICES ASSUME TypeOK, [Next]_vars PROVE TypeOK'
    OBVIOUS
  <1>0. disturbed' \subseteq Holders /\ superseded' \subseteq Holders
    BY DEF Next, History, TypeOK, vars, historyVars
  <1>1. CASE Task /\ UNCHANGED launchVars
    BY <1>0, <1>1, TaskType DEF launchVars, KeeperType, TypeOK
  <1>2. CASE onResume \/ onPause
    BY <1>0, <1>2 DEF onResume, onPause, keeperVars, TypeOK
  <1>3. CASE cancelNotification \/ skipNothing
    <2>1. looper' \in Seq(Messages)
      BY <1>3, NextMessageType DEF cancelNotification, skipNothing
    <2>2. notification' \in BOOLEAN /\ UNCHANGED <<resumed, outcome>>
      BY <1>3 DEF cancelNotification, skipNothing, launchVars, TypeOK
    <2> QED BY <1>0, <1>3, <2>1, <2>2 DEF cancelNotification, skipNothing, NextMessage, TypeOK
  <1>4. ASSUME NEW h \in Holders, launchGame(h) PROVE TypeOK'
    BY <1>0, <1>4 DEF launchGame, keeperVars, launchVars, TypeOK
  <1>5. ASSUME NEW h \in Holders, execute(h) PROVE TypeOK'
    <2>1. looper' \in Seq(Messages)
      BY <1>5, NextMessageType DEF execute
    <2> QED BY <1>0, <1>5, <2>1 DEF execute, NextMessage, TypeOK
  <1>6. ASSUME NEW s \in Spinners, refreshAccount(s) PROVE TypeOK'
    BY <1>0, <1>6 DEF refreshAccount, keeperVars, launchVars, TypeOK
  <1>7. ASSUME NEW s \in Spinners, waitUntilDone(s), UNCHANGED launchVars PROVE TypeOK'
    <2>1. KeeperType'
      BY <1>7, WaitType, TypeOfKeeper
    <2>2. \E label \in {"run", "update", "returned", "add"} : Goto(s, label)
      BY <1>7 DEF waitUntilDone, readCount, runAtOnce, updateListener, addListener
    <2> QED BY <1>0, <1>7, <2>1, <2>2 DEF KeeperType, TypeOK, launchVars
  <1>8. CASE UNCHANGED vars
    BY <1>0, <1>8 DEF vars, keeperVars, launchVars, TypeOK
  <1> QED BY <1>1, <1>2, <1>3, <1>4, <1>5, <1>6, <1>7, <1>8 DEF Next, UiThread

\* Every variable of GameLaunch keeps its type.
THEOREM TypeCorrect == Spec => []TypeOK
  BY TypeInit, TypeStep, PTL DEF Spec

(***************************************************************************)
(* Why a download's result is posted once: the record of downloads keeps   *)
(* the count above zero until its listener is in the list, so neither the  *)
(* immediate run nor the listener's first update can happen, and from then *)
(* on the record that empties the table runs and removes the listener in   *)
(* one step.  A download whose record another one closed loses this, and   *)
(* keeps only that it posts.                                               *)
(***************************************************************************)
HoldsRecord(h) ==
    /\ pc[h] # "working"
    /\ h \notin disturbed =>
         pc[h] # "run" /\ (pc[h] \in InDownload => GameKey \in records)

NotYet(h) == runs[h] = 0 /\ h \notin Members(listeners)
Waits(h) == runs[h] = 0 /\ h \in Members(listeners)
Posted(h) == runs[h] = 1 /\ h \notin Members(listeners)

WhenPosted(h) ==
    h \notin disturbed =>
      /\ pc[h] \notin {"returned", "over"} => NotYet(h)
      /\ pc[h] = "returned" => Waits(h)
      /\ pc[h] = "over" => (Waits(h) /\ records # {}) \/ Posted(h)

AtLeastOnce(h) ==
    /\ pc[h] \in {"returned", "over"} => runs[h] > 0 \/ h \in Members(listeners)
    /\ pc[h] = "over" /\ h \in Members(listeners) => records # {}

\* What was posted is executed in the end.
Kept(h) == runs[h] = 0 \/ h \in Members(looper) \/ outcome[h] # "none"

\* No Cancel is behind the result, or the result is handled and no Cancel waits.
Ahead(h) ==
    \E k \in 1..Len(looper) :
        looper[k] = h /\ \A j \in (k + 1)..Len(looper) : looper[j] # Cancel

Handled(h) ==
    /\ h \notin Members(looper)
    /\ \/ outcome[h] \in {"started", "refused"}
       \/ outcome[h] = "notified" /\ notification /\ Cancel \notin Members(looper)

Fresh(h) ==
    h \notin disturbed /\ runs[h] > 0 /\ h \notin superseded =>
        records = {} /\ (Ahead(h) \/ Handled(h))

HolderInv ==
    \A h \in Holders : HoldsRecord(h) /\ WhenPosted(h) /\ AtLeastOnce(h) /\ Kept(h) /\ Fresh(h)

\* Behind the last result in the queue there is a Cancel while tasks go on.
CancelBehind ==
    \E k \in 1..Len(looper) :
        looper[k] = Cancel /\ \A j \in (k + 1)..Len(looper) : looper[j] \notin Holders

NotificationInv ==
    /\ ~(records \subseteq {LoginKey}) /\ (notification \/ Members(looper) \cap Holders # {})
    /\ \A h \in disturbed : runs[h] = 0
    => CancelBehind

IInv == TypeOK /\ HolderInv /\ NotificationInv

LEMMA MembersOfAppend ==
  ASSUME NEW S, NEW q \in Seq(S), NEW c \in S PROVE Members(Append(q, c)) = Members(q) \cup {c}
  <1> DEFINE s == Append(q, c)
  <1>1. /\ DOMAIN s = 1..(Len(q) + 1) /\ DOMAIN q = 1..Len(q) /\ Len(q) \in Nat
        /\ s[Len(q) + 1] = c /\ \A k \in 1..Len(q) : s[k] = q[k]
    OBVIOUS
  <1>2. 1..(Len(q) + 1) = 1..Len(q) \cup {Len(q) + 1}
    BY <1>1
  <1> HIDE DEF s
  <1>3. Members(s) = Members(q) \cup {c}
    BY <1>1, <1>2 DEF Members
  <1> QED BY <1>3 DEF s

LEMMA ItemsOfConcat ==
  ASSUME NEW S, NEW q \in Seq(S), NEW r \in Seq(S)
  PROVE  /\ Len(q \o r) = Len(q) + Len(r)
         /\ \A k \in 1..Len(q \o r) : (q \o r)[k] = IF k <= Len(q) THEN q[k] ELSE r[k - Len(q)]
  OBVIOUS

LEMMA MembersOfConcat ==
  ASSUME NEW S, NEW q \in Seq(S), NEW r \in Seq(S) PROVE Members(q \o r) = Members(q) \cup Members(r)
  <1> DEFINE s == q \o r
  <1>1. Len(s) = Len(q) + Len(r) /\ \A k \in 1..Len(s) :
            s[k] = IF k <= Len(q) THEN q[k] ELSE r[k - Len(q)]
    OBVIOUS
  <1>2. \A k \in 1..Len(q) : k \in 1..Len(s) /\ s[k] = q[k]
    BY <1>1
  <1>3. \A k \in 1..Len(r) : Len(q) + k \in 1..Len(s) /\ s[Len(q) + k] = r[k]
    BY <1>1
  <1>4. \A k \in 1..Len(s) : k \in 1..Len(q) \/ k - Len(q) \in 1..Len(r)
    BY <1>1
  <1>5. DOMAIN s = 1..Len(s) /\ DOMAIN q = 1..Len(q) /\ DOMAIN r = 1..Len(r)
    OBVIOUS
  <1> HIDE DEF s
  <1>6. Members(s) \subseteq Members(q) \cup Members(r)
    BY <1>1, <1>4, <1>5 DEF Members
  <1>7. Members(q) \subseteq Members(s)
    BY <1>2, <1>5 DEF Members
  <1>8. Members(r) \subseteq Members(s)
    BY <1>3, <1>5 DEF Members
  <1> QED BY <1>6, <1>7, <1>8 DEF s

(***************************************************************************)
(* What the operations of ProgressKeeper do to a holder.                   *)
(***************************************************************************)
LEMMA RunEffect ==
  ASSUME KeeperType, NEW q \in Seq(Callers), NEW left \in SUBSET Keys,
         NEW going \in [Spinners -> Nat], NEW asking \in SUBSET Spinners,
         RunRunnables(q, left, going, asking)
  PROVE  /\ \A h \in Holders : runs'[h] = IF h \in Members(q) THEN runs[h] + 1 ELSE runs[h]
         /\ left \subseteq records' /\ records' \subseteq left \cup {LoginKey}
         /\ Members(looper) \subseteq Members(looper')
         /\ Members(q) \cap Holders \subseteq Members(looper')
  <1> DEFINE Asked(k) == \E j \in 1..(k - 1) : q[j] \in asking
             Message(k) == IF q[k] \in Holders THEN q[k]
                           ELSE IF q[k] \in asking /\ LoginKey \notin left /\ ~Asked(k)
                                THEN Cancel ELSE NoMessage
             posted == [k \in DOMAIN q |-> Message(k)]
  <1>1. \A h \in Holders : runs'[h] = IF h \in Members(q) THEN runs[h] + 1 ELSE runs[h]
    BY DEF RunRunnables, Callers
  <1>2. left \subseteq records' /\ records' \subseteq left \cup {LoginKey}
    BY DEF RunRunnables
  <1>3. looper' = looper \o posted
    BY DEF RunRunnables
  <1>4. \A k \in DOMAIN q : Message(k) \in Messages /\ (q[k] \in Holders => Message(k) = q[k])
    BY DEF Messages
  <1> HIDE DEF Message
  <1>5. posted \in Seq(Messages)
    BY <1>4
  <1>6. Members(looper') = Members(looper) \cup Members(posted)
    <2>1. looper \in Seq(Messages)
      BY DEF KeeperType
    <2> HIDE DEF posted
    <2>2. Members(looper \o posted) = Members(looper) \cup Members(posted)
      BY ONLY <1>5, <2>1, MembersOfConcat
    <2> QED BY <1>3, <2>2
  <1>7. Members(q) \cap Holders \subseteq Members(posted)
    BY <1>4 DEF Members
  <1> QED BY <1>1, <1>2, <1>6, <1>7

LEMMA PostCancelEffect ==
  ASSUME KeeperType, PostCancel
  PROVE  CancelBehind' /\ Members(looper) \subseteq Members(looper')
  <1>1. CASE looper # <<>> /\ looper[Len(looper)] = Cancel
    <2>1. looper' = looper
      BY <1>1 DEF PostCancel
    <2>2. Len(looper) \in 1..Len(looper) /\ (Len(looper) + 1)..Len(looper) = {}
      BY <1>1 DEF KeeperType
    <2> QED BY <1>1, <2>1, <2>2 DEF CancelBehind
  <1>2. CASE ~(looper # <<>> /\ looper[Len(looper)] = Cancel)
    <2>1. looper' = Append(looper, Cancel)
      BY <1>2 DEF PostCancel
    <2>2. Members(looper') = Members(looper) \cup {Cancel}
      BY <2>1, MembersOfAppend, Cancel \in Messages DEF KeeperType, Messages
    <2>3. Len(looper') \in 1..Len(looper') /\ looper'[Len(looper')] = Cancel
          /\ (Len(looper') + 1)..Len(looper') = {}
      BY <2>1 DEF KeeperType
    <2> QED BY <2>2, <2>3 DEF CancelBehind
  <1> QED BY <1>1, <1>2

LEMMA OpenEffect ==
  ASSUME KeeperType, NEW key \in Keys, openRecord(key)
  PROVE  /\ records' = records \cup {key} /\ UNCHANGED <<listeners, runs>>
         /\ Members(looper) \subseteq Members(looper')
         /\ CancelBehind' \/ UNCHANGED <<records, looper>>
  BY PostCancelEffect DEF openRecord

LEMMA CloseEffect ==
  ASSUME KeeperType, NEW key \in Keys, NEW going \in [Spinners -> Nat], closeRecord(key, going)
  PROVE  /\ \/ /\ records \ {key} # {} /\ records' = records \ {key} /\ UNCHANGED <<listeners, runs>>
               /\ CancelBehind'
            \/ /\ records \ {key} = {} /\ records' \subseteq {LoginKey} /\ Members(listeners') = {}
               /\ \A h \in Holders :
                     /\ runs'[h] = IF h \in Members(listeners) THEN runs[h] + 1 ELSE runs[h]
                     /\ h \in Members(listeners) => h \in Members(looper')
         /\ Members(looper) \subseteq Members(looper')
  <1>1. CASE records \ {key} = {}
    <2>1. PICK asking \in SUBSET (Spinners \cap Members(listeners)) :
             RunRunnables(listeners, {}, going, asking)
      BY <1>1 DEF closeRecord
    <2>2. listeners' = <<>>
      BY <1>1 DEF closeRecord
    <2>3. listeners \in Seq(Callers) /\ {} \in SUBSET Keys /\ asking \in SUBSET Spinners
      BY DEF KeeperType
    <2>4. /\ \A h \in Holders :
                runs'[h] = IF h \in Members(listeners) THEN runs[h] + 1 ELSE runs[h]
          /\ records' \subseteq {LoginKey}
          /\ Members(looper) \subseteq Members(looper')
          /\ Members(listeners) \cap Holders \subseteq Members(looper')
      BY <2>1, <2>3, RunEffect
    <2>5. Members(listeners') = {}
      BY <2>2 DEF Members
    <2> QED BY <1>1, <2>4, <2>5
  <1>2. CASE records \ {key} # {}
    BY <1>2, PostCancelEffect DEF closeRecord
  <1> QED BY <1>1, <1>2

\* The runnable of a spinner that runs by itself posts no holder's result.
LEMMA SpinnerEffect ==
  ASSUME KeeperType, NEW s \in Spinners, RunOwn(s)
  PROVE  /\ UNCHANGED listeners /\ \A h \in Holders : runs'[h] = runs[h]
         /\ records \subseteq records' /\ records' \subseteq records \cup {LoginKey}
         /\ Members(looper) \subseteq Members(looper')
         /\ Members(looper') \cap Holders \subseteq Members(looper)
         /\ CancelBehind => CancelBehind'
  <1> USE GameLaunchAssumption
  <1>1. PICK asking \in SUBSET (Spinners \cap {s}) : RunRunnables(<<s>>, records, logins, asking)
    BY DEF RunOwn
  <1>2. <<s>> \in Seq(Callers) /\ Members(<<s>>) = {s} /\ s \notin Holders
    BY DEF Members, Callers
  <1>3. /\ \A h \in Holders : runs'[h] = IF h \in Members(<<s>>) THEN runs[h] + 1 ELSE runs[h]
        /\ records \subseteq records' /\ records' \subseteq records \cup {LoginKey}
        /\ Members(looper) \subseteq Members(looper')
    BY <1>1, <1>2, RunEffect DEF KeeperType
  <1>4. PICK m \in {Cancel, NoMessage} : looper' = Append(looper, m)
    <2>1. PICK m \in {Cancel, NoMessage} : looper' = looper \o [k \in DOMAIN <<s>> |-> m]
      <3> DEFINE Asked(k) == \E j \in 1..(k - 1) : <<s>>[j] \in asking
                 Message(k) == IF <<s>>[k] \in Holders THEN <<s>>[k]
                               ELSE IF <<s>>[k] \in asking /\ LoginKey \notin records /\ ~Asked(k)
                                    THEN Cancel ELSE NoMessage
      <3>1. looper' = looper \o [k \in DOMAIN <<s>> |-> Message(k)]
        BY <1>1 DEF RunRunnables
      <3>2. \A k \in DOMAIN <<s>> : k = 1
        OBVIOUS
      <3>3. Message(1) \in {Cancel, NoMessage}
        BY <1>2
      <3> HIDE DEF Message
      <3>4. [k \in DOMAIN <<s>> |-> Message(k)] = [k \in DOMAIN <<s>> |-> Message(1)]
        BY <3>2
      <3> QED BY <3>1, <3>3, <3>4
    <2>2. [k \in DOMAIN <<s>> |-> m] = <<m>>
      OBVIOUS
    <2>3. m \in Messages
      BY DEF Messages
    <2> QED BY <2>1, <2>2, <2>3 DEF KeeperType
  <1>5. m \notin Holders /\ m \in Messages /\ looper \in Seq(Messages)
    BY DEF KeeperType, Messages
  <1>6. Members(looper') = Members(looper) \cup {m}
    <2>1. Members(Append(looper, m)) = Members(looper) \cup {m}
      BY <1>5, MembersOfAppend
    <2> QED BY <1>4, <2>1
  <1>7. ASSUME CancelBehind PROVE CancelBehind'
    <2>1. PICK k \in 1..Len(looper) :
             looper[k] = Cancel /\ \A j \in (k + 1)..Len(looper) : looper[j] \notin Holders
      BY <1>7 DEF CancelBehind
    <2>2. /\ Len(looper) \in Nat /\ Len(looper') = Len(looper) + 1
          /\ looper'[Len(looper) + 1] = m /\ \A j \in 1..Len(looper) : looper'[j] = looper[j]
      BY <1>4, <1>5
    <2>3. \A j \in (k + 1)..(Len(looper) + 1) : looper'[j] \notin Holders
      BY <1>5, <2>1, <2>2
    <2>4. k \in 1..Len(looper') /\ looper'[k] = Cancel
      BY <2>1, <2>2
    <2> QED BY <2>2, <2>3, <2>4 DEF CancelBehind
  <1> QED BY <1>2, <1>3, <1>5, <1>6, <1>7 DEF RunOwn

\* A runnable that runs by itself posts no other holder's result.
LEMMA OwnEffect ==
  ASSUME KeeperType, NEW c \in Callers, RunOwn(c)
  PROVE  /\ UNCHANGED listeners
         /\ \A h \in Holders : runs'[h] = IF h = c THEN runs[h] + 1 ELSE runs[h]
         /\ records \subseteq records'
         /\ Members(looper) \subseteq Members(looper')
         /\ c \in Holders => c \in Members(looper')
  <1>1. PICK asking \in SUBSET (Spinners \cap {c}) : RunRunnables(<<c>>, records, logins, asking)
    BY DEF RunOwn
  <1>2. <<c>> \in Seq(Callers) /\ Members(<<c>>) = {c}
    BY DEF Members
  <1>3. /\ \A h \in Holders : runs'[h] = IF h \in Members(<<c>>) THEN runs[h] + 1 ELSE runs[h]
        /\ records \subseteq records'
        /\ Members(looper) \subseteq Members(looper')
        /\ Members(<<c>>) \cap Holders \subseteq Members(looper')
    BY <1>1, <1>2, RunEffect DEF KeeperType
  <1> QED BY <1>2, <1>3 DEF RunOwn

\* Runnables that begin no login put results, but no Cancel, into the queue.
LEMMA QuietRun ==
  ASSUME KeeperType, NEW q \in Seq(Callers), NEW left, NEW going,
         RunRunnables(q, left, going, {}), NEW h \in Holders
  PROVE  /\ records' = left
         /\ h \in Members(q) => Ahead(h)'
         /\ Ahead(h) => Ahead(h)'
         /\ Cancel \notin Members(looper) => Cancel \notin Members(looper')
         /\ h \notin Members(q) /\ h \notin Members(looper) => h \notin Members(looper')
  <1> USE GameLaunchAssumption
  <1> DEFINE Message(k) == IF q[k] \in Holders THEN q[k] ELSE NoMessage
             posted == [k \in DOMAIN q |-> Message(k)]
             new == looper \o posted
  <1>1. records' = left /\ looper' = new
    BY DEF RunRunnables
  <1>2. posted \in Seq(Messages) /\ DOMAIN posted = 1..Len(q) /\ looper \in Seq(Messages)
        /\ Len(posted) = Len(q) /\ Len(q) \in Nat /\ DOMAIN q = 1..Len(q)
    <2>1. \A k \in DOMAIN q : Message(k) \in Messages
      BY DEF Messages
    <2>2. looper \in Seq(Messages)
      BY DEF KeeperType
    <2> HIDE DEF Message
    <2> QED BY <2>1, <2>2
  <1>3. \A k \in DOMAIN q :
            /\ posted[k] # Cancel /\ (q[k] \in Holders => posted[k] = q[k])
            /\ posted[k] = h => q[k] = h
    BY DEF Cancel, NoMessage
  <1> HIDE DEF posted
  <1>5. Members(new) = Members(looper) \cup Members(posted)
    BY <1>2, MembersOfConcat
  <1>4. /\ Len(looper) \in Nat /\ Len(new) = Len(looper) + Len(q)
        /\ \A k \in 1..Len(new) : new[k] = IF k <= Len(looper) THEN looper[k]
                                                          ELSE posted[k - Len(looper)]
    <2>1. posted \in Seq(Messages) /\ looper \in Seq(Messages)
      BY <1>2
    <2>2. /\ Len(new) = Len(looper) + Len(posted)
          /\ \A k \in 1..Len(new) : new[k] = IF k <= Len(looper) THEN looper[k]
                                                            ELSE posted[k - Len(looper)]
      BY ONLY <2>1, ItemsOfConcat
    <2> QED BY <1>2, <2>2
  <1> HIDE DEF new
  <1>6. \A k \in 1..Len(new) : k > Len(looper) => new[k] # Cancel
    <2>1. \A k \in 1..Len(new) : k > Len(looper) => k - Len(looper) \in DOMAIN q
      BY <1>2, <1>4
    <2>2. \A k \in 1..Len(new) : k > Len(looper) => new[k] = posted[k - Len(looper)]
      BY <1>4
    <2> QED BY <1>3, <2>1, <2>2
  <1>7. ASSUME h \in Members(q) PROVE Ahead(h)'
    <2>1. PICK k \in DOMAIN q : q[k] = h
      BY <1>7 DEF Members
    <2>2. Len(looper) + k \in 1..Len(new) /\ new[Len(looper) + k] = h
      BY <1>2, <1>3, <1>4, <2>1
    <2>3. \A j \in (Len(looper) + k + 1)..Len(new) : new[j] # Cancel
      BY <1>2, <1>4, <1>6
    <2> QED BY <1>1, <2>2, <2>3 DEF Ahead
  <1>8. ASSUME Ahead(h) PROVE Ahead(h)'
    <2>1. PICK k \in 1..Len(looper) :
             looper[k] = h /\ \A j \in (k + 1)..Len(looper) : looper[j] # Cancel
      BY <1>8 DEF Ahead
    <2>2. k \in 1..Len(new) /\ new[k] = h
      BY <1>2, <1>4, <2>1
    <2>3. \A j \in (k + 1)..Len(new) : new[j] # Cancel
      BY <1>2, <1>4, <1>6, <2>1
    <2> QED BY <1>1, <2>2, <2>3 DEF Ahead
  <1>9. Cancel \notin Members(posted) /\ (h \notin Members(q) => h \notin Members(posted))
    BY <1>2, <1>3 DEF Members
  <1> QED BY <1>1, <1>5, <1>7, <1>8, <1>9

\* A step that opens no record begins no login.
LEMMA NoLogin ==
  ASSUME TypeOK, NEW q \in Seq(Callers), NEW left, NEW going,
         NEW asking \in SUBSET (Spinners \cap Members(q)),
         RunRunnables(q, left, going, asking), ~Opens
  PROVE  asking = {}
  <1> SUFFICES ASSUME NEW s \in asking PROVE FALSE
    OBVIOUS
  <1>1. s \in Callers /\ runs[s] \in Nat
    BY DEF TypeOK, Callers
  <1>2. runs'[s] = runs[s] + 1 /\ LoginKey \in records'
    BY <1>1 DEF RunRunnables
  <1> QED BY <1>1, <1>2 DEF Opens

(***************************************************************************)
(* The invariant, step by step.                                            *)
(***************************************************************************)
LEMMA InvInit == Init => HolderInv /\ NotificationInv
  <1>1. Members(<<>>) = {}
    BY DEF Members
  <1> QED BY <1>1, GameLaunchAssumption
     DEF Init, KeeperInit, HolderInv, HoldsRecord, WhenPosted, AtLeastOnce, NotYet, Kept, Fresh,
         NotificationInv, Callers, InDownload

LEMMA HistoryGrows ==
  ASSUME History
  PROVE  /\ disturbed \subseteq disturbed' /\ superseded \subseteq superseded'
         /\ \A h \in Holders, other \in Holders :
               /\ h # other /\ pc[h] \in InDownload
               /\ pc[other] \in InDownload /\ pc'[other] \in {"over", "gaveUp"}
               => h \in disturbed'
         /\ \A h \in Holders : runs'[h] > 0 /\ h \notin superseded' => ~Opens
  BY DEF History

LEMMA HolderOfTask ==
  ASSUME TypeOK, HolderInv, Task, UNCHANGED launchVars, History, NEW h \in Holders
  PROVE  (HoldsRecord(h) /\ WhenPosted(h) /\ AtLeastOnce(h) /\ Kept(h))'
  <1> USE GameLaunchAssumption, TypeOfKeeper, HistoryGrows DEF Callers, launchVars, InDownload
  <1> USE DEF HoldsRecord, WhenPosted, AtLeastOnce, NotYet, Waits, Posted, Kept
  <1>0. HoldsRecord(h) /\ WhenPosted(h) /\ AtLeastOnce(h) /\ Kept(h) /\ runs[h] \in Nat
    BY DEF HolderInv, TypeOK
  <1> DEFINE Goal == (HoldsRecord(h) /\ WhenPosted(h) /\ AtLeastOnce(h) /\ Kept(h))'
  <1>1. ASSUME NEW key \in Keys, openRecord(key), pc'[h] = pc[h] PROVE Goal
    BY <1>0, <1>1, OpenEffect
  <1>2. ASSUME NEW key \in Keys, NEW going \in [Spinners -> Nat],
               key # GameKey \/ pc[h] \notin InDownload \/ h \in disturbed',
               closeRecord(key, going), pc'[h] = pc[h]
        PROVE  Goal
    BY <1>0, <1>2, CloseEffect
  <1>3. ASSUME NEW w \in Workers, workerStarts(w) \/ workerReports(w) \/ workerEnds(w) PROVE Goal
    <2>0. w # h /\ KeyOf[w] \in Keys /\ KeyOf[w] # GameKey
      OBVIOUS
    <2>1. pc'[h] = pc[h]
      BY <1>3, <2>0 DEF workerStarts, workerReports, workerEnds, Goto, TypeOK
    <2> QED BY <1>1, <1>2, <1>3, <2>0, <2>1 DEF workerStarts, workerReports, workerEnds, TypeOK
  <1>4. ASSUME NEW s \in Spinners, loginReports(s) PROVE Goal
    BY <1>1, <1>4 DEF loginReports
  <1>5. ASSUME NEW s \in Spinners, loginEnds(s) PROVE Goal
    <2>1. [logins EXCEPT ![s] = @ - 1] \in [Spinners -> Nat]
      BY <1>5 DEF loginEnds, TypeOK
    <2> QED BY <1>2, <1>5, <2>1 DEF loginEnds
  <1>6. ASSUME NEW c \in Holders, holderStarts(c) \/ holderReports(c) PROVE Goal
    BY <1>0, <1>6, OpenEffect DEF holderStarts, holderReports, Goto, TypeOK
  <1>7. ASSUME NEW c \in Holders, holderFails(c) PROVE Goal
    BY <1>0, <1>7 DEF holderFails, Goto, TypeOK, keeperVars
  <1>8. ASSUME NEW c \in Holders, holderEnds(c) PROVE Goal
    <2>0. logins \in [Spinners -> Nat] /\ closeRecord(GameKey, logins)
      BY <1>8 DEF holderEnds, TypeOK
    <2>1. pc[c] \in {"returned", "failed"}
          /\ pc'[c] = IF pc[c] = "failed" THEN "gaveUp" ELSE "over"
      BY <1>8 DEF holderEnds, Goto, TypeOK
    <2>2. CASE c = h
      BY <1>0, <2>0, <2>1, <2>2, CloseEffect
    <2>3. CASE c # h
      <3>1. pc'[h] = pc[h] /\ (pc[h] \notin InDownload \/ h \in disturbed')
        BY <1>8, <2>1, <2>3 DEF holderEnds, Goto
      <3> QED BY <1>2, <2>0, <3>1
    <2> QED BY <2>2, <2>3
  <1>9. ASSUME NEW c \in Holders, waitUntilDone(c) PROVE Goal
    <2>0. HoldsRecord(c)
      BY DEF HolderInv
    <2>1. CASE readCount(c)
      BY <1>0, <2>0, <2>1 DEF readCount, Goto, TypeOK, keeperVars
    <2>2. CASE runAtOnce(c)
      BY <1>0, <2>0, <2>2, OwnEffect DEF runAtOnce, Goto, TypeOK
    <2>3. CASE updateListener(c)
      <3>1. CASE records = {}
        BY <1>0, <2>0, <2>3, <3>1, OwnEffect DEF updateListener, Goto, TypeOK
      <3>2. CASE records # {}
        BY <1>0, <2>0, <2>3, <3>2 DEF updateListener, Goto, TypeOK, keeperVars
      <3> QED BY <3>1, <3>2
    <2>4. CASE addListener(c)
      <3>0. listeners \in Seq(Callers) /\ c \in Callers /\ listeners' = Append(listeners, c)
        BY <2>4 DEF addListener, TypeOK
      <3>1. Members(listeners') = Members(listeners) \cup {c}
        BY <3>0, MembersOfAppend
      <3> QED BY <1>0, <2>0, <2>4, <3>1 DEF addListener, Goto, TypeOK
    <2> QED BY <1>9, <2>1, <2>2, <2>3, <2>4 DEF waitUntilDone
  <1> QED BY <1>3, <1>4, <1>5, <1>6, <1>7, <1>8, <1>9 DEF Task

\* As long as no record is opened, a result that was posted when the table was
\* empty finds it empty and no Cancel comes behind it.
LEMMA FreshOfRun ==
  ASSUME TypeOK, NEW h \in Holders, HoldsRecord(h), Fresh(h), UNCHANGED launchVars, History,
         runs'[h] > 0, h \notin disturbed', h \notin superseded'
  PROVE  /\ \A key \in Keys : openRecord(key) => FALSE
         /\ \A key \in Keys : \A going \in [Spinners -> Nat] : closeRecord(key, going) =>
               records' = {} /\ (Ahead(h)' \/ Handled(h)')
         /\ \A c \in Callers : RunOwn(c) /\ (c = h => FALSE) =>
               records' = {} /\ (Ahead(h)' \/ Handled(h)')
         /\ UNCHANGED <<records, runs, looper>> =>
               records' = {} /\ (Ahead(h)' \/ Handled(h)')
  <1> USE GameLaunchAssumption, TypeOfKeeper DEF launchVars
  <1>0. h \notin disturbed /\ h \notin superseded /\ ~Opens /\ KeeperType
    BY HistoryGrows
  <1>1. runs'[h] = runs[h] => records = {} /\ (Ahead(h) \/ Handled(h))
    BY <1>0 DEF Fresh
  <1>2. ASSUME NEW key \in Keys, openRecord(key) PROVE FALSE
    <2>1. records' = records \cup {key} /\ UNCHANGED runs
      BY <1>2 DEF openRecord
    <2> QED BY <1>0, <1>1, <2>1 DEF Opens
  <1>3. ASSUME NEW key \in Keys, NEW going \in [Spinners -> Nat], closeRecord(key, going)
        PROVE  records' = {} /\ (Ahead(h)' \/ Handled(h)')
    <2>1. CASE records \ {key} = {}
      <3>0. listeners \in Seq(Callers)
        BY DEF TypeOK
      <3>1. PICK asking \in SUBSET (Spinners \cap Members(listeners)) :
               RunRunnables(listeners, {}, going, asking)
        BY <1>3, <2>1 DEF closeRecord
      <3>2. asking = {}
        BY <1>0, <3>0, <3>1, NoLogin
      <3>3. /\ records' = {} /\ (h \in Members(listeners) => Ahead(h)')
            /\ Ahead(h) => Ahead(h)'
            /\ Cancel \notin Members(looper) => Cancel \notin Members(looper')
            /\ h \notin Members(listeners) /\ h \notin Members(looper) => h \notin Members(looper')
        BY <1>0, <3>0, <3>1, <3>2, QuietRun
      <3>4. h \notin Members(listeners) => runs'[h] = runs[h]
        BY <3>1 DEF RunRunnables, Callers
      <3> QED BY <1>1, <3>3, <3>4 DEF Handled
    <2>2. CASE records \ {key} # {}
      BY <1>1, <1>3, <2>2 DEF closeRecord
    <2> QED BY <2>1, <2>2
  <1>4. ASSUME NEW c \in Callers, RunOwn(c), c # h
        PROVE  records' = {} /\ (Ahead(h)' \/ Handled(h)')
    <2>0. <<c>> \in Seq(Callers) /\ Members(<<c>>) = {c}
      BY DEF Members
    <2>1. PICK asking \in SUBSET (Spinners \cap Members(<<c>>)) :
             RunRunnables(<<c>>, records, logins, asking)
      BY <1>4, <2>0 DEF RunOwn
    <2>2. asking = {}
      BY <1>0, <2>0, <2>1, NoLogin
    <2>3. /\ records' = records
          /\ Ahead(h) => Ahead(h)'
          /\ Cancel \notin Members(looper) => Cancel \notin Members(looper')
          /\ h \notin Members(looper) => h \notin Members(looper')
      BY <1>0, <1>4, <2>0, <2>1, <2>2, QuietRun
    <2>4. runs'[h] = runs[h]
      BY <1>0, <1>4, OwnEffect
    <2> QED BY <1>1, <2>3, <2>4 DEF Handled
  <1>5. ASSUME UNCHANGED <<records, runs, looper>>
        PROVE  records' = {} /\ (Ahead(h)' \/ Handled(h)')
    BY <1>1, <1>5 DEF Ahead, Handled
  <1> QED BY <1>2, <1>3, <1>4, <1>5

LEMMA FreshOfTask ==
  ASSUME TypeOK, HolderInv, Task, UNCHANGED launchVars, History, NEW h \in Holders
  PROVE  Fresh(h)'
  <1> USE GameLaunchAssumption DEF Callers
  <1> SUFFICES ASSUME runs'[h] > 0, h \notin disturbed', h \notin superseded'
               PROVE  records' = {} /\ (Ahead(h)' \/ Handled(h)')
    BY DEF Fresh
  <1>0. HoldsRecord(h) /\ Fresh(h) /\ h \notin disturbed
    BY HistoryGrows DEF HolderInv
  <1> DEFINE Goal == records' = {} /\ (Ahead(h)' \/ Handled(h)')
  <1>1. ASSUME NEW key \in Keys, openRecord(key) PROVE FALSE
    BY <1>0, <1>1, FreshOfRun
  <1>2. ASSUME NEW key \in Keys, NEW going \in [Spinners -> Nat], closeRecord(key, going) PROVE Goal
    BY <1>0, <1>2, FreshOfRun
  <1>3. ASSUME NEW c \in Callers, RunOwn(c), c # h PROVE Goal
    BY <1>0, <1>3, FreshOfRun
  <1>4. UNCHANGED <<records, runs, looper>> => Goal
    BY <1>0, FreshOfRun
  <1> HIDE DEF Goal
  <1>5. ASSUME NEW w \in Workers, workerStarts(w) \/ workerReports(w) \/ workerEnds(w) PROVE Goal
    BY <1>1, <1>2, <1>5 DEF workerStarts, workerReports, workerEnds, TypeOK
  <1>6. ASSUME NEW s \in Spinners, loginReports(s) \/ loginEnds(s) PROVE Goal
    <2>1. loginEnds(s) => [logins EXCEPT ![s] = @ - 1] \in [Spinners -> Nat]
      BY DEF loginEnds, TypeOK
    <2> QED BY <1>1, <1>2, <1>6, <2>1 DEF loginReports, loginEnds
  <1>7. ASSUME NEW c \in Holders, holderStarts(c) \/ holderReports(c) \/ holderFails(c) \/ holderEnds(c)
        PROVE  Goal
    BY <1>1, <1>2, <1>4, <1>7 DEF holderStarts, holderReports, holderFails, holderEnds, keeperVars,
       TypeOK
  <1>8. ASSUME NEW c \in Holders, waitUntilDone(c) PROVE Goal
    <2>1. runAtOnce(c) \/ (updateListener(c) /\ records = {}) => c # h
      BY <1>0 DEF HoldsRecord, runAtOnce, updateListener, InDownload
    <2> QED BY <1>3, <1>4, <1>8, <2>1 DEF waitUntilDone, readCount, runAtOnce, updateListener,
           addListener, keeperVars
  <1>9. Goal
    BY <1>5, <1>6, <1>7, <1>8 DEF Task
  <1> QED BY <1>9 DEF Goal

\* While tasks go on, none of a task's steps posts a result or takes the
\* Cancel away; a step that closes the last record leaves a login at most.
LEMMA NotificationOfTask ==
  ASSUME TypeOK, HolderInv, NotificationInv, Task, UNCHANGED launchVars, History
  PROVE  NotificationInv'
  <1> USE GameLaunchAssumption, TypeOfKeeper DEF Callers, launchVars
  <1>0. disturbed \subseteq disturbed' /\ disturbed \subseteq Holders
    BY HistoryGrows DEF TypeOK
  <1>1. ASSUME NEW key \in Keys, openRecord(key) PROVE NotificationInv'
    <2>1. CASE CancelBehind'
      BY <2>1 DEF NotificationInv
    <2>2. CASE UNCHANGED <<records, looper>>
      BY <1>0, <1>1, <2>2, OpenEffect DEF NotificationInv, CancelBehind
    <2> QED BY <1>1, <2>1, <2>2, OpenEffect
  <1>2. ASSUME NEW key \in Keys, NEW going \in [Spinners -> Nat], closeRecord(key, going)
        PROVE  NotificationInv'
    BY <1>2, CloseEffect DEF NotificationInv
  <1>3. ASSUME UNCHANGED <<records, runs, looper>> PROVE NotificationInv'
    BY <1>0, <1>3 DEF NotificationInv, CancelBehind
  <1>4. ASSUME NEW w \in Workers, workerStarts(w) \/ workerReports(w) \/ workerEnds(w)
        PROVE  NotificationInv'
    BY <1>1, <1>2, <1>4 DEF workerStarts, workerReports, workerEnds, TypeOK
  <1>5. ASSUME NEW s \in Spinners, loginReports(s) \/ loginEnds(s) PROVE NotificationInv'
    <2>1. loginEnds(s) => [logins EXCEPT ![s] = @ - 1] \in [Spinners -> Nat]
      BY DEF loginEnds, TypeOK
    <2> QED BY <1>1, <1>2, <1>5, <2>1 DEF loginReports, loginEnds
  <1>6. ASSUME NEW h \in Holders, holderStarts(h) \/ holderReports(h) \/ holderFails(h) \/ holderEnds(h)
        PROVE  NotificationInv'
    BY <1>1, <1>2, <1>3, <1>6 DEF holderStarts, holderReports, holderFails, holderEnds, keeperVars,
       TypeOK
  <1>7. ASSUME NEW h \in Holders, waitUntilDone(h) PROVE NotificationInv'
    <2>1. ASSUME RunOwn(h), runAtOnce(h) \/ (updateListener(h) /\ records = {})
          PROVE  NotificationInv'
      <3>1. h \in disturbed'
        BY <1>0, <2>1 DEF HolderInv, HoldsRecord, runAtOnce, updateListener, InDownload
      <3>2. runs'[h] = runs[h] + 1 /\ runs[h] \in Nat
        BY <2>1, OwnEffect DEF TypeOK
      <3> QED BY <3>1, <3>2 DEF NotificationInv
    <2> QED BY <1>3, <1>7, <2>1 DEF waitUntilDone, readCount, runAtOnce, updateListener, addListener,
           keeperVars
  <1> QED BY <1>4, <1>5, <1>6, <1>7 DEF Task

\* The UI thread takes the head of the queue: a Cancel that is behind the last
\* result stays behind it until the results are executed.
LEMMA TakeMessage ==
  ASSUME TypeOK, NextMessage
  PROVE  /\ looper' \in Seq(Messages)
         /\ Members(looper) = {Head(looper)} \cup Members(looper')
         /\ CancelBehind /\ (Head(looper) # Cancel \/ Members(looper') \cap Holders # {})
               => CancelBehind'
  <1> USE DEF TypeOK, NextMessage
  <1>1. /\ looper' \in Seq(Messages) /\ Len(looper) \in Nat \ {0} /\ Len(looper') = Len(looper) - 1
        /\ Head(looper) = looper[1] /\ \A k \in 1..Len(looper') : looper'[k] = looper[k + 1]
        /\ DOMAIN looper = 1..Len(looper) /\ DOMAIN looper' = 1..Len(looper')
    OBVIOUS
  <1>2. Members(looper) = {Head(looper)} \cup Members(looper')
    <2> DEFINE q == looper
               t == looper'
               m == Head(looper)
    <2>1. /\ 1 \in DOMAIN q /\ q[1] = m
          /\ \A k \in DOMAIN q : k = 1 \/ (k - 1 \in DOMAIN t /\ t[k - 1] = q[k])
      BY <1>1
    <2>2. \A k \in DOMAIN t : k + 1 \in DOMAIN q /\ q[k + 1] = t[k]
      BY <1>1
    <2> HIDE DEF q, t, m
    <2>3. Members(q) = {m} \cup Members(t)
      BY ONLY <2>1, <2>2 DEF Members
    <2> QED BY <2>3 DEF q, t, m, Members
  <1>3. ASSUME CancelBehind, Head(looper) # Cancel \/ Members(looper') \cap Holders # {}
        PROVE  CancelBehind'
    <2>1. PICK k \in 1..Len(looper) :
             looper[k] = Cancel /\ \A j \in (k + 1)..Len(looper) : looper[j] \notin Holders
      BY <1>3 DEF CancelBehind
    <2>2. ASSUME k = 1 PROVE FALSE
      <3>1. \A j \in DOMAIN looper' : looper'[j] \notin Holders
        <4>1. \A j \in DOMAIN looper' : j + 1 \in (k + 1)..Len(looper) /\ looper'[j] = looper[j + 1]
          BY <1>1, <2>2
        <4> QED BY <2>1, <4>1
      <3>2. Members(looper') \cap Holders = {}
        <4> DEFINE s == looper'
        <4>1. \A j \in DOMAIN s : s[j] \notin Holders
          BY <3>1
        <4> HIDE DEF s
        <4>2. Members(s) \cap Holders = {}
          BY <4>1 DEF Members
        <4> QED BY <4>2 DEF s, Members
      <3>3. Head(looper) = Cancel
        BY <1>1, <2>1, <2>2
      <3> QED BY <1>3, <3>2, <3>3
    <2>3. k - 1 \in 1..Len(looper') /\ looper'[k - 1] = Cancel
      BY <1>1, <2>1, <2>2
    <2>4. \A j \in ((k - 1) + 1)..Len(looper') : looper'[j] \notin Holders
      BY <1>1, <2>1
    <2> QED BY <2>3, <2>4 DEF CancelBehind
  <1> QED BY <1>1, <1>2, <1>3

\* What a message leaves of a result that no Cancel follows.
LEMMA FreshOfMessage ==
  ASSUME TypeOK, NextMessage, NEW h \in Holders
  PROVE  /\ Ahead(h) /\ Head(looper) # h => Ahead(h)'
         /\ Ahead(h) /\ Head(looper) = h =>
               Ahead(h)' \/ (Cancel \notin Members(looper') /\ h \notin Members(looper'))
  <1> USE GameLaunchAssumption DEF TypeOK, NextMessage
  <1> SUFFICES ASSUME Ahead(h)
               PROVE  \/ Ahead(h)'
                      \/ /\ Head(looper) = h
                         /\ Cancel \notin Members(looper') /\ h \notin Members(looper')
    OBVIOUS
  <1>1. /\ looper' \in Seq(Messages) /\ Len(looper) \in Nat \ {0} /\ Len(looper') = Len(looper) - 1
        /\ Head(looper) = looper[1] /\ \A k \in 1..Len(looper') : looper'[k] = looper[k + 1]
        /\ DOMAIN looper' = 1..Len(looper')
    OBVIOUS
  <1>2. PICK k \in 1..Len(looper) : looper[k] = h /\ \A j \in (k + 1)..Len(looper) : looper[j] # Cancel
    BY DEF Ahead
  <1>3. CASE k = 1
    <2> DEFINE t == looper'
    <2>1. \A j \in DOMAIN t : t[j] # Cancel
      <3>1. \A j \in DOMAIN t : j + 1 \in (k + 1)..Len(looper) /\ t[j] = looper[j + 1]
        BY <1>1, <1>3
      <3> QED BY <1>2, <3>1
    <2>2. ASSUME NEW j \in DOMAIN t, t[j] = h PROVE Ahead(h)'
      <3>1. j \in 1..Len(t) /\ \A i \in (j + 1)..Len(t) : i \in DOMAIN t
        BY <1>1
      <3> QED BY <2>1, <2>2, <3>1 DEF Ahead
    <2> HIDE DEF t
    <2>3. Cancel \notin Members(t)
      BY <2>1 DEF Members
    <2>4. h \in Members(t) => Ahead(h)'
      BY <2>2 DEF Members
    <2>5. Head(looper) = h
      BY <1>1, <1>2, <1>3
    <2> QED BY <2>3, <2>4, <2>5 DEF t, Members
  <1>4. CASE k # 1
    <2>1. k - 1 \in 1..Len(looper') /\ looper'[k - 1] = h
      BY <1>1, <1>2, <1>4
    <2>2. \A j \in ((k - 1) + 1)..Len(looper') : looper'[j] # Cancel
      BY <1>1, <1>2
    <2>3. Ahead(h)'
      BY <2>1, <2>2 DEF Ahead
    <2> QED BY <1>1, <1>2, <1>4, <2>3
  <1> QED BY <1>3, <1>4

\* The UI thread keeps the invariant.
LEMMA InvOfUiThread ==
  ASSUME IInv, UiThread, History PROVE HolderInv' /\ NotificationInv'
  <1> USE GameLaunchAssumption, HistoryGrows DEF Callers, IInv, InDownload
  <1> USE DEF HolderInv, HoldsRecord, WhenPosted, AtLeastOnce, NotYet, Waits, Posted, Kept
  <1>1. ASSUME UNCHANGED <<records, listeners, runs, looper, notification, outcome>>,
               \A h \in Holders : pc'[h] = pc[h] \/ (pc[h] = "idle" /\ pc'[h] = "clicked")
        PROVE  HolderInv' /\ NotificationInv'
    <2>1. ASSUME NEW h \in Holders
          PROVE  (HoldsRecord(h) /\ WhenPosted(h) /\ AtLeastOnce(h) /\ Kept(h))'
      BY <1>1
    <2>2. ASSUME NEW h \in Holders PROVE Fresh(h)'
      BY <1>1 DEF Fresh, Ahead, Handled
    <2>3. NotificationInv'
      BY <1>1 DEF NotificationInv, CancelBehind
    <2> QED BY <2>1, <2>2, <2>3
  <1>2. CASE onResume \/ onPause
    BY <1>1, <1>2 DEF onResume, onPause, keeperVars
  <1>3. ASSUME NEW h \in Holders, launchGame(h) PROVE HolderInv' /\ NotificationInv'
    BY <1>1, <1>3 DEF launchGame, Goto, keeperVars, launchVars, TypeOK
  <1>4. ASSUME NEW s \in Spinners, refreshAccount(s) PROVE HolderInv' /\ NotificationInv'
    BY <1>1, <1>4 DEF refreshAccount, Goto, keeperVars, launchVars, TypeOK
  <1>5. ASSUME NextMessage, \A h \in Holders : Kept(h)', \A h \in Holders : Fresh(h)' PROVE HolderInv'
    <2>1. ASSUME NEW h \in Holders PROVE (HoldsRecord(h) /\ WhenPosted(h) /\ AtLeastOnce(h))'
      BY <1>5 DEF NextMessage
    <2> QED BY <1>5, <2>1
  <1>6. CASE cancelNotification \/ skipNothing
    <2>1. /\ NextMessage /\ Head(looper) \notin Holders /\ UNCHANGED <<outcome, runs, records>>
          /\ \/ Head(looper) = Cancel /\ notification' = FALSE
             \/ UNCHANGED notification /\ Head(looper) # Cancel
      BY <1>6 DEF cancelNotification, skipNothing, launchVars, Cancel, NoMessage, NextMessage
    <2>2. \A h \in Holders : Kept(h)'
      BY <2>1, TakeMessage
    <2>3. NotificationInv'
      BY <2>1, TakeMessage DEF NotificationInv
    <2>4. ASSUME NEW h \in Holders PROVE Fresh(h)'
      <3>1. Ahead(h) => Ahead(h)'
        BY <2>1, FreshOfMessage
      <3>2. Handled(h) => Handled(h)'
        BY <2>1, TakeMessage DEF Handled
      <3> QED BY <2>1, <3>1, <3>2 DEF Fresh
    <2> QED BY <1>5, <2>1, <2>2, <2>3, <2>4
  <1>7. ASSUME NEW g \in Holders, execute(g) PROVE HolderInv' /\ NotificationInv'
    <2>1. /\ NextMessage /\ Head(looper) = g /\ g # Cancel /\ UNCHANGED <<runs, records>>
          /\ outcome'[g] # "none" /\ \A h \in Holders : h # g => outcome'[h] = outcome[h]
          /\ notification => notification'
          /\ \/ outcome'[g] \in {"started", "refused"}
             \/ outcome'[g] = "notified" /\ notification'
      BY <1>7 DEF execute, TypeOK, NextMessage
    <2>2. \A h \in Holders : Kept(h)'
      BY <2>1, TakeMessage
    <2>3. NotificationInv'
      BY <2>1, TakeMessage DEF NotificationInv
    <2>4. ASSUME NEW h \in Holders PROVE Fresh(h)'
      <3>0. Members(looper') \subseteq Members(looper)
        BY <2>1, TakeMessage
      <3>1. Ahead(h) => Ahead(h)' \/ Handled(h)'
        BY <2>1, FreshOfMessage DEF Handled
      <3>2. Handled(h) => Handled(h)'
        <4>1. Head(looper) \in Members(looper)
          BY <2>1, TakeMessage
        <4> QED BY <2>1, <3>0, <4>1 DEF Handled
      <3> QED BY <2>1, <3>1, <3>2 DEF Fresh
    <2> QED BY <1>5, <2>1, <2>2, <2>3, <2>4
  <1>8. ASSUME NEW s \in Spinners, waitUntilDone(s), UNCHANGED launchVars
        PROVE  HolderInv' /\ NotificationInv'
    <2>0. KeeperType /\ \A h \in Holders : pc'[h] = pc[h]
      BY <1>8, TypeOfKeeper DEF waitUntilDone, readCount, runAtOnce, updateListener, addListener,
         Goto, TypeOK
    <2>1. CASE UNCHANGED keeperVars
      BY <1>1, <1>8, <2>0, <2>1 DEF keeperVars, launchVars
    <2>2. CASE RunOwn(s)
      <3>1. ASSUME NEW h \in Holders
            PROVE  (HoldsRecord(h) /\ WhenPosted(h) /\ AtLeastOnce(h) /\ Kept(h))'
        BY <1>8, <2>0, <2>2, SpinnerEffect DEF launchVars
      <3>2. ASSUME NEW h \in Holders PROVE Fresh(h)'
        <4>1. h # s /\ HoldsRecord(h) /\ Fresh(h)
          OBVIOUS
        <4> QED BY <1>8, <2>2, <4>1, FreshOfRun DEF Fresh
      <3>3. NotificationInv'
        BY <1>8, <2>0, <2>2, SpinnerEffect DEF launchVars, NotificationInv, TypeOK
      <3> QED BY <3>1, <3>2, <3>3
    <2>3. CASE addListener(s)
      <3>1. listeners \in Seq(Callers) /\ s \in Callers /\ listeners' = Append(listeners, s)
        BY <2>3 DEF addListener, TypeOK
      <3>2. \A h \in Holders : h \in Members(listeners') <=> h \in Members(listeners)
        BY <3>1, MembersOfAppend
      <3>3. UNCHANGED <<records, runs, looper, notification, outcome>>
        BY <1>8, <2>3 DEF addListener, launchVars
      <3>4. ASSUME NEW h \in Holders
            PROVE  (HoldsRecord(h) /\ WhenPosted(h) /\ AtLeastOnce(h) /\ Kept(h))'
        BY <2>0, <3>2, <3>3
      <3>5. ASSUME NEW h \in Holders PROVE Fresh(h)'
        BY <3>3 DEF Fresh, Ahead, Handled
      <3>6. NotificationInv'
        BY <3>3 DEF NotificationInv, CancelBehind
      <3> QED BY <3>4, <3>5, <3>6
    <2> QED BY <1>8, <2>1, <2>2, <2>3 DEF waitUntilDone, readCount, runAtOnce, updateListener
  <1> QED BY <1>2, <1>3, <1>4, <1>6, <1>7, <1>8 DEF UiThread

LEMMA InvStep == IInv /\ [Next]_vars => IInv'
  <1> SUFFICES ASSUME IInv, [Next]_vars PROVE IInv'
    OBVIOUS
  <1>1. TypeOK'
    BY TypeStep DEF IInv
  <1>2. CASE Task /\ UNCHANGED launchVars /\ History
    BY <1>1, <1>2, HolderOfTask, FreshOfTask, NotificationOfTask DEF IInv, HolderInv
  <1>3. CASE UiThread /\ History
    BY <1>1, <1>3, InvOfUiThread DEF IInv
  <1>4. CASE UNCHANGED vars
    BY <1>1, <1>4 DEF vars, keeperVars, launchVars, historyVars, IInv, HolderInv, HoldsRecord,
       WhenPosted, AtLeastOnce, NotYet, Waits, Posted, Kept, Fresh, Ahead, Handled,
       NotificationInv, CancelBehind
  <1> QED BY <1>2, <1>3, <1>4 DEF Next

\* The inductive invariant: a download whose record no other one closed holds
\* it until its listener is in the list, what it posted is executed or still
\* queued with no Cancel behind it, and behind the last result in the queue
\* there is a Cancel while tasks go on.
THEOREM LaunchInvariant == Spec => []IInv
  <1>1. Init => IInv
    BY TypeInit, InvInit DEF IInv
  <1> QED BY <1>1, InvStep, PTL DEF Spec

(***************************************************************************)
(* What follows from it.                                                   *)
(***************************************************************************)

\* updateTaskCount and waitUntilDone: the result of a game download is posted
\* when all is over, however tasks, logins, other downloads and waiting
\* runnables are interleaved, and once if no other download closed its record.
THEOREM RunsOnce == Spec => []HoldersRunOnce
  <1>1. IInv => HoldersRunOnce
    <2> SUFFICES ASSUME IInv, NEW h \in Holders
                 PROVE  /\ pc[h] = "over" /\ records = {} => runs[h] >= 1
                        /\ h \notin disturbed => runs[h] <= 1
      BY DEF HoldersRunOnce
    <2>1. WhenPosted(h) /\ AtLeastOnce(h) /\ runs[h] \in Nat
      BY DEF IInv, HolderInv, TypeOK, Callers
    <2>2. h \notin disturbed => runs[h] = 0 \/ runs[h] = 1
      BY <2>1 DEF WhenPosted, NotYet, Waits, Posted
    <2> QED BY <2>1, <2>2 DEF AtLeastOnce
  <1> QED BY <1>1, LaunchInvariant, PTL

\* ContextAwareDoneListener with ContextExecutor: what was posted is executed,
\* and leaves the game started, an error shown, or a notification that starts
\* the game and stays until a task is opened.
THEOREM NothingForgotten == Spec => []ResultNotForgotten
  <1>1. IInv => ResultNotForgotten
    <2> SUFFICES ASSUME IInv, NEW h \in Holders \ disturbed,
                        pc[h] = "over", records = {}, looper = <<>>
                 PROVE  \/ outcome[h] \in {"started", "refused"}
                        \/ outcome[h] = "notified" /\ (notification \/ h \in superseded)
      BY DEF ResultNotForgotten
    <2>1. runs[h] = 1
      BY DEF IInv, HolderInv, WhenPosted, Posted
    <2>2. h \notin Members(looper) /\ ~Ahead(h)
      BY DEF Members, Ahead
    <2>3. outcome[h] \in {"started", "refused", "notified"}
      BY <2>1, <2>2 DEF IInv, HolderInv, Kept, TypeOK
    <2>4. h \in superseded \/ Handled(h)
      BY <2>1, <2>2 DEF IInv, HolderInv, Fresh
    <2> QED BY <2>3, <2>4 DEF Handled
  <1> QED BY <1>1, LaunchInvariant, PTL

\* mDoubleLaunchPreventionListener: a notification shown while tasks go on has
\* its removal queued.
THEOREM NotificationGoes == Spec => []NotificationHidden
  <1>1. IInv => NotificationHidden
    <2>1. TypeOK /\ CancelBehind => Cancel \in Members(looper)
      BY DEF CancelBehind, Members, TypeOK
    <2> QED BY <2>1 DEF IInv, NotificationInv, NotificationHidden
  <1> QED BY <1>1, LaunchInvariant, PTL

\* waitUntilDone: a step that posts the result of a download whose record no
\* other one closed leaves no record but that of a login begun in the same step.
THEOREM RunsAfterTasks == Spec => HoldersRunAfterTasks
  <1>1. ASSUME IInv, Next, NEW h \in Holders \ disturbed, runs'[h] # runs[h]
        PROVE  records' \subseteq {LoginKey}
    <2> USE GameLaunchAssumption, TypeOfKeeper DEF IInv, Callers
    <2>1. ASSUME NEW key \in Keys, NEW going \in [Spinners -> Nat], closeRecord(key, going)
          PROVE  records' \subseteq {LoginKey}
      BY <1>1, <2>1, CloseEffect
    <2>2. ASSUME NEW c \in Callers, waitUntilDone(c) PROVE runs'[h] = runs[h]
      <3>1. ASSUME RunOwn(c), runAtOnce(c) \/ (updateListener(c) /\ records = {})
            PROVE  runs'[h] = runs[h]
        <4>1. HoldsRecord(h) /\ KeeperType
          BY <1>1 DEF HolderInv
        <4>2. c # h
          BY <3>1, <4>1 DEF HoldsRecord, runAtOnce, updateListener, InDownload
        <4> QED BY <3>1, <4>1, <4>2, OwnEffect
      <3> QED BY <2>2, <3>1 DEF waitUntilDone, readCount, runAtOnce, updateListener, addListener,
                 keeperVars
    <2>3. CASE Task
      <3>1. ASSUME NEW s \in Spinners, loginEnds(s) PROVE records' \subseteq {LoginKey}
        <4>1. [logins EXCEPT ![s] = @ - 1] \in [Spinners -> Nat]
          BY <1>1, <3>1 DEF loginEnds, TypeOK
        <4> QED BY <2>1, <3>1, <4>1 DEF loginEnds
      <3>2. ASSUME NEW w \in Workers, workerEnds(w) PROVE records' \subseteq {LoginKey}
        BY <1>1, <2>1, <3>2 DEF workerEnds, TypeOK
      <3>3. ASSUME NEW c \in Holders, holderEnds(c) PROVE records' \subseteq {LoginKey}
        BY <1>1, <2>1, <3>3 DEF holderEnds, TypeOK
      <3> QED BY <1>1, <2>2, <2>3, <3>1, <3>2, <3>3 DEF Task, workerStarts, workerReports,
                 loginReports, holderStarts, holderReports, holderFails, openRecord, keeperVars
    <2>4. CASE UiThread
      BY <1>1, <2>2, <2>4 DEF UiThread, onResume, onPause, cancelNotification, skipNothing,
         launchGame, execute, refreshAccount, NextMessage, keeperVars
    <2> QED BY <1>1, <2>3, <2>4 DEF Next
  <1>2. IInv /\ [Next]_vars =>
          [\A h \in Holders \ disturbed : runs'[h] # runs[h] => records' \subseteq {LoginKey}]_vars
    BY <1>1
  <1> QED BY <1>2, LaunchInvariant, PTL DEF Spec, HoldersRunAfterTasks
=============================================================================
