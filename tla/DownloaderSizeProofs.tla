------------------------ MODULE DownloaderSizeProofs ------------------------
(***************************************************************************)
(* Proofs about mDownloadedSizeCounter, which is a sum over the entries:   *)
(* it is exact, and it ends at the total that was announced.               *)
(*                                                                         *)
(* The sums come first: what MapThenSumSet returns over a finite set, by   *)
(* induction on sets of natural numbers.                                   *)
(***************************************************************************)
EXTENDS DownloaderFilesProofs, WellFoundedInduction

-----------------------------------------------------------------------------
(* Induction.                                                              *)

\* A set of natural numbers has a least one.
LEMMA LeastNat ==
  ASSUME NEW T, T \subseteq Nat, T # {}
  PROVE  \E n \in T : \A m \in T : ~(m < n)
  <1> DEFINE R == {ss \in Nat \X Nat : ss[1] < ss[2]}
  <1>1. OpToRel(<, Nat) = R
    BY Zenon DEF OpToRel
  <1>2. IsWellFoundedOn(OpToRel(<, Nat), Nat)
    BY Zenon, NatLessThanWellFounded
  <1>3. IsWellFoundedOn(R, Nat)
    BY Zenon, <1>1, <1>2
  <1>4. PICK n \in T : \A m \in T : <<m, n>> \notin R
    <2> HIDE DEF R
    <2> QED BY <1>3, WFMin
  <1>5. ASSUME NEW m \in T, m < n PROVE FALSE
    <2>1. <<m, n>> \in Nat \X Nat /\ <<m, n>>[1] < <<m, n>>[2]
      BY <1>5
    <2>2. <<m, n>> \in R
      BY <2>1, Zenon
    <2> QED BY <1>4, <2>2
  <1> QED BY <1>5

LEMMA Induction ==
  ASSUME NEW P \in SUBSET Nat, 0 \in P, \A n \in P : n + 1 \in P
  PROVE  P = Nat
  <1> SUFFICES ASSUME Nat \ P # {} PROVE FALSE
    OBVIOUS
  <1>1. PICK n \in Nat \ P : \A m \in Nat \ P : ~(m < n)
    BY LeastNat
  <1>2. n - 1 \in Nat /\ n - 1 < n /\ n - 1 \notin P
    BY <1>1
  <1> QED BY <1>1, <1>2

-----------------------------------------------------------------------------
(* Sums.                                                                   *)

\* g is what the recursion of MapThenSumSet computes for the sets in S.
Chosen(s) == CHOOSE x \in s : TRUE
SumUp(F, S, g) ==
    g = [s \in S |-> IF s = {} THEN 0 ELSE F[Chosen(s)] + g[s \ {Chosen(s)}]]

LEMMA OneLess ==
  ASSUME NEW E, IsFiniteSet(E), NEW s \in SUBSET E, NEW x \in s
  PROVE  /\ s \ {x} \in SUBSET E /\ IsFiniteSet(s)
         /\ Cardinality(s) \in Nat /\ Cardinality(s) >= 1
         /\ Cardinality(s \ {x}) = Cardinality(s) - 1
  <1>1. IsFiniteSet(s)
    BY FS_Subset
  <1>2. Cardinality(s) \in Nat /\ Cardinality(s \ {x}) = Cardinality(s) - 1
    BY <1>1, FS_RemoveElement, FS_CardinalityType
  <1>3. Cardinality(s) # 0
    BY <1>1, FS_EmptySet
  <1> QED BY <1>1, <1>2, <1>3

\* It exists, though it is defined by recursion: level by level.
LEMMA SumExists ==
  ASSUME NEW E, IsFiniteSet(E), NEW F
  PROVE  \E g : SumUp(F, SUBSET E, g)
  <1> DEFINE Sub(n) == {s \in SUBSET E : Cardinality(s) <= n}
             P == {n \in Nat : \E g : SumUp(F, Sub(n), g)}
  <1>0. \A s \in SUBSET E : IsFiniteSet(s) /\ Cardinality(s) \in Nat
    BY FS_Subset, FS_CardinalityType
  <1>1. 0 \in P
    <2>1. Sub(0) = {{}}
      BY <1>0, FS_EmptySet
    <2> DEFINE g == [s \in Sub(0) |-> 0]
    <2>2. SumUp(F, Sub(0), g)
      BY <2>1 DEF SumUp
    <2> HIDE DEF g
    <2> QED BY <2>2
  <1>2. ASSUME NEW n \in P PROVE n + 1 \in P
    <2>1. PICK f : SumUp(F, Sub(n), f)
      OBVIOUS
    <2> DEFINE g == [s \in Sub(n + 1) |->
                       IF s = {} THEN 0 ELSE F[Chosen(s)] + f[s \ {Chosen(s)}]]
    <2>2. ASSUME NEW s \in Sub(n + 1), s # {}
          PROVE  g[s \ {Chosen(s)}] = f[s \ {Chosen(s)}]
      <3>1. Chosen(s) \in s
        BY <2>2 DEF Chosen
      <3>2. s \ {Chosen(s)} \in Sub(n)
        BY <3>1, OneLess
      <3>3. Sub(n) \subseteq Sub(n + 1)
        BY <1>0
      <3> QED BY <2>1, <3>2, <3>3 DEF SumUp
    <2>3. SumUp(F, Sub(n + 1), g)
      BY <2>2, Zenon DEF SumUp
    <2> HIDE DEF g
    <2> QED BY <2>3
  <1>3. P = Nat
    <2> HIDE DEF P
    <2>1. P \in SUBSET Nat
      BY DEF P
    <2> QED BY <1>1, <1>2, <2>1, Induction
  <1>4. Cardinality(E) \in P
    BY <1>3, <1>0
  <1>5. Sub(Cardinality(E)) = SUBSET E
    BY FS_Subset
  <1> QED BY <1>4, <1>5

\* Sums of integers are integers.
LEMMA SumTypes ==
  ASSUME NEW E, IsFiniteSet(E), NEW F \in [E -> Int], NEW g, SumUp(F, SUBSET E, g),
         NEW s \in SUBSET E
  PROVE  g[s] \in Int
  <1> DEFINE P == {n \in Nat : \A t \in SUBSET E : Cardinality(t) = n => g[t] \in Int}
  <1>1. \A t \in SUBSET E : IsFiniteSet(t) /\ Cardinality(t) \in Nat
    BY FS_Subset, FS_CardinalityType
  <1>2. g[{}] = 0
    BY DEF SumUp
  <1>3. 0 \in P
    <2>1. \A t \in SUBSET E : Cardinality(t) = 0 => t = {}
      BY <1>1, FS_EmptySet
    <2> QED BY <1>2, <2>1
  <1>4. ASSUME NEW n \in P PROVE n + 1 \in P
    <2>1. n \in Nat /\ \A t \in SUBSET E : Cardinality(t) = n => g[t] \in Int
      OBVIOUS
    <2> HIDE DEF P
    <2> SUFFICES ASSUME NEW t \in SUBSET E, Cardinality(t) = n + 1 PROVE g[t] \in Int
      BY <2>1 DEF P
    <2>2. t # {}
      BY <2>1, FS_EmptySet
    <2>3. Chosen(t) \in t
      BY <2>2 DEF Chosen
    <2>4. g[t] = F[Chosen(t)] + g[t \ {Chosen(t)}]
      BY <2>2, Zenon DEF SumUp
    <2>5. F[Chosen(t)] \in Int /\ g[t \ {Chosen(t)}] \in Int
      BY <2>1, <2>3, OneLess
    <2> QED BY <2>4, <2>5
  <1>5. P = Nat
    <2> HIDE DEF P
    <2>1. P \in SUBSET Nat
      BY DEF P
    <2> QED BY <1>3, <1>4, <2>1, Induction
  <1> QED BY <1>1, <1>5

\* Any element may be taken out first, not only the one that CHOOSE picks.
LEMMA TakeOut ==
  ASSUME NEW E, IsFiniteSet(E), NEW F \in [E -> Int], NEW g, SumUp(F, SUBSET E, g),
         NEW s \in SUBSET E, NEW y \in s
  PROVE  g[s] = F[y] + g[s \ {y}]
  <1> DEFINE Good(t) == \A x \in t : g[t] = F[x] + g[t \ {x}]
             P == {n \in Nat : \A t \in SUBSET E : Cardinality(t) = n => Good(t)}
  <1>1. \A t \in SUBSET E : IsFiniteSet(t) /\ Cardinality(t) \in Nat /\ g[t] \in Int
    BY FS_Subset, FS_CardinalityType, SumTypes
  <1>2. 0 \in P
    <2>1. \A t \in SUBSET E : Cardinality(t) = 0 => t = {}
      BY <1>1, FS_EmptySet
    <2> QED BY <2>1
  <1>3. ASSUME NEW n \in P, NEW t \in SUBSET E, Cardinality(t) = n + 1, NEW x \in t
        PROVE  g[t] = F[x] + g[t \ {x}]
    <2> DEFINE c == Chosen(t)
    <2>1. c \in t /\ t # {}
      BY DEF Chosen
    <2>2. g[t] = F[c] + g[t \ {c}]
      BY <2>1, Zenon DEF SumUp
    <2>3. t \ {c} \in SUBSET E /\ t \ {x} \in SUBSET E /\ Good(t \ {x}) /\ Good(t \ {c})
      BY <1>3, <2>1, OneLess
    <2> HIDE DEF c
    <2>4. CASE x = c
      BY <2>2, <2>4
    <2>5. CASE x # c
      <3>1. c \in t \ {x} /\ x \in t \ {c} /\ (t \ {c}) \ {x} = (t \ {x}) \ {c}
        BY <2>1, <2>5
      <3>2. g[t \ {c}] = F[x] + g[(t \ {x}) \ {c}]
        BY <2>3, <3>1
      <3>3. g[t \ {x}] = F[c] + g[(t \ {x}) \ {c}]
        BY <2>3, <3>1
      <3>4. F[x] \in Int /\ F[c] \in Int /\ g[(t \ {x}) \ {c}] \in Int
        BY <1>1, <2>1, <2>3
      <3> QED BY <2>2, <3>2, <3>3, <3>4
    <2> QED BY <2>4, <2>5
  <1>4. ASSUME NEW n \in P PROVE n + 1 \in P
    BY <1>3
  <1>5. P = Nat
    <2> HIDE DEF P
    <2>1. P \in SUBSET Nat
      BY DEF P
    <2> QED BY <1>2, <1>4, <2>1, Induction
  <1> QED BY <1>1, <1>5

\* Two functions that agree on a set have the same sum over it.
LEMMA SameSum ==
  ASSUME NEW E, IsFiniteSet(E), NEW F \in [E -> Int], NEW G \in [E -> Int],
         NEW g, SumUp(F, SUBSET E, g), NEW h, SumUp(G, SUBSET E, h),
         NEW s \in SUBSET E, \A x \in s : F[x] = G[x]
  PROVE  g[s] = h[s]
  <1> DEFINE Same(t) == (\A x \in t : F[x] = G[x]) => g[t] = h[t]
             P == {n \in Nat : \A t \in SUBSET E : Cardinality(t) = n => Same(t)}
  <1>1. \A t \in SUBSET E : IsFiniteSet(t) /\ Cardinality(t) \in Nat
    BY FS_Subset, FS_CardinalityType
  <1>2. 0 \in P
    <2>1. \A t \in SUBSET E : Cardinality(t) = 0 => t = {}
      BY <1>1, FS_EmptySet
    <2>2. g[{}] = h[{}]
      BY DEF SumUp
    <2> QED BY <2>1, <2>2
  <1>3. ASSUME NEW n \in P, NEW t \in SUBSET E, Cardinality(t) = n + 1,
               \A x \in t : F[x] = G[x]
        PROVE  g[t] = h[t]
    <2>0. t # {}
      <3>1. Cardinality(t) # 0
        BY <1>3
      <3> QED BY <3>1, FS_EmptySet
    <2>1. PICK x \in t : TRUE
      BY <2>0
    <2>2. t \ {x} \in SUBSET E /\ Same(t \ {x})
      BY <1>3, <2>1, OneLess
    <2>3. g[t] = F[x] + g[t \ {x}]
      BY TakeOut
    <2>4. h[t] = G[x] + h[t \ {x}]
      BY TakeOut
    <2> QED BY <1>3, <2>2, <2>3, <2>4
  <1>4. ASSUME NEW n \in P PROVE n + 1 \in P
    BY <1>3
  <1>5. P = Nat
    <2> HIDE DEF P
    <2>1. P \in SUBSET Nat
      BY DEF P
    <2> QED BY <1>2, <1>4, <2>1, Induction
  <1> QED BY <1>1, <1>5

\* The sum changes by as much as its one changed term.
LEMMA OneTermChanges ==
  ASSUME NEW E, IsFiniteSet(E), NEW F \in [E -> Int], NEW G \in [E -> Int],
         NEW g, SumUp(F, SUBSET E, g), NEW h, SumUp(G, SUBSET E, h),
         NEW y \in E, \A x \in E \ {y} : F[x] = G[x]
  PROVE  h[E] = g[E] + (G[y] - F[y])
  <1>1. ASSUME NEW s \in SUBSET E, NEW x \in s PROVE g[s] = F[x] + g[s \ {x}]
    BY TakeOut
  <1>2. ASSUME NEW s \in SUBSET E, NEW x \in s PROVE h[s] = G[x] + h[s \ {x}]
    BY TakeOut
  <1>3. g[E] = F[y] + g[E \ {y}] /\ h[E] = G[y] + h[E \ {y}]
    BY <1>1, <1>2
  <1>4. g[E \ {y}] = h[E \ {y}]
    BY SameSum
  <1>5. g[E \ {y}] \in Int /\ F[y] \in Int /\ G[y] \in Int
    BY SumTypes
  <1> QED BY <1>3, <1>4, <1>5

\* A sum of zeros is zero.
LEMMA SumOfZeros ==
  ASSUME NEW E, IsFiniteSet(E), NEW F \in [E -> Int], \A x \in E : F[x] = 0,
         NEW g, SumUp(F, SUBSET E, g)
  PROVE  g[E] = 0
  <1> DEFINE h == [s \in SUBSET E |-> 0]
  <1>1. SumUp(F, SUBSET E, h)
    <2>1. ASSUME NEW s \in SUBSET E, s # {}
          PROVE  0 = F[Chosen(s)] + h[s \ {Chosen(s)}]
      <3>1. Chosen(s) \in s
        BY <2>1 DEF Chosen
      <3>2. F[Chosen(s)] = 0 /\ h[s \ {Chosen(s)}] = 0
        BY <3>1
      <3> QED BY <3>2
    <2> QED BY <2>1, Zenon DEF SumUp
  <1>2. g[E] = h[E]
    <2> HIDE DEF h
    <2>1. E \in SUBSET E
      OBVIOUS
    <2> QED BY <1>1, <2>1, SameSum
  <1> QED BY <1>2

-----------------------------------------------------------------------------
(***************************************************************************)
(* The size counter.  A task that has not begun to download has counted    *)
(* nothing, so its bytes can be forgotten and counted again.               *)
(***************************************************************************)
BeforeDownload ==
    MetadataWork \cup {"unsubmitted", "metaQueued", "metaDone", "checkQueued", "checking",
                       "comparing", "downloadQueued"}

BytesInv(d, e) ==
    /\ runner[d] = "idle" => task[d][e] = "unsubmitted" /\ meta[d][e] = InitialMetadata(e)
    /\ runner[d] \in {"idle", "inserting"} \/ task[d][e] \in BeforeDownload =>
          transfer[d][e].bytes = 0

Counts(d) == [e \in Elements |-> Counted(d, e)]
Total(d) == MapThenSumSet(LAMBDA e : Counted(d, e), Elements)

SizeInv ==
    /\ \A d \in Downloaders, e \in Elements : BytesInv(d, e)
    /\ \A d \in Downloaders : runner[d] # "killed" => sizeCounter[d] = Total(d)

LEMMA CountedTyped ==
  ASSUME TypeOK, NEW d \in Downloaders, NEW e \in Elements
  PROVE  Counted(d, e) \in Int
  <1>1. meta[d][e].size \in Int /\ transfer[d][e].bytes \in Int
    BY DEF TypeOK, Metadata, Transfer
  <1> QED BY <1>1 DEF Counted

\* The sum of the property is one of the sums above.
TotalIsSum ==
    \A d \in Downloaders : \E g : SumUp(Counts(d), SUBSET Elements, g) /\ Total(d) = g[Elements]

LEMMA TotalSums == TotalIsSum
  <1> SUFFICES ASSUME NEW d \in Downloaders
               PROVE  \E g : SumUp(Counts(d), SUBSET Elements, g) /\ Total(d) = g[Elements]
    BY DEF TotalIsSum
  <1> DEFINE Step(h) == [s \in SUBSET Elements |->
                           IF s = {} THEN 0 ELSE Counted(d, Chosen(s)) + h[s \ {Chosen(s)}]]
             g == CHOOSE h : h = Step(h)
  <1>1. ASSUME NEW h PROVE h = Step(h) <=> SumUp(Counts(d), SUBSET Elements, h)
    <2>1. ASSUME NEW s \in SUBSET Elements, s # {}
          PROVE  Counts(d)[Chosen(s)] = Counted(d, Chosen(s))
      <3>1. Chosen(s) \in Elements
        BY <2>1 DEF Chosen
      <3> QED BY <3>1 DEF Counts
    <2> QED BY <2>1, Zenon DEF SumUp
  <1>2. \E h : h = Step(h)
    <2>1. PICK h : SumUp(Counts(d), SUBSET Elements, h)
      BY SumExists, DownloaderAssumption
    <2> QED BY <1>1, <2>1
  <1>3. g = Step(g)
    <2> HIDE DEF Step
    <2> QED BY <1>2
  <1>4. Total(d) = g[Elements]
    BY Zenon DEF Total, Chosen, MapThenSumSet, MapThenFoldSet
  <1> HIDE DEF g
  <1> QED BY <1>1, <1>3, <1>4

LEMMA TotalSumsNext == TotalIsSum'
  BY TotalSums, PTL

-----------------------------------------------------------------------------
(* The pool threads.                                                       *)

Adds(d, n) == sizeCounter' = [sizeCounter EXCEPT ![d] = @ + n]

LEMMA AddsNothing ==
  ASSUME TypeOK, NEW d \in Downloaders, UNCHANGED sizeCounter
  PROVE  Adds(d, 0)
  BY DEF TypeOK, Adds

\* A thread that leaves the bytes of its task alone, and the task out of
\* "present" and "trying", leaves what the entry contributed.
LEMMA CountedSame ==
  ASSUME TypeOK, NEW d \in Downloaders, NEW e \in Elements,
         task[d][e] \notin {"present", "trying"}, task'[d][e] \notin {"present", "trying"},
         transfer'[d][e].bytes = transfer[d][e].bytes, UNCHANGED sizeCounter
  PROVE  Adds(d, Counted(d, e)' - Counted(d, e))
  <1>1. Counted(d, e)' = transfer'[d][e].bytes /\ Counted(d, e) = transfer[d][e].bytes
    BY DEF Counted
  <1>2. Counted(d, e)' - Counted(d, e) = 0
    BY <1>1, CountedTyped
  <1> QED BY <1>2, AddsNothing

\* Before a download: a file that is found is counted with its size.
LEMMA CheckerCounts ==
  ASSUME TypeOK, NEW d \in Downloaders, NEW e \in Elements, BytesInv(d, e), runner[d] # "idle",
         \/ takeTask(d, e) \/ acquireMetadata(d, e) \/ getFileSize(d, e)
         \/ getLibrarySha1Hash(d, e) \/ checkFileOnDisk(d, e) \/ recheckFileOnDisk(d, e)
  PROVE  Adds(d, Counted(d, e)' - Counted(d, e)) /\ BytesInv(d, e)'
  <1>1. transfer' = transfer /\ runner' = runner
    BY DEF takeTask, TakeTask, acquireMetadata, getFileSize, getLibrarySha1Hash,
           checkFileOnDisk, recheckFileOnDisk
  <1>2. ASSUME NEW stage, MoveTo(d, e, stage) PROVE task'[d][e] = stage
    BY <1>2 DEF MoveTo, TypeOK
  <1>3. task'[d][e] \in BeforeDownload => task[d][e] \in BeforeDownload
    BY <1>2 DEF takeTask, TakeTask, acquireMetadata, getFileSize, getLibrarySha1Hash,
                checkFileOnDisk, recheckFileOnDisk, FirstVerdict, RecheckVerdict, Fails, BeforeDownload, MetadataWork
  <1>4. BytesInv(d, e)'
    BY <1>1, <1>3 DEF BytesInv
  <1>5. transfer[d][e].bytes \in Int /\ meta[d][e].size \in Int
    BY DEF TypeOK, Metadata, Transfer
  <1>6. CASE task'[d][e] = "trying"
    <2>1. task[d][e] = "downloadQueued" /\ UNCHANGED sizeCounter
      BY <1>2, <1>6 DEF takeTask, TakeTask, acquireMetadata, getFileSize, getLibrarySha1Hash,
                checkFileOnDisk, recheckFileOnDisk, FirstVerdict, RecheckVerdict, Fails, objectVars
    <2>2. Counted(d, e) = 0 /\ Counted(d, e)' = 0
      BY <1>6, <2>1 DEF Counted, BytesInv, BeforeDownload
    <2> QED BY <1>4, <2>1, <2>2, AddsNothing
  <1>7. CASE task'[d][e] = "present"
    <2>1. task[d][e] \in {"checking", "comparing"} /\ addSize(d, meta[d][e].size) /\ meta' = meta
      BY <1>2, <1>7 DEF takeTask, TakeTask, acquireMetadata, getFileSize, getLibrarySha1Hash,
                checkFileOnDisk, recheckFileOnDisk, FirstVerdict, RecheckVerdict, Fails
    <2>2. Counted(d, e) = 0 /\ Counted(d, e)' = meta[d][e].size
      BY <1>7, <2>1 DEF Counted, BytesInv, BeforeDownload
    <2>3. Counted(d, e)' - Counted(d, e) = meta[d][e].size
      BY <1>5, <2>2
    <2> QED BY <1>4, <2>1, <2>3 DEF Adds, addSize
  <1>8. CASE task'[d][e] \notin {"trying", "present"}
    <2>1. task[d][e] \notin {"present", "trying"} /\ UNCHANGED sizeCounter
      BY <1>2, <1>8 DEF takeTask, TakeTask, acquireMetadata, getFileSize, getLibrarySha1Hash,
                checkFileOnDisk, recheckFileOnDisk, FirstVerdict, RecheckVerdict, Fails, objectVars
    <2> QED BY <1>1, <1>4, <1>8, <2>1, CountedSame
  <1> QED BY <1>6, <1>7, <1>8

\* An attempt that fails takes back what it had counted.
LEMMA RetryCounts ==
  ASSUME TypeOK, NEW d \in Downloaders, NEW e \in Elements,
         task[d][e] \notin {"present", "trying"},
         NEW attempt, NEW ranged, NEW resume, performRetry(d, e, attempt, ranged, resume)
  PROVE  Adds(d, Counted(d, e)' - Counted(d, e)) /\ task'[d][e] = "trying"
  <1>1. task'[d][e] = "trying" /\ addSize(d, -transfer[d][e].bytes)
    BY DEF performRetry, TryAgain, MoveTo, TypeOK
  <1>2. Counted(d, e)' = 0 /\ Counted(d, e) = transfer[d][e].bytes
    BY <1>1 DEF Counted
  <1>3. transfer[d][e].bytes \in Int
    BY DEF TypeOK, Transfer
  <1>4. Counted(d, e)' - Counted(d, e) = -transfer[d][e].bytes
    BY <1>2, <1>3
  <1> QED BY <1>1, <1>4 DEF Adds, addSize

\* A download counts what it finds of the file and every chunk it writes.
LEMMA DownloaderCounts ==
  ASSUME TypeOK, NEW d \in Downloaders, NEW e \in Elements, BytesInv(d, e),
         runner[d] \notin {"idle", "inserting"},
         \/ startFile(d, e) \/ openFile(d, e) \/ continueFile(d, e) \/ rangeAnswered(d, e)
         \/ copyChunk(d, e) \/ endOfBody(d, e) \/ transferFails(d, e)
  PROVE  Adds(d, Counted(d, e)' - Counted(d, e)) /\ BytesInv(d, e)'
  <1> DEFINE t == transfer[d][e]
  <1>1. t \in Transfer /\ t.bytes \in Nat /\ t.bytes \in Int
    BY DEF TypeOK, Transfer
  <1>2. ASSUME NEW stage, MoveTo(d, e, stage) PROVE task'[d][e] = stage
    BY <1>2 DEF MoveTo, TypeOK
  <1>3. task'[d][e] \notin BeforeDownload
    <2>1. CASE copyChunk(d, e)
      BY <2>1 DEF copyChunk, BeforeDownload, MetadataWork
    <2>2. CASE ~copyChunk(d, e)
      BY <1>2, <2>2 DEF startFile, openFile, continueFile, rangeAnswered, endOfBody, transferFails,
            onIOException, performRetry, TryAgain, Fails, submitFileForRecheck,
            BeforeDownload, MetadataWork
    <2> QED BY <2>1, <2>2
  <1>4. BytesInv(d, e)'
    <2>1. runner' = runner
      BY DEF startFile, openFile, continueFile, rangeAnswered, copyChunk, endOfBody, transferFails
    <2> QED BY <1>3, <2>1 DEF BytesInv
  <1>5. CASE startFile(d, e)
    <2>1. t.bytes \in Int /\ transfer'[d][e] = [t EXCEPT !.bytes = 0, !.pos = 1, !.append = FALSE]
      BY <1>1, <1>5 DEF startFile, TypeOK
    <2>2. transfer'[d][e].bytes = 0
      BY <1>1, <2>1 DEF Transfer
    <2>3. task[d][e] = "trying" /\ task'[d][e] = "opening" /\ UNCHANGED sizeCounter
      BY <1>2, <1>5 DEF startFile, objectVars
    <2>4. Counted(d, e) = 0 /\ Counted(d, e)' = 0
      BY <2>2, <2>3 DEF Counted
    <2> QED BY <1>4, <2>3, <2>4, AddsNothing
  <1>11. CASE openFile(d, e)
    <2>1. /\ task[d][e] = "opening" /\ task'[d][e] \in {"copying", "crashed"}
          /\ UNCHANGED <<sizeCounter, transfer>>
      BY <1>2, <1>11 DEF openFile, objectVars
    <2> QED BY <1>4, <2>1, CountedSame
  <1>6. CASE continueFile(d, e)
    <2> DEFINE length == LengthOf(FileOf(e))
    <2>1. transfer'[d][e] = [t EXCEPT !.bytes = length]
      BY <1>1, <1>6 DEF continueFile, TypeOK
    <2>2. transfer'[d][e].bytes = length
      BY <1>1, <2>1 DEF Transfer
    <2>3. task[d][e] = "trying" /\ task'[d][e] \in {"connecting", "crashed"} /\ addSize(d, length)
      BY <1>2, <1>6 DEF continueFile
    <2>4. length \in Int
      BY DEF TypeOK, Paths, FileOf, File, LengthOf
    <2> HIDE DEF length
    <2>5. Counted(d, e) = 0 /\ Counted(d, e)' = length
      BY <2>2, <2>3 DEF Counted
    <2>6. Counted(d, e)' - Counted(d, e) = length
      BY <2>4, <2>5
    <2> QED BY <1>4, <2>3, <2>6 DEF Adds, addSize
  <1>7. CASE rangeAnswered(d, e)
    <2>1. task[d][e] = "connecting"
      BY <1>7 DEF rangeAnswered
    <2>2. CASE performRetry(d, e, t.attempt, FALSE, t.attempt)
      BY <1>4, <2>1, <2>2, RetryCounts
    <2>3. CASE ~performRetry(d, e, t.attempt, FALSE, t.attempt)
      <3>1. transfer' = [transfer EXCEPT ![d][e] = [t EXCEPT !.pos = LengthOf(FileOf(e)) + 1, !.append = TRUE]]
        BY <1>7, <2>3 DEF rangeAnswered
      <3>2. transfer'[d][e] = [t EXCEPT !.pos = LengthOf(FileOf(e)) + 1, !.append = TRUE]
        BY <3>1 DEF TypeOK
      <3>3. transfer'[d][e].bytes = t.bytes
        BY <1>1, <3>2 DEF Transfer
      <3>4. task'[d][e] = "copying" /\ UNCHANGED sizeCounter
        BY <1>2, <1>7, <2>3 DEF rangeAnswered
      <3> QED BY <1>4, <2>1, <3>3, <3>4, CountedSame
    <2> QED BY <2>2, <2>3
  <1>8. CASE copyChunk(d, e)
    <2>1. transfer'[d][e] = [t EXCEPT !.pos = t.pos + 1, !.bytes = t.bytes + 1]
      BY <1>1, <1>8 DEF copyChunk, TypeOK
    <2>2. transfer'[d][e].bytes = t.bytes + 1
      BY <1>1, <2>1 DEF Transfer
    <2>3. task[d][e] = "copying" /\ task'[d][e] = "copying" /\ addSize(d, 1)
      BY <1>8 DEF copyChunk
    <2>4. Counted(d, e) = t.bytes /\ Counted(d, e)' = t.bytes + 1
      BY <2>2, <2>3 DEF Counted
    <2>5. Counted(d, e)' - Counted(d, e) = 1
      BY <1>1, <2>4
    <2> QED BY <1>4, <2>3, <2>5 DEF Adds, addSize
  <1>9. CASE endOfBody(d, e)
    <2>1. /\ task[d][e] = "copying" /\ task'[d][e] = "recheckQueued"
          /\ UNCHANGED <<sizeCounter, transfer>>
      BY <1>2, <1>9 DEF endOfBody, submitFileForRecheck
    <2> QED BY <1>4, <2>1, CountedSame
  <1>10. CASE transferFails(d, e)
    <2>1. task[d][e] \notin {"present", "trying"}
      BY <1>10 DEF transferFails
    <2>2. CASE \E attempt, ranged, resume : performRetry(d, e, attempt, ranged, resume)
      BY <1>4, <2>1, <2>2, RetryCounts
    <2>3. CASE ~\E attempt, ranged, resume : performRetry(d, e, attempt, ranged, resume)
      <3>1. task'[d][e] \in {"failed", "crashed"} /\ UNCHANGED <<sizeCounter, transfer>>
        BY <1>2, <1>10, <2>3 DEF transferFails, onIOException, Fails
      <3> QED BY <1>4, <2>1, <3>1, CountedSame
    <2> QED BY <2>2, <2>3
  <1> QED BY <1>5, <1>6, <1>7, <1>8, <1>9, <1>10, <1>11

-----------------------------------------------------------------------------
(* The sums before and after a step.                                       *)

CountsTyped == TypeOK => \A d \in Downloaders : Counts(d) \in [Elements -> Int]

LEMMA CountsAreInts == CountsTyped
  BY CountedTyped DEF CountsTyped, Counts

LEMMA CountsAreIntsNext == CountsTyped'
  BY CountsAreInts, PTL

\* One entry's contribution changes.
LEMMA TotalChanges ==
  ASSUME TypeOK, TypeOK', NEW d \in Downloaders, NEW e \in Elements,
         \A f \in Elements \ {e} : Counted(d, f)' = Counted(d, f)
  PROVE  Total(d)' = Total(d) + (Counted(d, e)' - Counted(d, e))
  <1>1. PICK g : SumUp(Counts(d), SUBSET Elements, g) /\ Total(d) = g[Elements]
    BY TotalSums DEF TotalIsSum
  <1>2. PICK h : SumUp(Counts(d)', SUBSET Elements, h) /\ Total(d)' = h[Elements]
    BY TotalSumsNext DEF TotalIsSum, SumUp
  <1>3. Counts(d) \in [Elements -> Int] /\ Counts(d)' \in [Elements -> Int]
    BY CountsAreInts, CountsAreIntsNext DEF CountsTyped
  <1>4. \A f \in Elements : Counts(d)[f] = Counted(d, f) /\ Counts(d)'[f] = Counted(d, f)'
    BY DEF Counts
  <1>5. h[Elements] = g[Elements] + (Counts(d)'[e] - Counts(d)[e])
    <2> DEFINE F == Counts(d)
               G == Counts(d)'
    <2>1. /\ F \in [Elements -> Int] /\ SumUp(F, SUBSET Elements, g)
          /\ G \in [Elements -> Int] /\ SumUp(G, SUBSET Elements, h)
          /\ \A f \in Elements \ {e} : F[f] = G[f]
      BY <1>1, <1>2, <1>3, <1>4
    <2> HIDE DEF F, G
    <2>2. h[Elements] = g[Elements] + (G[e] - F[e])
      BY <2>1, OneTermChanges, DownloaderAssumption
    <2> QED BY <2>2 DEF F, G
  <1> QED BY <1>1, <1>2, <1>4, <1>5

\* Nobody's contribution changes.
LEMMA TotalSame ==
  ASSUME TypeOK, TypeOK', NEW d \in Downloaders,
         \A f \in Elements : Counted(d, f)' = Counted(d, f)
  PROVE  Total(d)' = Total(d)
  <1>1. PICK g : SumUp(Counts(d), SUBSET Elements, g) /\ Total(d) = g[Elements]
    BY TotalSums DEF TotalIsSum
  <1>2. PICK h : SumUp(Counts(d)', SUBSET Elements, h) /\ Total(d)' = h[Elements]
    BY TotalSumsNext DEF TotalIsSum, SumUp
  <1> DEFINE F == Counts(d)
             G == Counts(d)'
  <1>3. /\ F \in [Elements -> Int] /\ SumUp(F, SUBSET Elements, g)
        /\ G \in [Elements -> Int] /\ SumUp(G, SUBSET Elements, h)
        /\ \A f \in Elements : F[f] = G[f]
    BY <1>1, <1>2, CountsAreInts, CountsAreIntsNext DEF CountsTyped, Counts
  <1> HIDE DEF F, G
  <1>4. g[Elements] = h[Elements]
    <2>1. Elements \in SUBSET Elements
      OBVIOUS
    <2> QED BY <1>3, <2>1, SameSum, DownloaderAssumption
  <1> QED BY <1>1, <1>2, <1>4

\* Nobody has contributed anything.
ZeroTotals ==
    TypeOK => \A d \in Downloaders : (\A e \in Elements : Counted(d, e) = 0) => Total(d) = 0

LEMMA TotalZero == ZeroTotals
  <1> SUFFICES ASSUME TypeOK, NEW d \in Downloaders, \A e \in Elements : Counted(d, e) = 0
               PROVE  Total(d) = 0
    BY DEF ZeroTotals
  <1>1. PICK g : SumUp(Counts(d), SUBSET Elements, g) /\ Total(d) = g[Elements]
    BY TotalSums DEF TotalIsSum
  <1>2. Counts(d) \in [Elements -> Int] /\ \A e \in Elements : Counts(d)[e] = 0
    BY CountsAreInts DEF CountsTyped, Counts
  <1> QED BY <1>1, <1>2, SumOfZeros, DownloaderAssumption

LEMMA TotalZeroNext == ZeroTotals'
  BY TotalZero, PTL

-----------------------------------------------------------------------------
(* The steps.                                                              *)

LEMMA WorkerSizes ==
  ASSUME TypeOK, TypeOK', CounterInv, SizeInv, NEW d \in Downloaders, NEW e \in Elements,
         Worker(d, e)
  PROVE  SizeInv'
  <1>1. FileStep(d, e) /\ task[d][e] \in InFlight /\ runner' = runner
    BY WorkerFiles DEF FileStep
  <1>2. BytesInv(d, e)
    BY DEF SizeInv
  <1>3. runner[d] # "idle"
    BY <1>1, <1>2 DEF BytesInv, InFlight, MetadataWork, VerifyWork, DownloadWork
  <1>4. Adds(d, Counted(d, e)' - Counted(d, e)) /\ BytesInv(d, e)'
    <2>1. CASE \/ takeTask(d, e) \/ acquireMetadata(d, e) \/ getFileSize(d, e)
               \/ getLibrarySha1Hash(d, e) \/ checkFileOnDisk(d, e) \/ recheckFileOnDisk(d, e)
      BY <1>2, <1>3, <2>1, CheckerCounts
    <2>2. CASE \/ startFile(d, e) \/ openFile(d, e) \/ continueFile(d, e) \/ rangeAnswered(d, e)
               \/ copyChunk(d, e) \/ endOfBody(d, e) \/ transferFails(d, e)
      <3>1. task[d][e] \notin MetadataPhase
        BY <2>2 DEF startFile, openFile, continueFile, rangeAnswered, copyChunk, endOfBody,
                    transferFails,
                    MetadataPhase, MetadataWork
      <3>2. runner[d] # "inserting"
        BY <3>1 DEF CounterInv, Phases
      <3> QED BY <1>2, <1>3, <2>2, <3>2, DownloaderCounts
    <2> QED BY <2>1, <2>2 DEF Worker
  <1>5. ASSUME NEW c \in Downloaders, NEW f \in Elements, c # d \/ f # e
        PROVE  /\ transfer'[c][f] = transfer[c][f] /\ task'[c][f] = task[c][f]
               /\ meta'[c][f] = meta[c][f]
    <2>1. meta'[c][f] = meta[c][f]
      BY <1>1, <1>5 DEF FileStep, MetaStep, TypeOK
    <2>2. <<c, f>> # <<d, e>>
      BY <1>5
    <2> QED BY <2>1, <2>2, OthersKept
  <1>6. ASSUME NEW c \in Downloaders, NEW f \in Elements, c # d \/ f # e
        PROVE  Counted(c, f)' = Counted(c, f) /\ BytesInv(c, f)'
    <2>1. BytesInv(c, f)
      BY DEF SizeInv
    <2> QED BY <1>1, <1>5, <1>6, <2>1 DEF Counted, BytesInv
  <1>7. ASSUME NEW c \in Downloaders, runner[c] # "killed" PROVE sizeCounter'[c] = Total(c)'
    <2>1. sizeCounter[c] = Total(c) /\ sizeCounter \in [Downloaders -> Int]
      BY <1>7 DEF SizeInv, TypeOK
    <2>2. CASE c = d
      <3>1. Total(c)' = Total(c) + (Counted(d, e)' - Counted(d, e))
        BY <1>6, <2>2, TotalChanges
      <3>2. sizeCounter'[c] = sizeCounter[c] + (Counted(d, e)' - Counted(d, e))
        BY <1>4, <2>1, <2>2 DEF Adds
      <3> QED BY <2>1, <3>1, <3>2
    <2>3. CASE c # d
      <3>1. Total(c)' = Total(c)
        BY <1>6, <2>3, TotalSame
      <3>2. sizeCounter'[c] = sizeCounter[c]
        BY <1>4, <2>1, <2>3 DEF Adds
      <3> QED BY <2>1, <3>1, <3>2
    <2> QED BY <2>2, <2>3
  <1>8. ASSUME NEW c \in Downloaders, NEW f \in Elements PROVE BytesInv(c, f)'
    BY <1>4, <1>6
  <1> QED BY <1>1, <1>7, <1>8 DEF SizeInv

\* performDownloads begins at zero, with nothing counted by any entry.
LEMMA RunnerSizes ==
  ASSUME TypeOK, TypeOK', CounterInv, SizeInv, NEW d \in Downloaders,
         insertMetadata(d) \/ Runner(d)
  PROVE  SizeInv'
  <1>1. UNCHANGED <<meta, transfer>>
    BY DEF insertMetadata, Runner, insertMetadataThrows, performDownloads, pollDownloads,
           RunnerMoves
  <1>2. \A c \in Downloaders \ {d} : /\ runner'[c] = runner[c] /\ task'[c] = task[c]
                                     /\ sizeCounter'[c] = sizeCounter[c]
    BY DEF insertMetadata, Runner, insertMetadataThrows, performDownloads, pollDownloads,
           RunnerMoves, Submit, objectVars, TypeOK
  <1>3. ASSUME NEW c \in Downloaders \ {d}
        PROVE  /\ runner'[c] # "killed" => sizeCounter'[c] = Total(c)'
               /\ \A e \in Elements : BytesInv(c, e)'
    <2>1. ASSUME NEW e \in Elements PROVE Counted(c, e)' = Counted(c, e)
      BY <1>1, <1>2 DEF Counted
    <2>2. Total(c)' = Total(c)
      BY <2>1, TotalSame
    <2> QED BY <1>1, <1>2, <2>2 DEF SizeInv, BytesInv
  <1>4. sizeCounter'[d] = Total(d)' /\ \A e \in Elements : BytesInv(d, e)'
    <2>1. CASE insertMetadata(d) \/ performDownloads(d)
      <3>1. /\ runner[d] \in {"idle", "inserting"} /\ runner'[d] \in {"inserting", "downloading"}
            /\ \A e \in Elements : task'[d][e] \in {"metaQueued", "unsubmitted", "checkQueued"}
        BY <2>1 DEF insertMetadata, performDownloads, RunnerMoves, Submit, TypeOK
      <3>2. \A e \in Elements : transfer'[d][e].bytes = 0
        BY <1>1, <3>1 DEF SizeInv, BytesInv
      <3>3. \A e \in Elements : Counted(d, e)' = 0
        BY <3>1, <3>2 DEF Counted
      <3>4. Total(d)' = 0
        BY <3>3, TotalZeroNext DEF ZeroTotals
      <3>5. sizeCounter'[d] = 0
        <4>1. CASE insertMetadata(d)
          <5>1. runner[d] = "idle" /\ sizeCounter' = sizeCounter
            BY <4>1 DEF insertMetadata, RunnerMoves
          <5>2. \A e \in Elements : Counted(d, e) = 0
            BY <5>1 DEF Counted, SizeInv, BytesInv
          <5> QED BY <5>1, <5>2, TotalZero DEF ZeroTotals, SizeInv
        <4>2. CASE performDownloads(d)
          BY <4>2 DEF performDownloads, TypeOK
        <4> QED BY <2>1, <4>1, <4>2
      <3> QED BY <3>1, <3>2, <3>4, <3>5 DEF BytesInv
    <2>2. CASE insertMetadataThrows(d) \/ pollDownloads(d)
      <3>1. /\ UNCHANGED <<task, sizeCounter>>
            /\ runner'[d] \notin {"idle", "inserting"} /\ runner[d] # "killed"
        BY <2>2 DEF insertMetadataThrows, pollDownloads, RunnerMoves, objectVars, TypeOK
      <3>2. ASSUME NEW e \in Elements PROVE Counted(d, e)' = Counted(d, e)
        BY <1>1, <3>1 DEF Counted
      <3>3. Total(d)' = Total(d)
        BY <3>2, TotalSame
      <3> QED BY <1>1, <3>1, <3>3 DEF SizeInv, BytesInv
    <2> QED BY <2>1, <2>2 DEF Runner
  <1> QED BY <1>3, <1>4 DEF SizeInv

LEMMA InitSizes == TypeOK /\ Init => SizeInv
  <1> SUFFICES ASSUME TypeOK, Init, NEW d \in Downloaders
               PROVE  sizeCounter[d] = Total(d) /\ \A e \in Elements : BytesInv(d, e)
    BY DEF SizeInv
  <1>1. \A e \in Elements : /\ task[d][e] = "unsubmitted" /\ transfer[d][e].bytes = 0
                            /\ meta[d][e] = InitialMetadata(e)
    BY DEF Init, NewTransfer
  <1>2. \A e \in Elements : Counted(d, e) = 0
    BY <1>1 DEF Counted
  <1>3. Total(d) = 0 /\ sizeCounter[d] = 0
    BY <1>2, TotalZero DEF ZeroTotals, Init
  <1> QED BY <1>1, <1>3 DEF BytesInv

LEMMA KillSizes == TypeOK' /\ kill => SizeInv'
  <1> SUFFICES ASSUME TypeOK', kill, NEW d \in Downloaders
               PROVE  /\ runner'[d] # "killed" => sizeCounter'[d] = Total(d)'
                      /\ \A e \in Elements : BytesInv(d, e)'
    BY DEF SizeInv
  <1>1. \A e \in Elements : /\ runner'[d] # "killed" => task'[d][e] = "unsubmitted"
                            /\ transfer'[d][e].bytes = 0
                            /\ meta'[d][e] = InitialMetadata(e)
    BY DEF kill, NewTransfer
  <1>2. ASSUME runner'[d] # "killed" PROVE sizeCounter'[d] = Total(d)'
    <2>1. \A e \in Elements : Counted(d, e)' = 0
      BY <1>1, <1>2 DEF Counted
    <2> QED BY <2>1, TotalZeroNext DEF ZeroTotals, kill
  <1> QED BY <1>1, <1>2 DEF BytesInv

\* The size counter is the sum of the contributions, and only tasks that
\* download have bytes.
THEOREM SizeInvariant == Spec => []SizeInv
  <1>1. TypeOK /\ TypeOK' /\ CounterInv /\ SizeInv /\ [Next]_vars => SizeInv'
    <2> SUFFICES ASSUME TypeOK, TypeOK', CounterInv, SizeInv, [Next]_vars PROVE SizeInv'
      OBVIOUS
    <2>1. CASE UNCHANGED vars
      <3>1. UNCHANGED <<runner, task, meta, transfer, sizeCounter>>
        BY <2>1 DEF vars, objectVars
      <3>2. ASSUME NEW d \in Downloaders PROVE Total(d)' = Total(d)
        <4>1. \A e \in Elements : Counted(d, e)' = Counted(d, e)
          BY <3>1 DEF Counted
        <4> QED BY <4>1, TotalSame
      <3> QED BY <3>1, <3>2 DEF SizeInv, BytesInv
    <2> QED BY <2>1, WorkerSizes, RunnerSizes, KillSizes DEF Next
  <1> QED BY <1>1, InitSizes, TypeCorrect, CounterInvariant, PTL DEF Spec

\* mDownloadedSizeCounter is what the entries contributed, for any list,
\* number of retries, refused ranges and objects at work at once.
THEOREM SizeExact == Spec => []SizeCounterExact
  <1>1. SizeInv => SizeCounterExact
    BY DEF SizeInv, Total, SizeCounterExact
  <1> QED BY <1>1, SizeInvariant, PTL

-----------------------------------------------------------------------------
(***************************************************************************)
(* The announced total.  The bytes of a download under way are the length  *)
(* of its file, so the check after it finds them equal to the size of the  *)
(* entry; and the counter is used only while every size is known.          *)
(***************************************************************************)
LengthInv(d, e) ==
    /\ task[d][e] \in {"connecting", "copying", "recheckQueued", "rechecking", "recomparing"} =>
          transfer[d][e].bytes = LengthOf(FileOf(e))
    /\ task[d][e] = "opening" => transfer[d][e].bytes = 0
    /\ task[d][e] \in {"opening", "copying"} => transfer[d][e].pos = transfer[d][e].bytes + 1
    /\ (/\ VerifyFiles /\ task[d][e] \in {"recomparing", "downloaded"}
        /\ runner[d] # "killed" /\ meta[d][e].size # Unknown)
       => transfer[d][e].bytes = meta[d][e].size

\* An entry whose acquisition was lost has no path, and never completes.
KnownInv(d, e) ==
    /\ Listing[e].acquire /\ task[d][e] \in {"unsubmitted", "metaQueued", "acquiring"} =>
          ~meta[d][e].path
    /\ task[d][e] = "acquiring" => Listing[e].acquire
    /\ (/\ useSize[d] /\ runner[d] \in {"inserting", "downloading", "awaiting", "done"}
        /\ task[d][e] \notin MetadataWork \cup {"metaQueued"} /\ meta[d][e].path)
       => meta[d][e].size # Unknown

AnnouncedInv == \A d \in Downloaders, e \in Elements : LengthInv(d, e) /\ KnownInv(d, e)

\* The next chunk of a file makes it one chunk longer.
LEMMA WrittenAtEnd ==
  ASSUME NEW file \in File, NEW chunk
  PROVE  LengthOf(WriteAt(file, LengthOf(file) + 1, chunk)) = LengthOf(file) + 1
  <1> DEFINE n == LengthOf(file)
             x(i) == IF i = n + 1 THEN chunk ELSE i <= n /\ file.data[i]
  <1>1. n \in Nat
    BY LengthIsNatural
  <1>2. WriteAt(file, n + 1, chunk).data = [i \in 1..(n + 1) |-> x(i)]
    BY <1>1 DEF WriteAt
  <1> HIDE DEF n, x
  <1>3. Len([i \in 1..(n + 1) |-> x(i)]) = n + 1
    BY <1>1
  <1> QED BY <1>2, <1>3 DEF LengthOf, n

LEMMA AppendedAtEnd ==
  ASSUME NEW file \in File, NEW chunk \in BOOLEAN
  PROVE  LengthOf(WriteAppended(file, chunk)) = LengthOf(file) + 1
  BY DEF File, WriteAppended, LengthOf

LEMMA LengthWorker ==
  ASSUME TypeOK, NEW d \in Downloaders, NEW e \in Elements, LengthInv(d, e), Worker(d, e)
  PROVE  LengthInv(d, e)'
  <1> DEFINE t == transfer[d][e]
             n == LengthOf(FileOf(e))
  <1>1. t \in Transfer /\ t.bytes \in Nat /\ FileOf(e) \in File /\ PathOf[e] \in Paths
    BY DEF TypeOK, Transfer, FileOf, Paths
  <1>2. ASSUME NEW stage, MoveTo(d, e, stage) PROVE task'[d][e] = stage
    BY <1>2 DEF MoveTo, TypeOK
  <1>3. CASE task'[d][e] \notin {"opening", "connecting", "copying", "recheckQueued", "rechecking",
                                "recomparing", "downloaded"}
    BY <1>3 DEF LengthInv
  <1>4. CASE takeTask(d, e)
    <2>1. task'[d][e] = "rechecking" => task[d][e] = "recheckQueued"
      BY <1>2, <1>4 DEF takeTask, TakeTask
    <2>2. task'[d][e] \notin {"opening", "connecting", "copying", "recheckQueued", "recomparing",
                           "downloaded"}
      BY <1>2, <1>4 DEF takeTask, TakeTask
    <2>3. UNCHANGED <<disk, transfer>>
      BY <1>4 DEF takeTask, TakeTask
    <2> QED BY <2>1, <2>2, <2>3 DEF LengthInv, FileOf
  <1>5. CASE acquireMetadata(d, e) \/ getFileSize(d, e) \/ getLibrarySha1Hash(d, e)
             \/ checkFileOnDisk(d, e)
    BY <1>2, <1>3, <1>5 DEF acquireMetadata, getFileSize, getLibrarySha1Hash, checkFileOnDisk,
          FirstVerdict, Fails
  <1>6. CASE recheckFileOnDisk(d, e)
    <2>1. task[d][e] \in {"rechecking", "recomparing"} /\ UNCHANGED <<disk, runner, meta, transfer>>
      BY <1>6 DEF recheckFileOnDisk
    <2>2. CASE task[d][e] = "rechecking"
      <3>1. /\ task'[d][e] \in {"downloaded", "recomparing", "failed"}
            /\ task'[d][e] # "failed" => checkFile(d, e, TRUE) # "bad"
        BY <1>2, <1>6, <2>2 DEF recheckFileOnDisk, RecheckVerdict, Fails
      <3>2. VerifyFiles /\ checkFile(d, e, TRUE) # "bad" /\ meta[d][e].size # Unknown =>
               n = meta[d][e].size
        BY DEF checkFile
      <3> QED BY <2>1, <2>2, <3>1, <3>2 DEF LengthInv, FileOf
    <2>3. CASE task[d][e] = "recomparing"
      <3>1. task'[d][e] \in {"downloaded", "failed"}
        BY <1>2, <1>6, <2>3 DEF recheckFileOnDisk, RecheckVerdict, Fails, compareSHA1
      <3> QED BY <2>1, <2>3, <3>1 DEF LengthInv
    <2> QED BY <2>1, <2>2, <2>3
  <1>7. CASE startFile(d, e)
    <2>1. transfer'[d][e] = [t EXCEPT !.bytes = 0, !.pos = 1, !.append = FALSE]
      BY <1>7 DEF startFile, TypeOK
    <2>2. transfer'[d][e].bytes = 0 /\ transfer'[d][e].pos = 1
      BY <1>1, <2>1 DEF Transfer
    <2>3. task'[d][e] = "opening"
      BY <1>2, <1>7 DEF startFile
    <2> QED BY <2>2, <2>3 DEF LengthInv
  <1>13. CASE openFile(d, e)
    <2>1. task[d][e] = "opening" /\ transfer' = transfer /\ task'[d][e] \in {"copying", "crashed"}
      BY <1>2, <1>13 DEF openFile
    <2>2. task'[d][e] = "copying" => disk' = [disk EXCEPT ![PathOf[e]] = Truncated]
      BY <1>2, <1>13 DEF openFile
    <2>3. task'[d][e] = "copying" => LengthOf(FileOf(e)') = 0
      BY <1>1, <2>2 DEF FileOf, TypeOK, LengthOf, Truncated
    <2> QED BY <2>1, <2>3 DEF LengthInv
  <1>8. CASE continueFile(d, e)
    <2>1. transfer'[d][e] = [t EXCEPT !.bytes = n] /\ disk' = disk
      BY <1>8 DEF continueFile, TypeOK
    <2>2. transfer'[d][e].bytes = n
      BY <1>1, <2>1 DEF Transfer
    <2>3. task'[d][e] \in {"connecting", "crashed"}
      BY <1>2, <1>8 DEF continueFile
    <2> QED BY <2>1, <2>2, <2>3 DEF LengthInv, FileOf
  <1>9. CASE rangeAnswered(d, e)
    <2>1. CASE performRetry(d, e, t.attempt, FALSE, t.attempt)
      BY <1>2, <1>3, <2>1 DEF performRetry, TryAgain
    <2>2. CASE ~performRetry(d, e, t.attempt, FALSE, t.attempt)
      <3>1. /\ transfer' = [transfer EXCEPT ![d][e] = [t EXCEPT !.pos = n + 1, !.append = TRUE]]
            /\ task[d][e] = "connecting" /\ disk' = disk
        BY <1>9, <2>2 DEF rangeAnswered
      <3>2. transfer'[d][e] = [t EXCEPT !.pos = n + 1, !.append = TRUE]
        BY <3>1 DEF TypeOK
      <3>3. transfer'[d][e].bytes = n /\ transfer'[d][e].pos = n + 1
        <4>1. t.bytes = n
          BY <3>1 DEF LengthInv
        <4> HIDE DEF n
        <4> QED BY <1>1, <3>2, <4>1 DEF Transfer
      <3>4. task'[d][e] = "copying"
        BY <1>2, <1>9, <2>2 DEF rangeAnswered
      <3> QED BY <3>1, <3>3, <3>4 DEF LengthInv, FileOf
    <2> QED BY <2>1, <2>2
  <1>10. CASE copyChunk(d, e)
    <2>1. /\ transfer'[d][e] = [t EXCEPT !.pos = t.pos + 1, !.bytes = t.bytes + 1]
          /\ task[d][e] = "copying" /\ task'[d][e] = "copying"
      BY <1>10 DEF copyChunk, TypeOK
    <2>2. t.bytes = n /\ t.pos = n + 1
      BY <2>1 DEF LengthInv
    <2>3. transfer'[d][e].bytes = n + 1 /\ transfer'[d][e].pos = n + 1 + 1
      BY <1>1, <2>1, <2>2 DEF Transfer
    <2>4. PICK intact \in BOOLEAN :
             disk' = [disk EXCEPT ![PathOf[e]] =
                IF t.append
                THEN WriteAppended(FileOf(e), intact /\ LengthOf(FileOf(e)) + 1 = t.pos)
                ELSE WriteAt(FileOf(e), t.pos, intact)]
      BY <1>10 DEF copyChunk, FileOf
    <2>5. FileOf(e)' = IF t.append
                       THEN WriteAppended(FileOf(e), intact /\ LengthOf(FileOf(e)) + 1 = t.pos)
                       ELSE WriteAt(FileOf(e), t.pos, intact)
      BY <1>1, <2>4 DEF FileOf, TypeOK
    <2>6. LengthOf(WriteAppended(FileOf(e), intact /\ LengthOf(FileOf(e)) + 1 = t.pos)) = n + 1
      BY <1>1, AppendedAtEnd
    <2>7. LengthOf(WriteAt(FileOf(e), t.pos, intact)) = n + 1
      BY <1>1, <2>2, WrittenAtEnd
    <2>8. LengthOf(FileOf(e)') = n + 1
      BY <2>5, <2>6, <2>7
    <2> QED BY <2>1, <2>3, <2>8 DEF LengthInv
  <1>11. CASE endOfBody(d, e)
    <2>1. /\ task[d][e] = "copying" /\ task'[d][e] = "recheckQueued"
          /\ UNCHANGED <<disk, transfer>>
      BY <1>2, <1>11 DEF endOfBody, submitFileForRecheck
    <2> QED BY <2>1 DEF LengthInv, FileOf
  <1>12. CASE transferFails(d, e)
    BY <1>2, <1>3, <1>12 DEF transferFails, onIOException, performRetry, TryAgain, Fails
  <1> QED BY <1>4, <1>5, <1>6, <1>7, <1>8, <1>9, <1>10, <1>11, <1>12, <1>13 DEF Worker

\* Of what the other entries wait for, nothing changes.
LEMMA LengthOthers ==
  ASSUME NoSharedFiles, TypeOK, OneActive, NEW d \in Downloaders, NEW e \in Elements,
         Worker(d, e), FileStep(d, e),
         NEW c \in Downloaders, NEW f \in Elements, c # d \/ f # e, LengthInv(c, f)
  PROVE  LengthInv(c, f)'
  <1>1. /\ transfer'[c][f] = transfer[c][f] /\ task'[c][f] = task[c][f]
        /\ meta'[c][f] = meta[c][f]
    <2>1. meta'[c][f] = meta[c][f]
      BY DEF FileStep, MetaStep, TypeOK
    <2>2. <<c, f>> # <<d, e>>
      OBVIOUS
    <2> QED BY <2>1, <2>2, OthersKept
  <1>4. runner' = runner
    BY DEF FileStep
  <1>2. CASE c = d
    <2>1. FileOf(f)' = FileOf(f)
      BY <1>2, FileLeft DEF NoSharedFiles
    <2> QED BY <1>1, <1>4, <2>1 DEF LengthInv
  <1>3. CASE c # d
    <2>1. Active(d) /\ ~Active(c)
      BY <1>3 DEF OneActive, FileStep, Active, Terminated
    <2>2. task[c][f] \notin InFlight
      BY <2>1 DEF Active, Terminated
    <2> QED BY <1>1, <1>4, <2>2 DEF LengthInv, InFlight, DownloadWork, VerifyWork
  <1> QED BY <1>2, <1>3

\* A task that completes its metadata without a size gives the counter up.
LEMMA KnownWorker ==
  ASSUME TypeOK, CounterInv, NEW d \in Downloaders, NEW e \in Elements, KnownInv(d, e),
         Worker(d, e)
  PROVE  KnownInv(d, e)'
  <1>1. ASSUME NEW stage, MoveTo(d, e, stage) PROVE task'[d][e] = stage
    BY <1>1 DEF MoveTo, TypeOK
  <1>2. runner' = runner
    BY WorkerFiles DEF FileStep
  <1> USE DEF MetadataWork
  <1>3. CASE takeTask(d, e)
    <2>1. UNCHANGED <<meta, useSize>>
      BY <1>3 DEF takeTask, TakeTask, objectVars
    <2>2. \/ task[d][e] = "metaQueued" /\ task'[d][e] = IF Listing[e].acquire THEN "acquiring" ELSE "sizing"
          \/ task[d][e] \in {"checkQueued", "recheckQueued", "downloadQueued"}
             /\ task'[d][e] \in {"checking", "rechecking", "trying"}
      BY <1>1, <1>3 DEF takeTask, TakeTask
    <2> QED BY <1>2, <2>1, <2>2 DEF KnownInv
  <1>4. CASE acquireMetadata(d, e)
    <2>1. CASE task'[d][e] = "sizing"
      BY <2>1 DEF KnownInv
    <2>2. CASE task'[d][e] # "sizing"
      <3>1. /\ task[d][e] = "acquiring" /\ UNCHANGED meta
            /\ task'[d][e] \in {"failed", "crashed"}
        BY <1>1, <1>4, <2>2 DEF acquireMetadata
      <3> QED BY <3>1 DEF KnownInv
    <2> QED BY <2>1, <2>2
  <1>5. CASE getFileSize(d, e)
    <2>1. task'[d][e] = "hashing"
      BY <1>1, <1>5 DEF getFileSize
    <2> QED BY <2>1 DEF KnownInv
  <1>6. CASE getLibrarySha1Hash(d, e)
    <2>1. task'[d][e] = "metaDone" /\ useSize'[d] = (useSize[d] /\ meta[d][e].size # Unknown)
      BY <1>1, <1>6 DEF getLibrarySha1Hash, disableSizeCounter, TypeOK
    <2>2. meta'[d][e].size = meta[d][e].size
      <3>1. CASE UNCHANGED meta
        BY <3>1
      <3>2. CASE ~UNCHANGED meta
        <4>1. PICK hash : meta' = [meta EXCEPT ![d][e].hash = hash]
          BY <1>6, <3>2 DEF getLibrarySha1Hash
        <4>2. meta'[d][e] = [meta[d][e] EXCEPT !.hash = hash] /\ meta[d][e] \in Metadata
          BY <4>1 DEF TypeOK
        <4> QED BY <4>2 DEF Metadata
      <3> QED BY <3>1, <3>2
    <2> QED BY <2>1, <2>2 DEF KnownInv
  <1>7. CASE \/ checkFileOnDisk(d, e) \/ recheckFileOnDisk(d, e)
             \/ startFile(d, e) \/ openFile(d, e) \/ continueFile(d, e) \/ rangeAnswered(d, e)
             \/ copyChunk(d, e) \/ endOfBody(d, e) \/ transferFails(d, e)
    <2>1. UNCHANGED <<meta, useSize>>
      BY <1>7 DEF checkFileOnDisk, recheckFileOnDisk, FirstVerdict, startFile, openFile, continueFile,
            rangeAnswered, copyChunk, endOfBody, transferFails, objectVars
    <2>2. task[d][e] \in VerifyWork \cup DownloadWork
      BY <1>7 DEF checkFileOnDisk, recheckFileOnDisk, startFile, openFile, continueFile,
            rangeAnswered, copyChunk, endOfBody, transferFails, VerifyWork, DownloadWork
    <2>3. task'[d][e] \notin {"unsubmitted", "metaQueued", "acquiring"}
      <3>1. CASE copyChunk(d, e)
        BY <3>1 DEF copyChunk
      <3>2. CASE ~copyChunk(d, e)
        BY <1>1, <1>7, <3>2 DEF checkFileOnDisk, recheckFileOnDisk, FirstVerdict, RecheckVerdict,
              startFile, openFile, continueFile,
              rangeAnswered, endOfBody, transferFails, onIOException, performRetry, TryAgain,
              Fails, submitFileForRecheck
      <3> QED BY <3>1, <3>2
    <2> QED BY <1>2, <2>1, <2>2, <2>3 DEF KnownInv, VerifyWork, DownloadWork
  <1> QED BY <1>3, <1>4, <1>5, <1>6, <1>7 DEF Worker

LEMMA KnownOthers ==
  ASSUME TypeOK, NEW d \in Downloaders, NEW e \in Elements, Worker(d, e), FileStep(d, e),
         NEW c \in Downloaders, NEW f \in Elements, c # d \/ f # e, KnownInv(c, f)
  PROVE  KnownInv(c, f)'
  <1>1. task'[c][f] = task[c][f] /\ meta'[c][f] = meta[c][f] /\ runner' = runner
    BY DEF FileStep, MetaStep, TypeOK
  <1>2. useSize'[c] => useSize[c]
    BY DEF Worker, takeTask, TakeTask, acquireMetadata, getFileSize, getLibrarySha1Hash,
       disableSizeCounter, checkFileOnDisk, FirstVerdict, recheckFileOnDisk, startFile,
       openFile, continueFile, rangeAnswered, copyChunk, endOfBody, transferFails, objectVars, TypeOK
  <1> QED BY <1>1, <1>2 DEF KnownInv

-----------------------------------------------------------------------------
(* The threads that call runDownloads, and the end of the process.         *)

LEMMA RunnerAnnounces ==
  ASSUME TypeOK, SizeInv, AnnouncedInv, NEW d \in Downloaders, insertMetadata(d) \/ Runner(d)
  PROVE  AnnouncedInv'
  <1>1. UNCHANGED <<disk, meta, transfer, useSize>>
    BY DEF insertMetadata, Runner, insertMetadataThrows, performDownloads, pollDownloads,
           RunnerMoves
  <1>2. \A c \in Downloaders \ {d} : runner'[c] = runner[c] /\ task'[c] = task[c]
    BY DEF insertMetadata, Runner, insertMetadataThrows, performDownloads, pollDownloads,
           RunnerMoves, Submit, TypeOK
  <1>3. ASSUME NEW c \in Downloaders \ {d}, NEW e \in Elements
        PROVE  LengthInv(c, e)' /\ KnownInv(c, e)'
    BY <1>1, <1>2 DEF AnnouncedInv, LengthInv, KnownInv, FileOf
  <1>4. ASSUME NEW e \in Elements PROVE LengthInv(d, e)' /\ KnownInv(d, e)'
    <2>1. LengthInv(d, e) /\ KnownInv(d, e) /\ BytesInv(d, e)
      BY DEF AnnouncedInv, SizeInv
    <2>2. CASE insertMetadata(d)
      <3>1. /\ runner[d] = "idle"
            /\ task'[d][e] = IF shouldCompleteMetadata(e) THEN "metaQueued" ELSE "unsubmitted"
        BY <2>2 DEF insertMetadata, RunnerMoves, Submit, TypeOK
      <3>2. meta'[d][e] = InitialMetadata(e) /\ task[d][e] = "unsubmitted"
        BY <1>1, <2>1, <3>1 DEF BytesInv
      <3>3. ~shouldCompleteMetadata(e) => meta'[d][e].size # Unknown
        BY <3>2, DownloaderAssumption DEF shouldCompleteMetadata, InitialMetadata, Unknown
      <3>4. Listing[e].acquire => ~meta'[d][e].path
        BY <3>2 DEF InitialMetadata
      <3> QED BY <3>1, <3>3, <3>4 DEF LengthInv, KnownInv
    <2>3. CASE performDownloads(d)
      <3>1. /\ runner[d] = "inserting" /\ task'[d][e] = "checkQueued"
            /\ task[d][e] \notin InFlight
        BY <2>3 DEF performDownloads, RunnerMoves, Submit, Terminated, TypeOK
      <3>2. task[d][e] \notin MetadataWork \cup {"metaQueued"}
        BY <3>1 DEF InFlight
      <3> QED BY <1>1, <2>1, <3>1, <3>2 DEF LengthInv, KnownInv
    <2>4. CASE insertMetadataThrows(d) \/ pollDownloads(d)
      <3>1. /\ UNCHANGED task /\ runner[d] # "killed"
            /\ \/ runner'[d] \in {"closing", "thrown", "bug"}
               \/ runner[d] \in {"downloading", "awaiting"}
        BY <2>4 DEF insertMetadataThrows, pollDownloads, RunnerMoves, TypeOK
      <3> QED BY <1>1, <2>1, <3>1 DEF LengthInv, KnownInv, FileOf
    <2> QED BY <2>2, <2>3, <2>4 DEF Runner
  <1> QED BY <1>3, <1>4 DEF AnnouncedInv

LEMMA InitAnnounces == Init => AnnouncedInv
  <1> SUFFICES ASSUME Init, NEW d \in Downloaders, NEW e \in Elements
               PROVE  LengthInv(d, e) /\ KnownInv(d, e)
    BY DEF AnnouncedInv
  <1>1. meta[d][e] = InitialMetadata(e) /\ task[d][e] = "unsubmitted" /\ runner[d] = "idle"
    BY DEF Init
  <1> QED BY <1>1 DEF LengthInv, KnownInv, InitialMetadata

LEMMA KillAnnounces == kill => AnnouncedInv'
  <1> SUFFICES ASSUME kill, NEW d \in Downloaders, NEW e \in Elements
               PROVE  LengthInv(d, e)' /\ KnownInv(d, e)'
    BY DEF AnnouncedInv
  <1>1. /\ meta'[d][e] = InitialMetadata(e)
        /\ task'[d][e] \in Completed \cup {"unsubmitted", "killed"}
        /\ runner'[d] \in {"idle", "killed"} /\ (runner'[d] = "idle" => task'[d][e] = "unsubmitted")
    BY DEF kill
  <1> QED BY <1>1 DEF LengthInv, KnownInv, InitialMetadata, Completed

\* The bytes of a download are the length of its file, and the sizes of a
\* download shown by size are known.
THEOREM AnnouncedInvariant ==
  ASSUME RetryInProcess = FALSE, NoSharedFiles
  PROVE  Spec => []AnnouncedInv
  <1>1. SharedFilesHashed
    BY DEF NoSharedFiles, SharedFilesHashed
  <1>2. TypeOK /\ CounterInv /\ DiskInv /\ SizeInv /\ AnnouncedInv /\ [Next]_vars => AnnouncedInv'
    <2> SUFFICES ASSUME TypeOK, CounterInv, DiskInv, SizeInv, AnnouncedInv, [Next]_vars
                 PROVE  AnnouncedInv'
      OBVIOUS
    <2>1. ASSUME NEW d \in Downloaders, NEW e \in Elements, Worker(d, e) PROVE AnnouncedInv'
      <3>1. FileStep(d, e) /\ OneActive
        BY <2>1, WorkerFiles DEF DiskInv
      <3>2. ASSUME NEW c \in Downloaders, NEW f \in Elements
            PROVE  LengthInv(c, f)' /\ KnownInv(c, f)'
        <4>1. LengthInv(c, f) /\ KnownInv(c, f)
          BY DEF AnnouncedInv
        <4>2. CASE c = d /\ f = e
          BY <2>1, <4>1, <4>2, LengthWorker, KnownWorker
        <4>3. CASE c # d \/ f # e
          BY <2>1, <3>1, <4>1, <4>3, LengthOthers, KnownOthers
        <4> QED BY <4>2, <4>3
      <3> QED BY <3>2 DEF AnnouncedInv
    <2>2. CASE UNCHANGED vars
      BY <2>2 DEF vars, objectVars, AnnouncedInv, LengthInv, KnownInv, FileOf
    <2> QED BY <2>1, <2>2, RunnerAnnounces, KillAnnounces DEF Next
  <1> QED BY <1>1, <1>2, InitAnnounces, DiskInvariant, SizeInvariant, PTL DEF Spec

\* The announced total of the property is a sum of the same kind.
Sizes(d) == [e \in Elements |-> meta[d][e].size]

LEMMA AnnouncedSum ==
  ASSUME NEW d \in Downloaders
  PROVE  \E g : /\ SumUp(Sizes(d), SUBSET Elements, g)
               /\ MapThenSumSet(LAMBDA e : meta[d][e].size, Elements) = g[Elements]
  <1> DEFINE Step(h) == [s \in SUBSET Elements |->
                           IF s = {} THEN 0 ELSE meta[d][Chosen(s)].size + h[s \ {Chosen(s)}]]
             g == CHOOSE h : h = Step(h)
  <1>1. ASSUME NEW h PROVE h = Step(h) <=> SumUp(Sizes(d), SUBSET Elements, h)
    <2>1. ASSUME NEW s \in SUBSET Elements, s # {}
          PROVE  Sizes(d)[Chosen(s)] = meta[d][Chosen(s)].size
      <3>1. Chosen(s) \in Elements
        BY <2>1 DEF Chosen
      <3> QED BY <3>1 DEF Sizes
    <2> QED BY <2>1, Zenon DEF SumUp
  <1>2. \E h : h = Step(h)
    <2>1. PICK h : SumUp(Sizes(d), SUBSET Elements, h)
      BY SumExists, DownloaderAssumption
    <2> QED BY <1>1, <2>1
  <1>3. g = Step(g)
    <2> HIDE DEF Step
    <2> QED BY <1>2
  <1>4. MapThenSumSet(LAMBDA e : meta[d][e].size, Elements) = g[Elements]
    BY Zenon DEF Chosen, MapThenSumSet, MapThenFoldSet
  <1> HIDE DEF g
  <1> QED BY <1>1, <1>3, <1>4

\* When runDownloads returns, each entry has contributed its size.
LEMMA AllCounted ==
  ASSUME CounterInv, DiskInv, AnnouncedInv, NEW d \in Downloaders,
         runner[d] = "done", useSize[d], VerifyFiles, NEW e \in Elements
  PROVE  Counted(d, e) = meta[d][e].size
  <1>1. task[d][e] \in Completed
    BY DEF CounterInv, Phases
  <1>2. meta[d][e].path
    BY <1>1 DEF DiskInv, MetaInv
  <1>3. meta[d][e].size # Unknown
    BY <1>1, <1>2 DEF AnnouncedInv, KnownInv, Completed, MetadataWork
  <1> QED BY <1>1, <1>3 DEF AnnouncedInv, LengthInv, Counted, Completed

\* A download shown by size ends at exactly the announced total, if no two
\* entries share a file and downloads follow one another.
THEOREM SizeReachesTotal ==
  ASSUME RetryInProcess = FALSE, NoSharedFiles
  PROVE  Spec => []SizeProgressReachesTotal
  <1>1. SharedFilesHashed
    BY DEF NoSharedFiles, SharedFilesHashed
  <1>2. TypeOK /\ CounterInv /\ DiskInv /\ SizeInv /\ AnnouncedInv => SizeProgressReachesTotal
    <2> SUFFICES ASSUME TypeOK, CounterInv, DiskInv, SizeInv, AnnouncedInv,
                        NEW d \in Downloaders, runner[d] = "done", useSize[d], VerifyFiles
                 PROVE  sizeCounter[d] = MapThenSumSet(LAMBDA e : meta[d][e].size, Elements)
      BY DEF SizeProgressReachesTotal
    <2>1. PICK g : SumUp(Counts(d), SUBSET Elements, g) /\ Total(d) = g[Elements]
      BY TotalSums DEF TotalIsSum
    <2>2. PICK h : /\ SumUp(Sizes(d), SUBSET Elements, h)
                   /\ MapThenSumSet(LAMBDA e : meta[d][e].size, Elements) = h[Elements]
      BY AnnouncedSum
    <2>3. Sizes(d) = Counts(d)
      BY AllCounted DEF Sizes, Counts
    <2>4. Counts(d) \in [Elements -> Int] /\ Elements \in SUBSET Elements
      BY CountsAreInts DEF CountsTyped
    <2>5. g[Elements] = h[Elements]
      BY <2>1, <2>2, <2>3, <2>4, SameSum, DownloaderAssumption
    <2> QED BY <2>1, <2>2, <2>5 DEF SizeInv
  <1> QED BY <1>1, <1>2, DiskInvariant, SizeInvariant, AnnouncedInvariant, PTL
=============================================================================
