--------------------------- MODULE StorageProofs ----------------------------
(***************************************************************************)
(* What the files on disk promise, for any number of processes, objects,   *)
(* epochs and calls: the commits of the bounded persistence                *)
(* (BoundedPersistence) and the transitions of a native reality            *)
(* (NativeReality).                                                        *)
(***************************************************************************)
EXTENDS BoundedPersistence, NativeReality, TLAPS

(* The bounded persistence.                                                *)

Early == {"temp", "written", "closed"}
Late == {"replaced", "confirmed"}
Loading == {"load-open", "load-stat", "load-read"}

PersistTypes ==
  /\ calls \in Nat /\ durable \in Nat
  /\ files \in Seq([call : Nat, whole : BOOLEAN])
  /\ persistPc \in [Procs -> PersistPlaces]
  /\ own \in [Procs -> Nat]
  /\ synced \in [Procs -> BOOLEAN]
  /\ began \in [Procs -> Nat] /\ fd \in [Procs -> Nat]
  /\ commitResult \in [Commits -> Results]

\* The processes that are in a commit call, each in one of its own.
OwnCalls ==
  /\ \A p \in Procs : own[p] <= calls
  /\ \A p \in Procs : persistPc[p] \in Early \cup Late => own[p] > 0
  /\ \A p, q \in Procs : own[p] = own[q] /\ own[p] > 0 => p = q
  /\ \A c \in Commits : commitResult[c] # "none" =>
       c <= calls /\ \A p \in Procs : own[p] # c

\* The renames so far are of calls that were made.
FilesCalled == \A i \in 1 .. Len(files) : files[i].call \in 1 .. calls

\* How far a call got shows in the history of the state object.
Progress ==
  \A p \in Procs :
    /\ persistPc[p] \in Early => \A i \in 1 .. Len(files) : files[i].call # own[p]
    /\ persistPc[p] = "replaced" => \E i \in 1 .. Len(files) : files[i].call = own[p]
    /\ persistPc[p] = "confirmed" => \E i \in 1 .. durable : files[i].call = own[p]

\* The indices that loads hold.
LoadsAhead ==
  \A p \in Procs :
    /\ began[p] <= Len(files) /\ fd[p] <= Len(files)
    /\ persistPc[p] \in {"load-stat", "load-read"} => fd[p] >= began[p]

PersistInv ==
  /\ PersistTypes
  /\ durable <= Len(files)
  /\ OwnCalls /\ FilesCalled /\ Progress /\ LoadsAhead
  /\ ConfirmedSurvives
  /\ CleanErrorLeavesNoTrace

\* Facts about numbers that the steps below share.
LEMMA PersistNumbers ==
  ASSUME PersistInv
  PROVE  /\ calls \in Nat /\ durable \in Nat
         /\ Len(files) \in Nat /\ DOMAIN files = 1 .. Len(files)
         /\ \A p \in Procs : own[p] \in Nat /\ began[p] \in Nat /\ fd[p] \in Nat
BY DEF PersistInv, PersistTypes

\* The calls of P end, with results that say how far they got.
LEMMA LeavingKeepsFiles ==
  ASSUME PersistInv, NEW P \in SUBSET Procs, LeaveCall(P), UNCHANGED <<files, durable, calls>>,
         commitResult' \in [Commits -> Results],
         \A c \in Commits : commitResult'[c] # commitResult[c] =>
           \E p \in P : /\ own[p] = c
                        /\ commitResult'[c] = "error" => persistPc[p] \in Early
                        /\ commitResult'[c] = "ok" => persistPc[p] = "confirmed"
  PROVE  PersistInv'
<1> USE PersistAssumption DEF PersistInv
<1>0. Commits \subseteq Nat \ {0}
  BY DEF Commits
<1>1. PersistTypes'
  BY Zenon DEF PersistTypes, LeaveCall, PersistPlaces
<1>2. \A p \in Procs : /\ p \in P => /\ persistPc'[p] = "idle" /\ own'[p] = 0
                                      /\ began'[p] = 0 /\ fd'[p] = 0
                       /\ p \notin P => /\ persistPc'[p] = persistPc[p] /\ own'[p] = own[p]
                                        /\ synced'[p] = synced[p]
                                        /\ began'[p] = began[p] /\ fd'[p] = fd[p]
  BY Zenon DEF LeaveCall
<1>3. OwnCalls'
  <2>1. \A p \in Procs : own'[p] <= calls'
    BY <1>2, PersistNumbers DEF OwnCalls
  <2>2. \A p \in Procs : persistPc'[p] \in Early \cup Late => own'[p] > 0
    BY Zenon, <1>2 DEF OwnCalls, Early, Late
  <2>3. \A p, q \in Procs : own'[p] = own'[q] /\ own'[p] > 0 => p = q
    BY <1>2 DEF OwnCalls
  <2>4. ASSUME NEW c \in Commits, commitResult'[c] # "none"
        PROVE  c <= calls' /\ \A p \in Procs : own'[p] # c
    <3>1. CASE commitResult'[c] = commitResult[c]
      BY <1>0, <1>2, PersistNumbers, <2>4, <3>1 DEF OwnCalls
    <3>2. CASE commitResult'[c] # commitResult[c]
      <4>1. PICK p \in P : own[p] = c
        BY Zenon, <3>2
      <4> QED BY <1>0, <1>2, PersistNumbers, <4>1 DEF OwnCalls
    <3> QED BY Zenon, <3>1, <3>2
  <2> QED BY Zenon, <2>1, <2>2, <2>3, <2>4 DEF OwnCalls
<1>4. FilesCalled' /\ durable' <= Len(files')
  BY Zenon DEF FilesCalled
<1>5. Progress'
  BY <1>2 DEF Progress, Early
<1>6. LoadsAhead'
  BY <1>2, PersistNumbers DEF LoadsAhead
<1>7. ConfirmedSurvives'
  BY DEF ConfirmedSurvives, Progress
<1>8. CleanErrorLeavesNoTrace'
  <2> SUFFICES ASSUME NEW c \in Commits, commitResult'[c] = "error", NEW i \in 1 .. Len(files)
               PROVE  files[i].call # c
    BY Zenon, PersistNumbers DEF CleanErrorLeavesNoTrace, Replaced
  <2>1. CASE commitResult'[c] = commitResult[c]
    BY Zenon, PersistNumbers, <2>1 DEF CleanErrorLeavesNoTrace, Replaced
  <2>2. CASE commitResult'[c] # commitResult[c]
    BY <2>2 DEF Progress
  <2> QED BY Zenon, <2>1, <2>2
<1> QED BY Zenon, <1>1, <1>3, <1>4, <1>5, <1>6, <1>7, <1>8

\* The commit protocol keeps the history of the state object, for any number of
\* processes and calls, through failing system calls, kills and power losses.
LEMMA PersistInductive == PersistInit /\ [][PersistNext]_persistVars => []PersistInv
<1> USE PersistAssumption
<1>1. PersistInit => PersistInv
  BY DEF PersistInit, PersistInv, PersistTypes, OwnCalls, FilesCalled, Progress, LoadsAhead,
    ConfirmedSurvives, CleanErrorLeavesNoTrace, Replaced, Results, PersistPlaces, Early, Late
<1>2. PersistInv /\ [PersistNext]_persistVars => PersistInv'
  <2> SUFFICES ASSUME PersistInv, [PersistNext]_persistVars
               PROVE  PersistInv'
    BY Zenon
  <2> USE DEF PersistInv
  <2>1. ASSUME NEW p \in Procs, CreateTemp(p)
        PROVE  PersistInv'
    <3> USE DEF CreateTemp, file, load, PersistGoto
    <3>0. own' = [own EXCEPT ![p] = calls + 1] /\ calls' = calls + 1 /\ UNCHANGED <<files, durable>>
      BY Zenon, <2>1
    <3>1. PersistTypes'
      BY <2>1, <3>0 DEF PersistTypes, PersistPlaces
    <3>2. OwnCalls'
      BY SMTT(30), <2>1, <3>0, PersistNumbers DEF OwnCalls, PersistTypes, Early, Late, Commits
    <3>3. FilesCalled'
      BY <2>1, <3>0, PersistNumbers DEF FilesCalled
    <3>4. Progress'
      BY SMTT(30), <2>1, <3>0, PersistNumbers DEF Progress, FilesCalled, PersistTypes, Early
    <3>5. LoadsAhead'
      BY Zenon, <2>1, <3>0, PersistNumbers DEF LoadsAhead, PersistTypes
    <3> QED BY Zenon, <2>1, <3>1, <3>2, <3>3, <3>4, <3>5 DEF ConfirmedSurvives, CleanErrorLeavesNoTrace, Replaced
  <2>2. ASSUME NEW p \in Procs, WriteTemp(p) \/ FsyncTemp(p)
        PROVE  PersistInv'
    <3> USE DEF WriteTemp, FsyncTemp, file, load, PersistGoto
    <3>1. PersistTypes'
      BY Zenon, <2>2 DEF PersistTypes, PersistPlaces
    <3>2. OwnCalls'
      BY <2>2 DEF OwnCalls, PersistTypes, Early, Late
    <3>3. FilesCalled'
      BY Zenon, <2>2 DEF FilesCalled
    <3>4. Progress'
      <4>1. \A q \in Procs : persistPc'[q] = persistPc[q] \/ (persistPc[q] \in Early /\ persistPc'[q] \in Early)
        BY Zenon, <2>2 DEF PersistTypes, Early
      <4>2. UNCHANGED <<files, durable, own>>
        BY Zenon, <2>2
      <4> QED BY Zenon, <4>1, <4>2 DEF Progress, Early
    <3>5. LoadsAhead'
      BY Zenon, <2>2 DEF LoadsAhead, PersistTypes
    <3> QED BY Zenon, <2>2, <3>1, <3>2, <3>3, <3>4, <3>5 DEF ConfirmedSurvives, CleanErrorLeavesNoTrace, Replaced
  <2>3. ASSUME NEW p \in Procs, ReplaceTarget(p)
        PROVE  PersistInv'
    <3> USE DEF ReplaceTarget, load, PersistGoto
    <3> DEFINE new == [call |-> own[p], whole |-> synced[p]]
               Files == [call : Nat, whole : BOOLEAN]
    <3>1. new \in Files /\ files \in Seq(Files) /\ files' = Append(files, new)
      BY Zenon, <2>3 DEF PersistTypes
    <3>2. new.call = own[p] /\ own[p] \in 1 .. calls
      BY <2>3, PersistNumbers DEF OwnCalls, Early
    <3>3. /\ files' \in Seq(Files)
          /\ Len(files') = Len(files) + 1 /\ files'[Len(files) + 1] = new
          /\ \A i \in 1 .. Len(files) : files'[i] = files[i]
      <4> HIDE DEF new, Files
      <4> QED BY <3>1
    <3>4. /\ \A i \in 1 .. Len(files) : files'[i].call = files[i].call
          /\ files'[Len(files) + 1].call = own[p]
          /\ DOMAIN files' = 1 .. Len(files')
      BY <3>2, <3>3
    <3>5. PersistTypes'
      BY Zenon, <2>3, <3>3 DEF PersistTypes, PersistPlaces
    <3> HIDE DEF new, Files
    <3>6. OwnCalls'
      BY Zenon, <2>3 DEF OwnCalls, PersistTypes, Early, Late
    <3>7. FilesCalled'
      BY <2>3, <3>2, <3>3, <3>4, PersistNumbers DEF FilesCalled
    <3>8. Progress'
      <4> SUFFICES ASSUME NEW q \in Procs
                   PROVE  /\ persistPc'[q] \in Early => \A i \in 1 .. Len(files') : files'[i].call # own[q]
                          /\ persistPc'[q] = "replaced" => \E i \in 1 .. Len(files') : files'[i].call = own[q]
                          /\ persistPc'[q] = "confirmed" => \E i \in 1 .. durable : files'[i].call = own[q]
        BY Zenon, <2>3 DEF Progress
      <4>1. CASE q = p
        <5>1. persistPc'[q] = "replaced"
          BY Zenon, <2>3, <4>1 DEF PersistTypes
        <5> QED BY <3>3, <3>4, <4>1, <5>1, PersistNumbers DEF Early
      <4>2. CASE q # p
        <5>1. persistPc'[q] = persistPc[q]
          BY Zenon, <2>3, <4>2 DEF PersistTypes
        <5>2. persistPc[q] \in Early => own[q] # own[p]
          BY Zenon, <3>2, <4>2, PersistNumbers DEF OwnCalls
        <5>3. \A i \in 1 .. Len(files') : i \in 1 .. Len(files) \/ i = Len(files) + 1
          BY <3>3, PersistNumbers
        <5>4. 1 .. Len(files) \subseteq 1 .. Len(files') /\ 1 .. durable \subseteq 1 .. Len(files)
          BY <3>3, PersistNumbers
        <5>5. persistPc'[q] \in Early => \A i \in 1 .. Len(files') : files'[i].call # own[q]
          BY <3>4, <5>1, <5>2, <5>3 DEF Progress
        <5>6. persistPc'[q] = "replaced" => \E i \in 1 .. Len(files') : files'[i].call = own[q]
          BY Zenon, <3>4, <5>1, <5>4 DEF Progress
        <5>7. persistPc'[q] = "confirmed" => \E i \in 1 .. durable : files'[i].call = own[q]
          BY Zenon, <3>4, <5>1, <5>4 DEF Progress
        <5> QED BY Zenon, <5>5, <5>6, <5>7
      <4> QED BY Zenon, <4>1, <4>2
    <3>9. LoadsAhead'
      BY <2>3, <3>3, PersistNumbers DEF LoadsAhead, PersistTypes
    <3>10. ConfirmedSurvives'
      BY <2>3, <3>4, PersistNumbers DEF ConfirmedSurvives
    <3>11. CleanErrorLeavesNoTrace'
      BY <2>3, <3>2, <3>3, <3>4, PersistNumbers DEF CleanErrorLeavesNoTrace, Replaced, OwnCalls
    <3> QED BY <2>3, <3>3, <3>5, <3>6, <3>7, <3>8, <3>9, <3>10, <3>11, PersistNumbers
  <2>4. ASSUME NEW p \in Procs, FsyncDirectory(p)
        PROVE  PersistInv'
    <3> USE DEF FsyncDirectory, load, PersistGoto
    <3>1. PersistTypes'
      BY Zenon, <2>4, PersistNumbers DEF PersistTypes, PersistPlaces
    <3>2. OwnCalls'
      BY Zenon, <2>4 DEF OwnCalls, PersistTypes, Early, Late
    <3>3. FilesCalled'
      BY Zenon, <2>4 DEF FilesCalled
    <3>4. Progress'
      <4>1. \A q \in Procs : persistPc'[q] = persistPc[q] \/ (persistPc[q] = "replaced" /\ persistPc'[q] = "confirmed")
        BY Zenon, <2>4 DEF PersistTypes
      <4>2. UNCHANGED <<files, own>> /\ durable' = Len(files)
        BY Zenon, <2>4
      <4> QED BY <4>1, <4>2, PersistNumbers DEF Progress, Early
    <3>5. LoadsAhead'
      BY Zenon, <2>4 DEF LoadsAhead, PersistTypes
    <3>6. ConfirmedSurvives'
      BY <2>4, PersistNumbers DEF ConfirmedSurvives
    <3> QED BY <2>4, <3>1, <3>2, <3>3, <3>4, <3>5, <3>6, PersistNumbers DEF CleanErrorLeavesNoTrace, Replaced
  <2>5. ASSUME NEW p \in Procs, FailBeforeReplace(p) \/ FailAfterReplace(p) \/ ReturnUnit(p)
        PROVE  PersistInv'
    <3>1. PICK r \in {"error", "uncertain", "ok"} :
            /\ commitResult' = [commitResult EXCEPT ![own[p]] = r]
            /\ r = "error" => persistPc[p] \in Early
            /\ r = "ok" => persistPc[p] = "confirmed"
      BY Zenon, <2>5 DEF FailBeforeReplace, FailAfterReplace, ReturnUnit, Early
    <3>2. LeaveCall({p}) /\ UNCHANGED <<files, durable, calls>>
      BY Zenon, <2>5 DEF FailBeforeReplace, FailAfterReplace, ReturnUnit, file
    <3>3. commitResult' \in [Commits -> Results]
      BY Zenon, <3>1 DEF PersistTypes, Results
    <3>4. \A c \in Commits : commitResult'[c] # commitResult[c] => own[p] = c /\ commitResult'[c] = r
      BY Zenon, <3>1 DEF PersistTypes
    <3> QED BY Zenon, <3>1, <3>2, <3>3, <3>4, LeavingKeepsFiles
  <2>6. ASSUME NEW p \in Procs, EndLoad(p)
        PROVE  PersistInv'
    BY Zenon, <2>6, LeavingKeepsFiles DEF EndLoad, file, PersistTypes
  <2>7. ASSUME NEW p \in Procs, KillCaller(p)
        PROVE  PersistInv'
    <3>1. commitResult' \in [Commits -> Results]
      BY Zenon, <2>7 DEF KillCaller, Lost, PersistTypes, Results
    <3>2. \A c \in Commits : commitResult'[c] # commitResult[c] => own[p] = c /\ commitResult'[c] = "died"
      BY Zenon, <2>7 DEF KillCaller, Lost
    <3> QED BY Zenon, <2>7, <3>1, <3>2, LeavingKeepsFiles DEF KillCaller, file
  <2>8. ASSUME NEW p \in Procs, StartLoad(p) \/ OpenLoad(p) \/ StatLoad(p)
        PROVE  PersistInv'
    <3> USE DEF StartLoad, OpenLoad, StatLoad, file, temp, load, PersistGoto
    <3>1. PersistTypes'
      BY ZenonT(30), <2>8, PersistNumbers DEF PersistTypes, PersistPlaces
    <3>2. OwnCalls'
      BY <2>8 DEF OwnCalls, PersistTypes, Early, Late
    <3>3. FilesCalled'
      BY Zenon, <2>8 DEF FilesCalled
    <3>4. Progress'
      <4>1. \A q \in Procs : persistPc'[q] = persistPc[q] \/ persistPc'[q] \in Loading
        BY Zenon, <2>8 DEF PersistTypes, Loading
      <4>2. UNCHANGED <<files, durable, own>>
        BY Zenon, <2>8
      <4> QED BY Zenon, <4>1, <4>2 DEF Progress, Early, Loading
    <3>5. LoadsAhead'
      <4>1. CASE StartLoad(p)
        BY <4>1, PersistNumbers DEF LoadsAhead, PersistTypes
      <4>2. CASE OpenLoad(p)
        BY <4>2, PersistNumbers DEF LoadsAhead, PersistTypes
      <4>3. CASE StatLoad(p)
        BY Zenon, <4>3, PersistNumbers DEF LoadsAhead, PersistTypes
      <4> QED BY Zenon, <2>8, <4>1, <4>2, <4>3
    <3> QED BY Zenon, <2>8, <3>1, <3>2, <3>3, <3>4, <3>5 DEF ConfirmedSurvives, CleanErrorLeavesNoTrace, Replaced
  <2>9. ASSUME NEW n \in 0 .. Len(files), NEW damage \in BOOLEAN, PersistPowerLoss(n, damage)
        PROVE  PersistInv'
    <3> DEFINE Files == [call : Nat, whole : BOOLEAN]
    <3>1. files \in Seq(Files) /\ files' = SubSeq(files, 1, n) /\ n >= durable /\ durable' = n
      BY <2>9 DEF PersistTypes, PersistPowerLoss
    <3>2. /\ files' \in Seq(Files) /\ Len(files') = n
          /\ \A i \in 1 .. n : files'[i] = files[i]
          /\ DOMAIN files' = 1 .. n
      <4> HIDE DEF Files
      <4> QED BY <3>1, PersistNumbers
    <3>3. commitResult' \in [Commits -> Results] /\ calls' = calls
      BY Zenon, <2>9 DEF PersistPowerLoss, Lost, PersistTypes, Results
    <3>4. \A c \in Commits : commitResult'[c] # commitResult[c] =>
            commitResult'[c] = "died" /\ \E p \in Procs : own[p] = c
      BY Zenon, <2>9 DEF PersistPowerLoss, Lost
    <3>5. \A p \in Procs : /\ persistPc'[p] = "idle" /\ own'[p] = 0
                           /\ began'[p] = 0 /\ fd'[p] = 0
      BY Zenon, <2>9 DEF PersistPowerLoss, LeaveCall
    <3>6. PersistTypes'
      BY <2>9, <3>1, <3>2, <3>3, PersistNumbers DEF PersistTypes, PersistPowerLoss, LeaveCall, PersistPlaces
    <3>7. OwnCalls'
      BY <3>3, <3>4, <3>5, PersistNumbers DEF OwnCalls, Early, Late, Commits
    <3>8. FilesCalled'
      BY <3>2, <3>3, PersistNumbers DEF FilesCalled
    <3>9. Progress' /\ LoadsAhead'
      BY <3>2, <3>5 DEF Progress, LoadsAhead, Early
    <3>10. ConfirmedSurvives'
      <4> SUFFICES ASSUME NEW c \in Commits, commitResult'[c] = "ok"
                   PROVE  \E i \in 1 .. n : files'[i].call = c
        BY Zenon, <3>1 DEF ConfirmedSurvives
      <4>1. commitResult[c] = "ok"
        BY Zenon, <3>4
      <4>2. PICK i \in 1 .. durable : files[i].call = c
        BY Zenon, <4>1 DEF ConfirmedSurvives
      <4>3. i \in 1 .. n
        BY <3>1, PersistNumbers
      <4> QED BY Zenon, <3>2, <4>2, <4>3
    <3>11. CleanErrorLeavesNoTrace'
      BY <3>2, <3>4, PersistNumbers DEF CleanErrorLeavesNoTrace, Replaced
    <3> QED BY <3>1, <3>2, <3>6, <3>7, <3>8, <3>9, <3>10, <3>11
  <2>10. CASE UNCHANGED persistVars
    BY <2>10 DEF persistVars, PersistTypes, OwnCalls, FilesCalled, Progress, LoadsAhead,
      ConfirmedSurvives, CleanErrorLeavesNoTrace, Replaced
  <2> QED BY Zenon, <2>1, <2>2, <2>3, <2>4, <2>5, <2>6, <2>7, <2>8, <2>9, <2>10 DEF PersistNext, Step
<1> QED BY <1>1, <1>2, PTL

\* A commit that returned normally survives every later power loss, kill and rival
\* commit (PersistCaps.commit).
THEOREM CommitsSurvive == PersistSpec => []ConfirmedSurvives
BY PersistInductive, PTL DEF PersistSpec, PersistInv

\* A call that returned a clean error never becomes visible (the KS3423 boundary of
\* PersistCaps.commit).
THEOREM CleanErrors == PersistSpec => []CleanErrorLeavesNoTrace
BY PersistInductive, PTL DEF PersistSpec, PersistInv

\* A load returns the state object as it was when the load began, or a later one.
THEOREM LoadsAreFresh == PersistSpec => []LoadNotStale
<1>1. PersistInv => LoadNotStale
  BY PersistNumbers DEF PersistInv, LoadsAhead, LoadNotStale
<1> QED BY <1>1, PersistInductive, PTL DEF PersistSpec

\* What is closed for the rename, and what was renamed, is on disk.
OnDisk ==
  /\ \A p \in Procs : persistPc[p] = "closed" => synced[p]
  /\ \A i \in 1 .. Len(files) : files[i].whole

\* No power loss leaves a partly written state object: a file is synced before it
\* is renamed.
THEOREM WholePayloads == PersistSpec => []NeverTorn
<1>1. PersistInit => OnDisk /\ NeverTorn
  BY DEF PersistInit, OnDisk, NeverTorn
<1>2. PersistInv /\ OnDisk /\ NeverTorn /\ [PersistNext]_persistVars => OnDisk' /\ NeverTorn'
  <2> SUFFICES ASSUME PersistInv, OnDisk, NeverTorn, [PersistNext]_persistVars
               PROVE  OnDisk' /\ NeverTorn'
    BY Zenon
  <2>1. ASSUME NEW p \in Procs, FsyncTemp(p)
        PROVE  OnDisk' /\ NeverTorn'
    <3>1. \A q \in Procs : /\ q = p => synced'[q]
                           /\ q # p => persistPc'[q] = persistPc[q] /\ synced'[q] = synced[q]
      BY Zenon, <2>1 DEF FsyncTemp, PersistGoto, PersistInv, PersistTypes
    <3>2. UNCHANGED <<files, torn>>
      BY Zenon, <2>1 DEF FsyncTemp, file
    <3>3. \A q \in Procs : persistPc'[q] = "closed" => synced'[q]
      BY <3>1, Zenon DEF OnDisk
    <3> QED BY Zenon, <3>2, <3>3 DEF OnDisk, NeverTorn
  <2>2. ASSUME NEW p \in Procs, ReplaceTarget(p)
        PROVE  OnDisk' /\ NeverTorn'
    <3> DEFINE new == [call |-> own[p], whole |-> synced[p]]
               Files == [call : Nat, whole : BOOLEAN]
    <3>1. new \in Files /\ files \in Seq(Files) /\ files' = Append(files, new)
      BY Zenon, <2>2 DEF PersistInv, PersistTypes, ReplaceTarget
    <3>2. /\ Len(files') = Len(files) + 1 /\ files'[Len(files) + 1] = new
          /\ \A i \in 1 .. Len(files) : files'[i] = files[i]
      <4> HIDE DEF new, Files
      <4> QED BY <3>1
    <3>3. new.whole = synced[p] /\ synced[p]
      BY Zenon, <2>2 DEF OnDisk, ReplaceTarget
    <3>4. \A i \in 1 .. Len(files') : i \in 1 .. Len(files) \/ i = Len(files) + 1
      BY <3>2, PersistNumbers
    <3>5. \A i \in 1 .. Len(files') : files'[i].whole
      <4> HIDE DEF new
      <4> QED BY <3>2, <3>3, <3>4, Zenon DEF OnDisk
    <3>6. \A q \in Procs : persistPc'[q] = "closed" => persistPc[q] = "closed" /\ synced'[q] = synced[q]
      BY Zenon, <2>2 DEF ReplaceTarget, PersistGoto, PersistInv, PersistTypes
    <3>7. \A q \in Procs : persistPc'[q] = "closed" => synced'[q]
      BY <3>6, Zenon DEF OnDisk
    <3>8. NeverTorn'
      BY Zenon, <2>2 DEF ReplaceTarget, NeverTorn
    <3> QED BY <3>5, <3>7, <3>8, Zenon DEF OnDisk
  <2>3. ASSUME NEW n \in 0 .. Len(files), NEW damage \in BOOLEAN, PersistPowerLoss(n, damage)
        PROVE  OnDisk' /\ NeverTorn'
    <3>1. n > 0 => files[n].whole
      BY PersistNumbers DEF OnDisk
    <3>2. torn' = (torn \/ (damage /\ n > 0 /\ ~files[n].whole))
      BY Zenon, <2>3 DEF PersistPowerLoss
    <3>3. NeverTorn'
      BY <3>1, <3>2, Zenon DEF NeverTorn
    <3> DEFINE Files == [call : Nat, whole : BOOLEAN]
    <3>4. files \in Seq(Files) /\ files' = SubSeq(files, 1, n)
      BY Zenon, <2>3 DEF PersistInv, PersistTypes, PersistPowerLoss
    <3>5. Len(files') = n /\ \A i \in 1 .. n : files'[i] = files[i]
      <4> HIDE DEF Files
      <4> QED BY <3>4, PersistNumbers
    <3>6. 1 .. n \subseteq 1 .. Len(files)
      BY PersistNumbers
    <3>7. \A i \in 1 .. Len(files') : files'[i].whole
      BY <3>5, <3>6, Zenon DEF OnDisk
    <3>8. \A q \in Procs : persistPc'[q] # "closed"
      BY Zenon, <2>3 DEF PersistPowerLoss, LeaveCall
    <3> QED BY <3>3, <3>7, <3>8, Zenon DEF OnDisk
  <2>4. ASSUME UNCHANGED <<files, torn>>,
               \A q \in Procs : persistPc'[q] = "closed" =>
                 persistPc[q] = "closed" /\ synced'[q] = synced[q]
        PROVE  OnDisk' /\ NeverTorn'
    <3>1. \A q \in Procs : persistPc'[q] = "closed" => synced'[q]
      BY <2>4, Zenon DEF OnDisk
    <3> QED BY Zenon, <2>4, <3>1 DEF OnDisk, NeverTorn
  <2>5. ASSUME NEW p \in Procs,
               CreateTemp(p) \/ WriteTemp(p) \/ FsyncDirectory(p) \/ StartLoad(p) \/ OpenLoad(p) \/ StatLoad(p)
        PROVE  OnDisk' /\ NeverTorn'
    BY Zenon, <2>4, <2>5 DEF CreateTemp, WriteTemp, FsyncDirectory, StartLoad, OpenLoad, StatLoad, file,
      temp, PersistGoto, PersistInv, PersistTypes
  <2>6. ASSUME NEW p \in Procs,
               FailBeforeReplace(p) \/ FailAfterReplace(p) \/ ReturnUnit(p) \/ EndLoad(p) \/ KillCaller(p)
        PROVE  OnDisk' /\ NeverTorn'
    BY Zenon, <2>4, <2>6 DEF FailBeforeReplace, FailAfterReplace, ReturnUnit, EndLoad, KillCaller, file, LeaveCall
  <2>7. CASE UNCHANGED persistVars
    BY Zenon, <2>4, <2>7 DEF persistVars
  <2> QED BY Zenon, <2>1, <2>2, <2>3, <2>5, <2>6, <2>7 DEF PersistNext, Step
<1> QED BY <1>1, <1>2, PersistInductive, PTL DEF PersistSpec

-----------------------------------------------------------------------------
(* Native reality.                                                         *)

BeforeSwitch == {"sources", "capsule", "switch"}
AfterSwitch == {"switched", "cleanup"}

\* The files of the epoch that a reader opens.
Current == IF env.epoch = 0 THEN {} ELSE Needed(env)

\* Any envelope that a power loss may leave can be loaded, before and after the
\* loss, and is not older than what a caller was told.
EnvelopesHold ==
  /\ env \in envs
  /\ \A e \in envs :
       /\ e.epoch <= env.epoch /\ e.alias <= attempts
       /\ e.epoch > 0 => Needed(e) \subseteq matter \cap matterDisk
       /\ e.epoch >= realityTold.epoch
       /\ e.epoch = realityTold.epoch => e = realityTold

WinsHold ==
  \A e \in 1 .. MaxRealityEpoch :
    /\ realityWins[e] <= 1
    /\ realityWins[e] = 1 => \A x \in envs : e <= x.epoch

\* How far a transition is shows in matter/ and in the envelopes.
TransitionHolds ==
  /\ ~realityLayout => env.epoch = 0
  /\ step # "none" => alias = attempts /\ realityLayout
  /\ step \in BeforeSwitch =>
       /\ \A e \in envs : e.alias < alias
       /\ oldAlias = env.alias /\ env.epoch < MaxRealityEpoch
       /\ written \subseteq Objects /\ (capsule => graph)
       /\ WrittenMatter(env.epoch + 1) \subseteq matter
  /\ step = "capsule" => graph
  /\ step \in {"capsule", "switch"} => written = Objects
  /\ step = "switch" => (graph => capsule) /\ matterDisk = matter
  /\ step \in AfterSwitch =>
       /\ env.alias = alias /\ oldAlias < alias /\ env.epoch > 0
       /\ realityWins[env.epoch] = 0
  /\ step = "cleanup" => envs = {env}

\* While nothing died, matter/ holds nothing but what it should.
MatterHolds ==
  realityClean =>
    /\ step = "none" => matter = Current
    /\ step \in BeforeSwitch => matter = Current \cup WrittenMatter(env.epoch + 1)
    /\ step \in AfterSwitch => matter \subseteq Needed(env) \cup ReplacedMatter

RealityInv == RealityTypeOK /\ EnvelopesHold /\ WinsHold /\ TransitionHolds /\ MatterHolds

\* A source and a capsule are told apart, and by their names.
LEMMA EntryFields ==
  /\ \A o, a, v : SourceEntry(o, a, v).kind = o /\ SourceEntry(o, a, v).name = a
  /\ \A n, a : CapsuleOf(n, a).kind = Capsule /\ CapsuleOf(n, a).name = n
BY Zenon DEF SourceEntry, CapsuleOf

\* What the files of an epoch are called.
LEMMA FilesNames ==
  ASSUME NEW w \in SUBSET Object, NEW c, NEW a, NEW v, NEW n,
         NEW x \in FilesOf(w, c, a, v, n)
  PROVE  \/ x.kind # Capsule /\ x.name = a
         \/ x.kind = Capsule /\ x.name = n
<1>1. CASE \E o \in w : x = SourceEntry(o, a, v)
  <2>1. PICK o \in w : x = SourceEntry(o, a, v)
    BY Zenon, <1>1
  <2>2. o # Capsule
    BY Zenon, RealityAssumption
  <2> QED
    BY <2>1, <2>2, EntryFields
<1>2. CASE x = CapsuleOf(n, a)
  BY <1>2, EntryFields
<1> QED
  BY Zenon, <1>1, <1>2 DEF FilesOf

\* Files under different aliases and of different epochs are different files.
LEMMA FilesApart ==
  ASSUME NEW w \in SUBSET Object, NEW c, NEW a, NEW v, NEW n,
         NEW w2 \in SUBSET Object, NEW c2, NEW a2, NEW v2, NEW n2,
         a # a2, n # n2
  PROVE  FilesOf(w, c, a, v, n) \cap FilesOf(w2, c2, a2, v2, n2) = {}
<1>1. SUFFICES ASSUME NEW x \in FilesOf(w, c, a, v, n), x \in FilesOf(w2, c2, a2, v2, n2)
               PROVE  FALSE
  BY Zenon
<1>2. (x.kind # Capsule /\ x.name = a) \/ (x.kind = Capsule /\ x.name = n)
  BY FilesNames
<1>3. (x.kind # Capsule /\ x.name = a2) \/ (x.kind = Capsule /\ x.name = n2)
  BY <1>1, FilesNames
<1> QED
  BY Zenon, <1>2, <1>3

\* A transition that has just started has written nothing.
LEMMA NoFiles == \A a, v, n : FilesOf({}, FALSE, a, v, n) = {}
BY Zenon DEF FilesOf

\* They are entries of matter/.
LEMMA FilesType ==
  ASSUME NEW a \in Nat, NEW v \in Nat, NEW n \in Nat
  PROVE  /\ \A o \in Object : SourceEntry(o, a, v) \in Entry
         /\ CapsuleOf(n, a) \in Entry
BY Zenon DEF SourceEntry, CapsuleOf, Entry

\* Starting, creating included: nothing on disk changes.
LEMMA StartKeeps ==
  ASSUME RealityInv, NEW w \in Writer, NEW v \in Version, StartTransition(w, v),
         realityLayout' = TRUE, env.epoch < MaxRealityEpoch
  PROVE  RealityInv'
<1> USE RealityAssumption DEF StartTransition, realityHistory
<1>1. RealityTypeOK'
  <2>1. attempts + 1 \in 0 .. MaxAttempt
    BY DEF RealityInv, RealityTypeOK
  <2>2. env.alias \in 0 .. MaxAttempt
    BY Zenon DEF RealityInv, RealityTypeOK, Envelope
  <2> QED
    BY Zenon, <2>1, <2>2 DEF RealityInv, RealityTypeOK, Steps
<1>2. EnvelopesHold'
  <2>1. \A e \in envs : e.alias <= attempts + 1
    BY DEF RealityInv, RealityTypeOK, Envelope, EnvelopesHold
  <2>2. Objects' = Objects
    BY Zenon DEF Objects
  <2> QED
    BY Zenon, <2>1, <2>2 DEF RealityInv, EnvelopesHold, Needed
<1>3. WinsHold'
  BY Zenon DEF RealityInv, WinsHold
<1>4. TransitionHolds'
  <2>1. \A e \in envs : e.alias \in Nat /\ e.alias < attempts + 1
    BY DEF RealityInv, RealityTypeOK, Envelope, EnvelopesHold
  <2>2. WrittenMatter(env.epoch + 1)' = {}
    BY Zenon, NoFiles DEF WrittenMatter
  <2> QED
    BY Zenon, <2>1, <2>2 DEF TransitionHolds, BeforeSwitch, AfterSwitch
<1>5. MatterHolds'
  <2>1. WrittenMatter(env.epoch + 1)' = {}
    BY Zenon, NoFiles DEF WrittenMatter
  <2>2. step = "none"
    BY Zenon DEF RealityInv, RealityTypeOK
  <2>3. Current' = Current
    BY Zenon DEF Current, Needed, Objects
  <2> QED
    BY Zenon, <2>1, <2>2, <2>3 DEF RealityInv, MatterHolds, BeforeSwitch, AfterSwitch
<1> QED
  BY Zenon, <1>1, <1>2, <1>3, <1>4, <1>5 DEF RealityInv

LEMMA ObjectsAreObjects == Objects \subseteq Object
BY Zenon, RealityAssumption DEF Objects

\* The envelopes hold as long as their files are not touched.
LEMMA EnvelopesStay ==
  ASSUME EnvelopesHold, UNCHANGED <<graph, env, envs, attempts, realityTold>>,
         \A e \in envs : e.epoch > 0 => Needed(e) \subseteq matter' \cap matterDisk'
  PROVE  EnvelopesHold'
<1>1. Objects' = Objects
  BY Zenon DEF Objects
<1> QED
  BY Zenon, <1>1 DEF EnvelopesHold, Needed

LEMMA WriteSourceKeeps ==
  ASSUME RealityInv, NEW o \in Object, WriteSource(o)
  PROVE  RealityInv'
<1> USE DEF WriteSource, realityHistory
<1> DEFINE x == SourceEntry(o, alias, text)
<1>1. o \in Object /\ Objects' = Objects /\ step = "sources"
  BY Zenon DEF Objects
<1>2. WrittenMatter(env.epoch + 1)' = WrittenMatter(env.epoch + 1) \cup {x}
  <2>1. FilesOf(written \cup {o}, capsule, alias, text, env.epoch + 1)
          = FilesOf(written, capsule, alias, text, env.epoch + 1) \cup {x}
    BY Zenon DEF FilesOf
  <2> QED
    BY Zenon, <2>1 DEF WrittenMatter
<1>3. RealityTypeOK'
  <2>1. alias \in Nat /\ text \in Nat
    BY RealityAssumption DEF RealityInv, RealityTypeOK
  <2>2. x \in Entry
    BY Zenon, <2>1, FilesType
  <2> HIDE DEF x
  <2> QED
    BY Zenon, <1>1, <2>2 DEF RealityInv, RealityTypeOK, x
<1>4. EnvelopesHold'
  BY Zenon, EnvelopesStay DEF RealityInv, EnvelopesHold
<1>5. WinsHold'
  BY Zenon DEF RealityInv, WinsHold
<1>6. TransitionHolds'
  BY Zenon, <1>1, <1>2 DEF RealityInv, TransitionHolds, BeforeSwitch, AfterSwitch
<1>7. MatterHolds'
  <2>1. Current' = Current
    BY Zenon, <1>1 DEF Current, Needed
  <2> QED
    BY Zenon, <1>1, <1>2, <2>1 DEF RealityInv, MatterHolds, BeforeSwitch, AfterSwitch
<1> QED
  BY Zenon, <1>3, <1>4, <1>5, <1>6, <1>7 DEF RealityInv

LEMMA SyncMatterKeeps ==
  ASSUME RealityInv, SyncMatter
  PROVE  RealityInv'
<1> USE DEF SyncMatter, realityHistory
<1>1. /\ Objects' = Objects /\ step \in {"sources", "capsule"}
      /\ step' \in {"capsule", "switch"} /\ written = Objects
      /\ step' = "switch" => (graph => capsule)
      /\ step' = "capsule" => graph
  BY Zenon DEF Objects, RealityInv, TransitionHolds
<1>2. WrittenMatter(env.epoch + 1)' = WrittenMatter(env.epoch + 1)
  BY Zenon DEF WrittenMatter
<1>3. RealityTypeOK'
  BY Zenon, <1>1 DEF RealityInv, RealityTypeOK, Steps
<1>4. EnvelopesHold'
  BY Zenon, EnvelopesStay DEF RealityInv, EnvelopesHold
<1>5. WinsHold'
  BY Zenon DEF RealityInv, WinsHold
<1>6. TransitionHolds'
  BY Zenon, <1>1, <1>2 DEF RealityInv, TransitionHolds, BeforeSwitch, AfterSwitch
<1>7. MatterHolds'
  <2>1. Current' = Current
    BY Zenon, <1>1 DEF Current, Needed
  <2> QED
    BY Zenon, <1>1, <1>2, <2>1 DEF RealityInv, MatterHolds, BeforeSwitch, AfterSwitch
<1> QED
  BY Zenon, <1>3, <1>4, <1>5, <1>6, <1>7 DEF RealityInv

LEMMA WriteCapsuleKeeps ==
  ASSUME RealityInv, WriteCapsule
  PROVE  RealityInv'
<1> USE DEF WriteCapsule, CapsuleDue, realityHistory
<1> DEFINE x == CapsuleOf(env.epoch + 1, alias)
<1>1. /\ Objects' = Objects /\ step \in {"sources", "capsule"} /\ written = Objects
      /\ graph /\ ~capsule
  BY Zenon DEF Objects, RealityInv, TransitionHolds
<1>2. WrittenMatter(env.epoch + 1)' = WrittenMatter(env.epoch + 1) \cup {x}
  <2>1. capsule = FALSE
    BY Zenon, <1>1 DEF RealityInv, RealityTypeOK
  <2>2. FilesOf(written, TRUE, alias, text, env.epoch + 1)
          = FilesOf(written, FALSE, alias, text, env.epoch + 1) \cup {x}
    BY Zenon DEF FilesOf
  <2> QED
    BY Zenon, <2>1, <2>2 DEF WrittenMatter
<1>3. RealityTypeOK'
  <2>1. alias \in Nat /\ env.epoch + 1 \in Nat /\ 0 \in Nat
    BY RealityAssumption DEF RealityInv, RealityTypeOK, Envelope
  <2>2. x \in Entry
    BY Zenon, <2>1, FilesType
  <2> HIDE DEF x
  <2> QED
    BY Zenon, <1>1, <2>2 DEF RealityInv, RealityTypeOK, Steps, x
<1>4. EnvelopesHold'
  BY Zenon, EnvelopesStay DEF RealityInv, EnvelopesHold
<1>5. WinsHold'
  BY Zenon DEF RealityInv, WinsHold
<1>6. TransitionHolds'
  BY Zenon, <1>1, <1>2 DEF RealityInv, TransitionHolds, BeforeSwitch, AfterSwitch
<1>7. MatterHolds'
  <2>1. Current' = Current
    BY Zenon, <1>1 DEF Current, Needed
  <2> QED
    BY Zenon, <1>1, <1>2, <2>1 DEF RealityInv, MatterHolds, BeforeSwitch, AfterSwitch
<1> QED
  BY Zenon, <1>3, <1>4, <1>5, <1>6, <1>7 DEF RealityInv

\* The envelopes' fields are numbers.
LEMMA EnvelopeTypes ==
  ASSUME RealityInv
  PROVE  /\ \A e \in envs \cup {env, realityTold} : e.epoch \in Nat /\ e.alias \in Nat
         /\ alias \in Nat /\ oldAlias \in Nat /\ attempts \in Nat
BY RealityAssumption DEF RealityInv, RealityTypeOK, Envelope

LEMMA SwitchKeeps ==
  ASSUME RealityInv, SwitchEnvelope
  PROVE  RealityInv'
<1> USE DEF SwitchEnvelope, realityHistory
<1>1. NextEnv.epoch = env.epoch + 1 /\ NextEnv.alias = alias /\ NextEnv.ver = text
  BY Zenon DEF NextEnv
<1>2. Objects' = Objects /\ step \in BeforeSwitch
  BY Zenon DEF Objects, BeforeSwitch
<1>3. Needed(NextEnv) = WrittenMatter(env.epoch + 1)
  <2>1. graph = capsule
    <3>1. graph <=> capsule
      BY Zenon, <1>2 DEF RealityInv, TransitionHolds
    <3>2. graph \in BOOLEAN /\ capsule \in BOOLEAN
      BY Zenon DEF RealityInv, RealityTypeOK
    <3> QED
      BY <3>1, <3>2, Zenon
  <2>2. written = Objects
    BY Zenon DEF RealityInv, TransitionHolds
  <2> QED
    BY Zenon, <1>1, <2>1, <2>2 DEF Needed, WrittenMatter
<1>4. Needed(NextEnv) \subseteq matter \cap matterDisk
  BY Zenon, <1>2, <1>3 DEF RealityInv, TransitionHolds
<1>5. env.epoch \in Nat /\ env.epoch < MaxRealityEpoch /\ \A e \in envs : e.alias < alias
  BY Zenon, <1>2, EnvelopeTypes DEF RealityInv, TransitionHolds
<1> HIDE DEF NextEnv
<1>6. RealityTypeOK'
  <2>1. NextEnv \in Envelope
    BY SMTT(30), <1>5, RealityAssumption DEF RealityInv, RealityTypeOK, Envelope, NextEnv
  <2> QED
    BY Zenon, <2>1 DEF RealityInv, RealityTypeOK, Steps
<1>7. EnvelopesHold'
  <2>1. SUFFICES ASSUME NEW e \in envs \cup {NextEnv}
                 PROVE  /\ e.epoch <= NextEnv.epoch /\ e.alias <= attempts
                        /\ e.epoch > 0 => Needed(e) \subseteq matter \cap matterDisk
                        /\ e.epoch >= realityTold.epoch
                        /\ e.epoch = realityTold.epoch => e = realityTold
    BY Zenon, <1>2 DEF EnvelopesHold, Needed
  <2>2. CASE e \in envs
    BY <2>2, <1>1, EnvelopeTypes DEF RealityInv, EnvelopesHold
  <2>3. CASE e = NextEnv
    <3>1. alias = attempts
      BY Zenon, <1>2 DEF RealityInv, TransitionHolds, BeforeSwitch
    <3>2. env.epoch >= realityTold.epoch
      BY Zenon DEF RealityInv, EnvelopesHold
    <3> QED
      BY <2>3, <3>1, <3>2, <1>1, <1>4, EnvelopeTypes
  <2> QED
    BY Zenon, <2>2, <2>3
<1>8. WinsHold'
  <2>1. ASSUME NEW e \in 1 .. MaxRealityEpoch, realityWins[e] = 1
        PROVE  e <= env.epoch + 1
    BY <2>1, <1>5 DEF RealityInv, WinsHold, EnvelopesHold
  <2> QED
    BY Zenon, <2>1, <1>1 DEF RealityInv, WinsHold
<1>9. TransitionHolds'
  <2>1. realityWins[env.epoch + 1] = 0
    <3>1. env.epoch + 1 \in 1 .. MaxRealityEpoch
      BY <1>5, RealityAssumption
    <3>2. realityWins[env.epoch + 1] \in Nat
      BY <3>1 DEF RealityInv, RealityTypeOK
    <3>3. realityWins[env.epoch + 1] # 1
      BY <3>1, <1>5 DEF RealityInv, WinsHold, EnvelopesHold
    <3> QED
      BY <3>1, <3>2, <3>3 DEF RealityInv, WinsHold
  <2>2. oldAlias < alias
    BY Zenon, <1>2, <1>5 DEF RealityInv, TransitionHolds, EnvelopesHold
  <2>3. alias = attempts /\ realityLayout
    BY Zenon, <1>2 DEF RealityInv, TransitionHolds, BeforeSwitch
  <2> QED
    BY <1>1, <1>5, <2>1, <2>2, <2>3 DEF RealityInv, TransitionHolds, BeforeSwitch, AfterSwitch
<1>10. MatterHolds'
  <2>1. Needed(env)' = Needed(NextEnv)
    BY Zenon, <1>2 DEF Needed
  <2>2. ASSUME NEW x \in Current
        PROVE  x \in matter => x \in ReplacedMatter'
    <3>1. x \in FilesOf(Objects, graph, env.alias, env.ver, env.epoch)
      BY Zenon DEF Current, Needed
    <3>2. \/ x.kind # Capsule /\ x.name = env.alias
          \/ x.kind = Capsule /\ x.name = env.epoch
      BY <3>1, FilesNames, ObjectsAreObjects
    <3>3. oldAlias = env.alias /\ NextEnv.epoch - 1 = env.epoch
      BY <1>1, <1>2, <1>5 DEF RealityInv, TransitionHolds
    <3> QED
      BY Zenon, <3>2, <3>3 DEF ReplacedMatter
  <2> QED
    BY Zenon, <1>2, <1>3, <2>1, <2>2 DEF RealityInv, MatterHolds, BeforeSwitch, AfterSwitch
<1> QED
  BY Zenon, <1>6, <1>7, <1>8, <1>9, <1>10 DEF RealityInv

LEMMA SyncRealityKeeps ==
  ASSUME RealityInv, SyncReality
  PROVE  RealityInv'
<1> USE DEF SyncReality, realityHistory
<1>1. Objects' = Objects
  BY Zenon DEF Objects
<1>2. RealityTypeOK'
  BY Zenon DEF RealityInv, RealityTypeOK, Steps
<1>3. EnvelopesHold'
  BY Zenon, <1>1 DEF RealityInv, EnvelopesHold, Needed
<1>4. WinsHold'
  BY Zenon DEF RealityInv, WinsHold, EnvelopesHold
<1>5. TransitionHolds'
  BY Zenon DEF RealityInv, TransitionHolds, BeforeSwitch, AfterSwitch
<1>6. MatterHolds'
  <2>1. Needed(env)' = Needed(env) /\ ReplacedMatter' = ReplacedMatter
    BY Zenon, <1>1 DEF Needed, ReplacedMatter
  <2> QED
    BY Zenon, <2>1 DEF RealityInv, MatterHolds, BeforeSwitch, AfterSwitch
<1> QED
  BY Zenon, <1>2, <1>3, <1>4, <1>5, <1>6 DEF RealityInv

LEMMA EndTypes ==
  ASSUME EndTransition
  PROVE  /\ realityLock' = NoWriter /\ step' = "none" /\ step' \in Steps
         /\ alias' \in 0 .. MaxAttempt /\ oldAlias' \in 0 .. MaxAttempt
         /\ text' \in Version \cup {0} /\ written' \subseteq Object /\ capsule' \in BOOLEAN
<1>1. alias' \in 0 .. MaxAttempt /\ oldAlias' \in 0 .. MaxAttempt
  BY RealityAssumption DEF EndTransition
<1>2. capsule' \in BOOLEAN
  BY Zenon DEF EndTransition
<1> QED
  BY Zenon, <1>1, <1>2 DEF EndTransition, Steps

\* Nothing the current epoch needs is among what it replaces.
LEMMA ReplacedApart ==
  ASSUME RealityInv, step \in AfterSwitch
  PROVE  Needed(env) \cap ReplacedMatter = {}
<1>1. SUFFICES ASSUME NEW x \in Needed(env), x \in ReplacedMatter PROVE FALSE
  BY Zenon
<1>2. \/ x.kind # Capsule /\ x.name = env.alias
      \/ x.kind = Capsule /\ x.name = env.epoch
  BY FilesNames, ObjectsAreObjects DEF Needed
<1>3. env.alias # oldAlias /\ env.epoch # env.epoch - 1
  BY EnvelopeTypes DEF RealityInv, TransitionHolds
<1> QED
  BY Zenon, <1>1, <1>2, <1>3 DEF ReplacedMatter

LEMMA CleanupKeeps ==
  ASSUME RealityInv, NEW some, CleanupMatter(some)
  PROVE  RealityInv'
<1> USE DEF CleanupMatter, EndTransition, RemoveMatter
<1>1. Objects' = Objects /\ envs = {env} /\ env.epoch > 0
      /\ step \in AfterSwitch /\ step' = "none"
  BY Zenon DEF Objects, RealityInv, TransitionHolds, AfterSwitch
<1>2. env.epoch \in 1 .. MaxRealityEpoch
  BY <1>1, RealityAssumption DEF RealityInv, RealityTypeOK, Envelope
<1>3. ReplacedMatter \subseteq matter
  BY Zenon DEF ReplacedMatter
<1>4. Needed(env) \subseteq matter \cap matterDisk
  BY Zenon, <1>1 DEF RealityInv, EnvelopesHold
<1>5. RealityTypeOK'
  <2>1. realityWins' \in [0 .. MaxRealityEpoch -> Nat]
    BY <1>2 DEF RealityInv, RealityTypeOK
  <2>2. matter' \subseteq Entry /\ matterDisk' \subseteq Entry
    BY Zenon, <1>3 DEF RealityInv, RealityTypeOK
  <2>3. realityClean' \in BOOLEAN
    BY Zenon
  <2> QED
    BY Zenon, <2>1, <2>2, <2>3, EndTypes DEF RealityInv, RealityTypeOK
<1>6. EnvelopesHold'
  <2>1. Needed(env)' = Needed(env)
    BY Zenon, <1>1 DEF Needed
  <2>2. Needed(env) \subseteq matter' \cap matterDisk'
    BY Zenon, <1>1, <1>4, ReplacedApart
  <2> QED
    BY <1>1, <2>1, <2>2, EnvelopeTypes DEF RealityInv, EnvelopesHold, Needed
<1>7. WinsHold'
  BY <1>1, <1>2 DEF RealityInv, RealityTypeOK, WinsHold, TransitionHolds
<1>8. TransitionHolds'
  BY Zenon, <1>1 DEF RealityInv, TransitionHolds, BeforeSwitch, AfterSwitch
<1>9. MatterHolds'
  <2>1. Current' = Needed(env)
    BY <1>1, <1>2 DEF Current, Needed
  <2>2. realityClean' => matter' = Needed(env)
    BY Zenon, <1>1, <1>4, ReplacedApart DEF RealityInv, MatterHolds
  <2> QED
    BY Zenon, <1>1, <2>1, <2>2 DEF MatterHolds, BeforeSwitch, AfterSwitch
<1> QED
  BY Zenon, <1>5, <1>6, <1>7, <1>8, <1>9 DEF RealityInv

\* Nothing an envelope needs is among what an unfinished transition wrote.
LEMMA WrittenApart ==
  ASSUME RealityInv, step \in BeforeSwitch, NEW e \in envs
  PROVE  Needed(e) \cap WrittenMatter(env.epoch + 1) = {}
<1>1. e.alias # alias /\ e.epoch # env.epoch + 1
  BY EnvelopeTypes DEF RealityInv, TransitionHolds, EnvelopesHold
<1>2. written \subseteq Object
  BY Zenon DEF RealityInv, RealityTypeOK
<1> QED
  BY <1>1, <1>2, FilesApart, ObjectsAreObjects DEF Needed, WrittenMatter

LEMMA FailureKeeps ==
  ASSUME RealityInv, NEW some, TransitionFails(some)
  PROVE  RealityInv'
<1> USE DEF TransitionFails, EndTransition, RemoveMatter
<1> DEFINE W == WrittenMatter(env.epoch + 1)
<1>1. Objects' = Objects /\ step \in BeforeSwitch /\ step' = "none" /\ W \subseteq matter
  BY Zenon DEF Objects, RealityInv, TransitionHolds, BeforeSwitch
<1>2. \A e \in envs : Needed(e) \cap W = {}
  BY Zenon, <1>1, WrittenApart
<1> HIDE DEF W
<1>3. matter' = (matter \ W) \cup some /\ some \subseteq W /\ matterDisk' \in {matter', matterDisk}
      /\ (realityClean' => realityClean /\ some = {})
  BY Zenon DEF W
<1>4. RealityTypeOK'
  <2>1. matter' \subseteq Entry /\ matterDisk' \subseteq Entry
    BY Zenon, <1>1, <1>3 DEF RealityInv, RealityTypeOK
  <2>2. realityClean' \in BOOLEAN /\ realityLayout' \in BOOLEAN
    BY Zenon
  <2> QED
    BY Zenon, <2>1, <2>2, EndTypes DEF RealityInv, RealityTypeOK
<1>5. EnvelopesHold'
  <2>1. \A e \in envs : e.epoch > 0 => Needed(e) \subseteq matter' \cap matterDisk'
    BY Zenon, <1>2, <1>3 DEF RealityInv, EnvelopesHold
  <2> QED
    BY Zenon, <2>1, EnvelopesStay DEF RealityInv
<1>6. WinsHold'
  BY Zenon DEF RealityInv, WinsHold
<1>7. TransitionHolds'
  <2>1. ~realityLayout' => ~(env.epoch > 0)
    BY Zenon
  <2> QED
    BY <1>1, <2>1, EnvelopeTypes DEF TransitionHolds, BeforeSwitch, AfterSwitch
<1>8. MatterHolds'
  <2>1. Current' = Current
    BY Zenon, <1>1 DEF Current, Needed
  <2>2. Current \cap W = {}
    BY Zenon, <1>2 DEF Current, RealityInv, EnvelopesHold
  <2>3. realityClean => matter = Current \cup W
    BY Zenon, <1>1 DEF RealityInv, MatterHolds, W
  <2>4. realityClean' => matter' = Current
    BY Zenon, <1>3, <2>2, <2>3
  <2> QED
    BY Zenon, <1>1, <2>1, <2>4 DEF MatterHolds, BeforeSwitch, AfterSwitch
<1> QED
  BY Zenon, <1>4, <1>5, <1>6, <1>7, <1>8 DEF RealityInv

LEMMA RealityKillKeeps ==
  ASSUME RealityInv, KillTransition
  PROVE  RealityInv'
<1> USE DEF KillTransition, EndTransition
<1>1. RealityTypeOK'
  BY Zenon, EndTypes DEF RealityInv, RealityTypeOK
<1>2. EnvelopesHold'
  BY Zenon, EnvelopesStay DEF RealityInv, EnvelopesHold
<1>3. WinsHold'
  BY Zenon DEF RealityInv, WinsHold
<1>4. TransitionHolds'
  BY Zenon DEF RealityInv, TransitionHolds, BeforeSwitch, AfterSwitch
<1>5. MatterHolds'
  BY Zenon DEF MatterHolds
<1> QED
  BY Zenon, <1>1, <1>2, <1>3, <1>4, <1>5 DEF RealityInv

LEMMA RealityPowerLossKeeps ==
  ASSUME RealityInv, NEW e \in envs, NEW lost, RealityPowerLoss(e, lost)
  PROVE  RealityInv'
<1> USE DEF RealityPowerLoss, EndTransition
<1>1. Objects' = Objects /\ env' = e /\ envs' = {e}
  BY Zenon DEF Objects
<1>2. /\ matter' \subseteq matter \cup matterDisk /\ matterDisk' = matter'
      /\ matter \cap matterDisk \subseteq matter'
  BY Zenon
<1>3. RealityTypeOK'
  <2>1. matter' \subseteq Entry /\ matterDisk' \subseteq Entry
    BY Zenon, <1>2 DEF RealityInv, RealityTypeOK
  <2>2. realityLayout' \in BOOLEAN
    BY Zenon
  <2> QED
    BY Zenon, <1>1, <2>1, <2>2, EndTypes DEF RealityInv, RealityTypeOK
<1>4. EnvelopesHold'
  <2>1. Needed(env)' = Needed(e)
    BY Zenon, <1>1 DEF Needed
  <2> QED
    BY <1>1, <1>2, <2>1, EnvelopeTypes DEF RealityInv, EnvelopesHold, Needed
<1>5. WinsHold'
  BY Zenon, <1>1 DEF RealityInv, WinsHold
<1>6. TransitionHolds'
  <2>1. ~realityLayout' => e = NoEnv
    BY Zenon
  <2> QED
    BY <1>1, <2>1 DEF NoEnv, TransitionHolds, BeforeSwitch, AfterSwitch
<1>7. MatterHolds'
  BY Zenon DEF MatterHolds
<1> QED
  BY Zenon, <1>3, <1>4, <1>5, <1>6, <1>7 DEF RealityInv

LEMMA RealityStarts == RealityInit => RealityInv
<1> SUFFICES ASSUME RealityInit PROVE RealityInv
  BY Zenon
<1> USE DEF RealityInit
<1>1. NoEnv.epoch = 0 /\ NoEnv.alias = 0 /\ NoEnv \in Envelope
  BY RealityAssumption DEF NoEnv, Envelope
<1>2. RealityTypeOK
  <2>1. /\ graph \in BOOLEAN /\ realityLayout \in BOOLEAN /\ realityClean \in BOOLEAN
        /\ capsule \in BOOLEAN
    BY Zenon
  <2>2. 0 \in 0 .. MaxAttempt /\ realityWins \in [0 .. MaxRealityEpoch -> Nat]
    BY RealityAssumption
  <2> QED
    BY Zenon, <1>1, <2>1, <2>2 DEF RealityTypeOK, Steps
<1>3. EnvelopesHold /\ WinsHold /\ TransitionHolds
  BY <1>1 DEF EnvelopesHold, WinsHold, TransitionHolds, BeforeSwitch, AfterSwitch
<1>4. MatterHolds
  BY Zenon, <1>1 DEF MatterHolds, Current, BeforeSwitch, AfterSwitch
<1> QED
  BY Zenon, <1>2, <1>3, <1>4 DEF RealityInv

LEMMA RealityKeeps ==
  ASSUME ~FsyncMayFail, RealityInv, [RealityNext]_realityVars
  PROVE  RealityInv'
<1>1. ASSUME NEW w \in Writer, NEW v \in Version, CreateReality(w, v)
      PROVE  RealityInv'
  <2>1. env.epoch < MaxRealityEpoch
    BY <1>1, RealityAssumption DEF CreateReality, RealityInv, TransitionHolds
  <2> QED
    BY Zenon, <1>1, <2>1, StartKeeps DEF CreateReality
<1>2. ASSUME NEW w \in Writer, NEW e \in 0 .. MaxRealityEpoch, NEW v \in Version,
             BeginTransition(w, e, v)
      PROVE  RealityInv'
  <2>1. env.epoch < MaxRealityEpoch /\ StartTransition(w, v)
    BY Zenon, <1>2 DEF BeginTransition
  <2>2. realityLayout' = TRUE
    BY <1>2, Zenon DEF BeginTransition, RealityInv, RealityTypeOK
  <2> QED
    BY Zenon, <2>1, <2>2, StartKeeps
<1>3. ASSUME NEW o \in Object, WriteSource(o) PROVE RealityInv'
  BY Zenon, <1>3, WriteSourceKeeps
<1>4. CASE SyncMatter
  BY Zenon, <1>4, SyncMatterKeeps
<1>5. CASE WriteCapsule
  BY Zenon, <1>5, WriteCapsuleKeeps
<1>6. CASE SwitchEnvelope
  BY Zenon, <1>6, SwitchKeeps
<1>7. CASE SyncReality
  BY Zenon, <1>7, SyncRealityKeeps
<1>8. ASSUME NEW some, CleanupMatter(some) PROVE RealityInv'
  BY Zenon, <1>8, CleanupKeeps
<1>9. ASSUME NEW some, TransitionFails(some) PROVE RealityInv'
  BY Zenon, <1>9, FailureKeeps
<1>10. \A some : ~SwitchFails(some)
  BY Zenon DEF SwitchFails
<1>11. CASE KillTransition
  BY Zenon, <1>11, RealityKillKeeps
<1>12. ASSUME NEW e \in envs, NEW lost, RealityPowerLoss(e, lost) PROVE RealityInv'
  BY Zenon, <1>12, RealityPowerLossKeeps
<1>13. CASE UNCHANGED realityVars
  <2> USE <1>13 DEF realityVars, transition, realityHistory
  <2>1. Objects' = Objects
    BY Zenon DEF Objects
  <2>2. RealityTypeOK'
    BY Zenon DEF RealityInv, RealityTypeOK
  <2>3. EnvelopesHold'
    BY Zenon, EnvelopesStay DEF RealityInv, EnvelopesHold
  <2>4. WinsHold'
    BY Zenon DEF RealityInv, WinsHold
  <2>5. WrittenMatter(env.epoch + 1)' = WrittenMatter(env.epoch + 1)
    BY Zenon DEF WrittenMatter
  <2>6. TransitionHolds'
    BY Zenon, <2>1, <2>5 DEF RealityInv, TransitionHolds
  <2>7. MatterHolds'
    BY Zenon, <2>1, <2>5 DEF RealityInv, MatterHolds, Current, Needed, ReplacedMatter
  <2> QED
    BY Zenon, <2>2, <2>3, <2>4, <2>6, <2>7 DEF RealityInv
<1> QED
  BY Zenon, <1>1, <1>2, <1>3, <1>4, <1>5, <1>6, <1>7, <1>8, <1>9, <1>10, <1>11, <1>12, <1>13
     DEF RealityNext

\* _transition_reality, rotate_native_reality_graph_epoch and the creations, with
\* any number of objects, writers, epochs and deaths, as long as the fsync of the
\* envelope's directory does not fail: what a reader opens is always whole, what
\* a caller was told stays, no epoch is won twice, and nothing is left behind.
THEOREM RealityIsSafe == ASSUME ~FsyncMayFail PROVE RealitySpec => []RealityIsAtomic
<1>1. RealityInit => RealityInv
  BY Zenon, RealityStarts
<1>2. RealityInv /\ [RealityNext]_realityVars => RealityInv'
  BY Zenon, RealityKeeps
<1>3. RealityInv => RealityIsAtomic
  <2> SUFFICES ASSUME RealityInv PROVE RealityIsAtomic
    BY Zenon
  <2>1. AlwaysLoadable
    BY Zenon DEF AlwaysLoadable, RealityLoadable, RealityInv, EnvelopesHold
  <2>2. ToldStays
    BY Zenon DEF ToldStays, RealityInv, EnvelopesHold
  <2>3. OneWinner
    BY Zenon DEF OneWinner, RealityInv, WinsHold
  <2>4. NoResidue
    BY Zenon DEF NoResidue, RealityInv, RealityTypeOK, MatterHolds, Current
  <2> QED
    BY Zenon, <2>1, <2>2, <2>3, <2>4 DEF RealityIsAtomic
<1> QED
  BY <1>1, <1>2, <1>3, PTL DEF RealitySpec

=============================================================================
