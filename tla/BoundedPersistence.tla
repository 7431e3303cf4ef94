-------------------------- MODULE BoundedPersistence --------------------------
(***************************************************************************)
(* PersistCaps.commit and PersistCaps.load of                              *)
(* koschei/bounded_persistence_v1.py, with the load and the target checks  *)
(* that persistence_target_integrity_v1.py installs.  Processes share one  *)
(* state object; every system call of the commit protocol is a step, any   *)
(* of them may fail or meet the deadline, a process may be killed between  *)
(* any two, and the machine may lose power.                                *)
(*                                                                         *)
(* External, the file system: a rename is visible at once and survives a   *)
(* power loss for certain only after an fsync of the directory; the bytes  *)
(* of a file survive for certain only after an fsync of the file.          *)
(***************************************************************************)
EXTENDS Integers, Sequences, FiniteSets

CONSTANTS
  Procs,
  MaxCommits   \* bound on the number of commit calls

ASSUME PersistAssumption == MaxCommits \in Nat

Commits == 1 .. MaxCommits

VARIABLES
  files,     \* history of the state object: the temp files renamed to it
  durable,   \* how many of those renames are certain to survive
  torn,      \* the visible file lost some of its bytes
  calls,     \* number of commit calls so far
  persistPc,        \* each process's place in the protocol
  own,       \* the commit call it is in
  synced,    \* its temp file is on disk
  began, fd, \* the target when its load began, and the file the load has open,
             \* by their indices in files
  commitResult     \* what each commit call returned

persistVars == <<files, durable, torn, calls, persistPc, own, synced, began, fd, commitResult>>

PersistPlaces == {"idle", "temp", "written", "closed", "replaced", "confirmed",
           "load-open", "load-stat", "load-read"}
Results == {"none", "ok", "error", "uncertain", "died"}

PersistTypeOK ==
  /\ files \in Seq([call : Commits, whole : BOOLEAN])
  /\ durable \in 0 .. Len(files)
  /\ torn \in BOOLEAN
  /\ calls \in 0 .. MaxCommits
  /\ persistPc \in [Procs -> PersistPlaces]
  /\ own \in [Procs -> 0 .. MaxCommits]
  /\ fd \in [Procs -> 0 .. Len(files)]
  /\ synced \in [Procs -> BOOLEAN]
  /\ commitResult \in [Commits -> Results]
  /\ began \in [Procs -> 0 .. Len(files)]

PersistInit ==
  /\ files = <<>> /\ durable = 0 /\ torn = FALSE
  /\ calls = 0
  /\ persistPc = [p \in Procs |-> "idle"]
  /\ own = [p \in Procs |-> 0]
  /\ fd = [p \in Procs |-> 0]
  /\ synced = [p \in Procs |-> FALSE]
  /\ commitResult = [c \in Commits |-> "none"]
  /\ began = [p \in Procs |-> 0]

PersistGoto(p, place) == persistPc' = [persistPc EXCEPT ![p] = place]
file == <<files, durable, torn>>
temp == <<own, synced>>
load == <<began, fd>>

\* The call of p is over: the finally blocks close what it has open.
LeaveCall(P) ==
  /\ persistPc' = [p \in Procs |-> IF p \in P THEN "idle" ELSE persistPc[p]]
  /\ own' = [p \in Procs |-> IF p \in P THEN 0 ELSE own[p]]
  /\ synced' = [p \in Procs |-> IF p \in P THEN FALSE ELSE synced[p]]
  /\ began' = [p \in Procs |-> IF p \in P THEN 0 ELSE began[p]]
  /\ fd' = [p \in Procs |-> IF p \in P THEN 0 ELSE fd[p]]

-----------------------------------------------------------------------------
(* commit                                                                  *)

\* The checks of the payload, the parent and the target passed; a temporary file
\* with a fresh name exists in the same directory.
CreateTemp(p) ==
  /\ persistPc[p] = "idle"
  /\ calls < MaxCommits
  /\ calls' = calls + 1
  /\ own' = [own EXCEPT ![p] = calls']
  /\ PersistGoto(p, "temp")
  /\ UNCHANGED <<file, load, synced, commitResult>>

\* The write loop wrote every byte.
WriteTemp(p) ==
  /\ persistPc[p] = "temp"
  /\ PersistGoto(p, "written")
  /\ UNCHANGED <<file, load, calls, own, synced, commitResult>>

FsyncTemp(p) ==
  /\ persistPc[p] = "written"
  /\ synced' = [synced EXCEPT ![p] = TRUE]
  /\ PersistGoto(p, "closed")
  /\ UNCHANGED <<file, load, calls, own, commitResult>>

\* A deadline or a failed system call before the rename: the temporary file is
\* unlinked, and a clean error returned.
FailBeforeReplace(p) ==
  /\ persistPc[p] \in {"temp", "written", "closed"}
  /\ commitResult' = [commitResult EXCEPT ![own[p]] = "error"]
  /\ LeaveCall({p})
  /\ UNCHANGED <<file, calls>>

ReplaceTarget(p) ==
  /\ persistPc[p] = "closed"
  /\ files' = Append(files, [call |-> own[p], whole |-> synced[p]])
  /\ torn' = FALSE
  /\ PersistGoto(p, "replaced")
  /\ UNCHANGED <<durable, load, calls, own, synced, commitResult>>

\* Mutant of FsyncDirectory: the call is left out.
SkipFsyncDirectory(p) ==
  /\ persistPc[p] = "replaced"
  /\ PersistGoto(p, "confirmed")
  /\ UNCHANGED <<file, load, calls, own, synced, commitResult>>

FsyncDirectory(p) ==
  /\ persistPc[p] = "replaced"
  /\ durable' = Len(files)
  /\ PersistGoto(p, "confirmed")
  /\ UNCHANGED <<files, torn, load, calls, own, synced, commitResult>>

\* A deadline or a failed fsync after the rename: KS3423.
FailAfterReplace(p) ==
  /\ persistPc[p] \in {"replaced", "confirmed"}
  /\ commitResult' = [commitResult EXCEPT ![own[p]] = "uncertain"]
  /\ LeaveCall({p})
  /\ UNCHANGED <<file, calls>>

ReturnUnit(p) ==
  /\ persistPc[p] = "confirmed"
  /\ commitResult' = [commitResult EXCEPT ![own[p]] = "ok"]
  /\ LeaveCall({p})
  /\ UNCHANGED <<file, calls>>

-----------------------------------------------------------------------------
(* load                                                                    *)

\* The target exists and has a safe shape.
StartLoad(p) ==
  /\ persistPc[p] = "idle"
  /\ files # <<>>
  /\ began' = [began EXCEPT ![p] = Len(files)]
  /\ PersistGoto(p, "load-open")
  /\ UNCHANGED <<file, temp, fd, calls, commitResult>>

OpenLoad(p) ==
  /\ persistPc[p] = "load-open"
  /\ fd' = [fd EXCEPT ![p] = Len(files)]
  /\ PersistGoto(p, "load-stat")
  /\ UNCHANGED <<file, temp, began, calls, commitResult>>

\* fstat of the open file: exactly one name, so not replaced since the open.
StatLoad(p) ==
  /\ persistPc[p] = "load-stat"
  /\ fd[p] = Len(files)
  /\ PersistGoto(p, "load-read")
  /\ UNCHANGED <<file, temp, load, calls, commitResult>>

\* The whole file is read and returned, or the load fails: a file with another
\* number of names, a deadline, a failed system call.
EndLoad(p) ==
  /\ persistPc[p] \in {"load-open", "load-stat", "load-read"}
  /\ LeaveCall({p})
  /\ UNCHANGED <<file, calls, commitResult>>

-----------------------------------------------------------------------------
(* Faults                                                                  *)

\* What the calls in flight leave behind when their processes are gone.
Lost(P) == [c \in Commits |->
  IF \E p \in P : own[p] = c THEN "died" ELSE commitResult[c]]

KillCaller(p) ==
  /\ persistPc[p] # "idle"
  /\ commitResult' = Lost({p})
  /\ LeaveCall({p})
  /\ UNCHANGED <<file, calls>>

\* The state object is the durable one or one renamed to since; a file that was
\* never synced may have lost bytes.
PersistPowerLoss(n, damage) ==
  /\ n \in durable .. Len(files)
  /\ files' = SubSeq(files, 1, n)
  /\ durable' = n
  /\ torn' = (torn \/ (damage /\ n > 0 /\ ~files[n].whole))
  /\ commitResult' = Lost(Procs)
  /\ LeaveCall(Procs)
  /\ UNCHANGED calls

Step(p) ==
  \/ CreateTemp(p) \/ WriteTemp(p) \/ FsyncTemp(p) \/ FailBeforeReplace(p)
  \/ ReplaceTarget(p) \/ FsyncDirectory(p) \/ FailAfterReplace(p) \/ ReturnUnit(p)
  \/ StartLoad(p) \/ OpenLoad(p) \/ StatLoad(p) \/ EndLoad(p)

PersistNext ==
  \/ \E p \in Procs : Step(p) \/ KillCaller(p)
  \/ \E n \in 0 .. Len(files), damage \in BOOLEAN : PersistPowerLoss(n, damage)

\* No fairness: a system call that blocks cannot be preempted.
PersistSpec == PersistInit /\ [][PersistNext]_persistVars

-----------------------------------------------------------------------------
Replaced(c) == \E i \in DOMAIN files : files[i].call = c

\* "It is never reported as a clean rollback": the state object never shows
\* anything a call returned a clean error for.
CleanErrorLeavesNoTrace ==
  \A c \in Commits : commitResult[c] = "error" => ~Replaced(c)

\* A commit that returned normally survives: whatever power losses and whatever
\* other commits follow, the state object holds its value or a later one.
ConfirmedSurvives ==
  \A c \in Commits : commitResult[c] = "ok" =>
    \E i \in 1 .. durable : files[i].call = c

\* Readers see whole payloads only, also after a power loss at any step.
NeverTorn == ~torn

\* A load returns the state object as it was when the load began, or a later one;
\* it never brings back what a finished commit replaced.
LoadNotStale ==
  \A p \in Procs : persistPc[p] = "load-read" => fd[p] \in began[p] .. Len(files)
=============================================================================
