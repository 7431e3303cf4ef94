---------------------------- MODULE WorkspaceBuild ----------------------------
(***************************************************************************)
(* build_locked_workspace_package of koschei/workspace_execution.py: the   *)
(* freshness proof through the lock index (workspace_lock_index.py), the   *)
(* analysis cache (workspace_analysis_cache.py), the native build and the  *)
(* publication of the artifact and its sidecar, by builds that run beside  *)
(* each other, an editor that changes the sources and kills.               *)
(*                                                                         *)
(* A version stands for the bytes of every source and manifest, and for    *)
(* the digests that bind them: the lock of version v has the workspace and *)
(* module-lock digests of v, code generated from v the fingerprint of v.   *)
(* The native cache (module NativeCache) returns the output of the code it *)
(* is given, or fails.                                                     *)
(***************************************************************************)
EXTENDS Integers, FiniteSets

CONSTANTS
  Builds,     \* build processes of one package, with one target
  Versions,
  LiveEdits   \* whether sources may change while a build runs

None == "none"

ASSUME VersionsAssumption == Versions \cap {None, "torn"} = {}

VARIABLES
  source,            \* the sources on disk
  lockfile,          \* the version koschei.workspace.lock.json was created from
  index,             \* lock-index entries: workspace digest -> sources recorded
  analysis,          \* analysis entries: module-lock digest -> code stored
  target, sidecar,   \* the published artifact and its build manifest
  buildPc, lock, before, code  \* each build's place, lock, snapshot and code

buildVars == <<source, lockfile, index, analysis, target, sidecar, buildPc, lock, before, code>>

BuildPlaces == {"idle", "proof", "snapshot", "verify", "recheck", "analyse", "store",
           "native", "publish", "copy", "copied", "sidecar", "describe"}
Sidecar(file, l, c) == [file |-> file, lock |-> l, mir |-> c, artifact |-> c]
NoSidecar == Sidecar("absent", None, None)
TornSidecar == Sidecar("torn", None, None)

BuildTypeOK ==
  /\ source \in Versions /\ lockfile \in Versions
  /\ index \in [Versions -> Versions \cup {None}]
  /\ analysis \in [Versions -> Versions \cup {None}]
  /\ target \in Versions \cup {None, "torn"}
  /\ sidecar \in {NoSidecar, TornSidecar} \cup
       [file : {"whole"}, lock : Versions, mir : Versions, artifact : Versions]
  /\ buildPc \in [Builds -> BuildPlaces]
  /\ \A b \in Builds : (buildPc[b] = "idle") = (lock[b] = None)
  /\ \A f \in {lock, before, code} : f \in [Builds -> Versions \cup {None}]

BuildInit ==
  /\ source \in Versions /\ lockfile = source
  /\ index = [v \in Versions |-> None]
  /\ analysis = [v \in Versions |-> None]
  /\ target = None /\ sidecar = NoSidecar
  /\ buildPc = [b \in Builds |-> "idle"]
  /\ lock = [b \in Builds |-> None]
  /\ before = [b \in Builds |-> None]
  /\ code = [b \in Builds |-> None]

BuildGoto(b, place) == buildPc' = [buildPc EXCEPT ![b] = place]
LeaveBuild(b) ==
  /\ BuildGoto(b, "idle")
  /\ lock' = [lock EXCEPT ![b] = None]
  /\ before' = [before EXCEPT ![b] = None]
  /\ code' = [code EXCEPT ![b] = None]
inputs == <<source, lockfile>>
caches == <<index, analysis>>
output == <<target, sidecar>>
buildCall == <<lock, before, code>>

-----------------------------------------------------------------------------
(* The lock and its freshness: prepare_locked_workspace_identity and       *)
(* verify_or_create_lock_index                                             *)

\* Mutant of Prepare: any index entry will do for the fast path.
PrepareAny(b) ==
  /\ buildPc[b] = "idle"
  /\ lock' = [lock EXCEPT ![b] = lockfile]
  /\ IF \E v \in Versions : index[v] # None
       THEN BuildGoto(b, "analyse") ELSE BuildGoto(b, "snapshot")
  /\ UNCHANGED <<inputs, caches, output, before, code>>

\* The lock file is read; an entry for its digest is proved, or created.
Prepare(b) ==
  /\ buildPc[b] = "idle"
  /\ lock' = [lock EXCEPT ![b] = lockfile]
  /\ BuildGoto(b, IF index[lockfile] # None THEN "proof" ELSE "snapshot")
  /\ UNCHANGED <<inputs, caches, output, before, code>>

\* _verify_index_entry: the sources are those the entry records.
ProveFresh(b) ==
  /\ buildPc[b] = "proof"
  /\ \/ index[lock[b]] = source /\ BuildGoto(b, "analyse") /\ UNCHANGED buildCall
     \/ index[lock[b]] # source /\ LeaveBuild(b)
  /\ UNCHANGED <<inputs, caches, output>>

SnapshotBefore(b) ==
  /\ buildPc[b] = "snapshot"
  /\ before' = [before EXCEPT ![b] = source]
  /\ BuildGoto(b, "verify")
  /\ UNCHANGED <<inputs, caches, output, lock, code>>

\* verify_workspace_package_lock_full: the lock of the sources read now.
VerifyFull(b) ==
  /\ buildPc[b] = "verify"
  /\ \/ source = lock[b] /\ BuildGoto(b, "recheck") /\ UNCHANGED buildCall
     \/ source # lock[b] /\ LeaveBuild(b)
  /\ UNCHANGED <<inputs, caches, output>>

\* The second snapshot; _publish_index renames a finished directory into place,
\* or finds that another build has done so.
PublishIndex(b) ==
  /\ buildPc[b] = "recheck"
  /\ \/ /\ before[b] = source
        /\ index' = [index EXCEPT ![lock[b]] = IF @ = None THEN source ELSE @]
        /\ BuildGoto(b, "proof")
        /\ UNCHANGED buildCall
     \/ /\ before[b] # source
        /\ LeaveBuild(b)
        /\ UNCHANGED index
  /\ UNCHANGED <<inputs, analysis, output>>

-----------------------------------------------------------------------------
(* load_or_build_analysis                                                  *)

\* A stored entry is loaded; otherwise the builder reads the sources again.
Analyse(b) ==
  /\ buildPc[b] = "analyse"
  /\ \/ /\ analysis[lock[b]] # None
        /\ code' = [code EXCEPT ![b] = analysis[lock[b]]]
        /\ BuildGoto(b, "native")
     \/ /\ analysis[lock[b]] = None
        /\ code' = [code EXCEPT ![b] = source]
        /\ BuildGoto(b, "store")
  /\ UNCHANGED <<inputs, caches, output, lock, before>>

\* The staged entry is renamed into place, or the one that is there is loaded.
StoreAnalysis(b) ==
  /\ buildPc[b] = "store"
  /\ analysis' = [analysis EXCEPT ![lock[b]] = IF @ = None THEN code[b] ELSE @]
  /\ code' = [code EXCEPT ![b] = analysis'[lock[b]]]
  /\ BuildGoto(b, "native")
  /\ UNCHANGED <<inputs, index, output, lock, before>>

BuildNative(b) ==
  /\ buildPc[b] = "native"
  /\ BuildGoto(b, "publish")
  /\ UNCHANGED <<inputs, caches, output, buildCall>>

-----------------------------------------------------------------------------
(* Publication                                                             *)

\* Neither the target nor its manifest may exist yet.
CheckTarget(b) ==
  /\ buildPc[b] = "publish"
  /\ \/ target = None /\ sidecar = NoSidecar /\ BuildGoto(b, "copy") /\ UNCHANGED buildCall
     \/ ~(target = None /\ sidecar = NoSidecar) /\ LeaveBuild(b)
  /\ UNCHANGED <<inputs, caches, output>>

\* Mutant of CopyTarget: an existing file is overwritten.
CopyTargetOver(b) ==
  /\ \/ buildPc[b] = "copy" /\ target' = "torn" /\ BuildGoto(b, "copied") /\ UNCHANGED buildCall
     \/ buildPc[b] = "copied" /\ target' = code[b] /\ BuildGoto(b, "sidecar") /\ UNCHANGED buildCall
  /\ UNCHANGED <<inputs, caches, sidecar>>

\* publish_cached_artifact: O_EXCL, the bytes, and their digest compared.
CopyTarget(b) ==
  /\ \/ /\ buildPc[b] = "copy" /\ target = None
        /\ target' = "torn"
        /\ BuildGoto(b, "copied")
        /\ UNCHANGED buildCall
     \/ /\ buildPc[b] = "copy" /\ target # None
        /\ LeaveBuild(b)
        /\ UNCHANGED target
     \/ /\ buildPc[b] = "copied"
        /\ target' = code[b]
        /\ BuildGoto(b, "sidecar")
        /\ UNCHANGED buildCall
  /\ UNCHANGED <<inputs, caches, sidecar>>

\* The sidecar is created and written; if it exists the artifact is unlinked.
WriteSidecar(b) ==
  /\ \/ /\ buildPc[b] = "sidecar" /\ sidecar = NoSidecar
        /\ sidecar' = TornSidecar
        /\ BuildGoto(b, "describe")
        /\ UNCHANGED <<target, buildCall>>
     \/ /\ buildPc[b] = "sidecar" /\ sidecar # NoSidecar
        /\ target' = None
        /\ LeaveBuild(b)
        /\ UNCHANGED sidecar
     \/ /\ buildPc[b] = "describe"
        /\ sidecar' = Sidecar("whole", lock[b], code[b])
        /\ LeaveBuild(b)
        /\ UNCHANGED target
  /\ UNCHANGED <<inputs, caches>>

\* Any other error: the files this call created in the output directory are
\* unlinked, except a sidecar that could not be written.
Fail(b) ==
  /\ buildPc[b] # "idle"
  /\ target' = IF buildPc[b] \in {"copied", "sidecar", "describe"} THEN None ELSE target
  /\ LeaveBuild(b)
  /\ UNCHANGED <<inputs, caches, sidecar>>

-----------------------------------------------------------------------------
Quiet == \A b \in Builds : buildPc[b] = "idle"

KillBuild(b) == buildPc[b] # "idle" /\ LeaveBuild(b) /\ UNCHANGED <<inputs, caches, output>>

\* The user edits the sources.
Edit ==
  /\ LiveEdits \/ Quiet
  /\ source' \in Versions
  /\ UNCHANGED <<lockfile, caches, output, buildPc, buildCall>>

\* ks-workspace lock create --force: os.replace of the lock of these sources.
CreateLock ==
  /\ lockfile' = source
  /\ UNCHANGED <<source, caches, output, buildPc, buildCall>>

\* The user removes the build output.
Clean ==
  /\ Quiet
  /\ target' = None /\ sidecar' = NoSidecar
  /\ UNCHANGED <<inputs, caches, buildPc, buildCall>>

RunBuild(b) ==
  \/ ProveFresh(b) \/ SnapshotBefore(b) \/ VerifyFull(b) \/ PublishIndex(b)
  \/ Analyse(b) \/ StoreAnalysis(b) \/ BuildNative(b)
  \/ CheckTarget(b) \/ CopyTarget(b) \/ WriteSidecar(b) \/ Fail(b)

BuildNext ==
  \/ Edit \/ CreateLock \/ Clean
  \/ \E b \in Builds : Prepare(b) \/ RunBuild(b) \/ KillBuild(b)

BuildSpec == BuildInit /\ [][BuildNext]_buildVars

-----------------------------------------------------------------------------
\* A build manifest that is all there describes the artifact beside it: its
\* digest and the fingerprint of the code it was compiled from, however builds
\* race for the target, fail or are killed.  A kill between the two files leaves
\* an artifact without a whole manifest, of which this says nothing.
SidecarDescribesTarget ==
  sidecar.file = "whole" => target = sidecar.artifact /\ target = sidecar.mir

\* docs/WORKSPACE_ANALYSIS_CACHE.md: "A corrupt, incomplete, stale, forged, or
\* tampered analysis entry fails closed": the code stored for a module lock was
\* generated from the sources of that lock.
AnalysisMatchesLock == \A v \in Versions : analysis[v] \in {None, v}

\* docs/WORKSPACE_LOCK_INDEX.md, Lifecycle step 4, "refuses publication if source
\* bytes changed during the full verification": the sources recorded for a
\* workspace digest are the ones that digest was computed from.
IndexMatchesLock == \A v \in Versions : index[v] \in {None, v}

\* docs/WORKSPACE_LOCK_INDEX.md, "cannot cause stale source to be accepted": the
\* workspace a build manifest names is the one its artifact was built from, also
\* after the sources and the lock went from one version to another and back, with
\* entries of every version in the caches.  It holds while no build runs during
\* an edit (LiveEdits FALSE); an edit between the freshness proof and the second
\* reading of the sources breaks it.
BuiltFromLock == sidecar.file = "whole" => target = sidecar.lock

\* A build whose lock matches the sources is never refused as stale, whatever
\* earlier versions left in the index.
FreshNotRefused ==
  [][\A b \in Builds : ProveFresh(b) \/ VerifyFull(b) =>
       (lock[b] = source => buildPc'[b] # "idle")]_buildVars
=============================================================================
