----------------------------- MODULE NativeCache -----------------------------
(***************************************************************************)
(* build_or_load_cached_native of koschei/workspace_cache.py for one cache *)
(* key: builders that race on the entry directory, whose files appear in   *)
(* place one after the other, fail and roll back, are killed, or lose      *)
(* power.  A file is "absent", "torn" (created, its bytes not all there)   *)
(* or the build output it holds or describes; builds of one key may give   *)
(* different outputs, as nothing in the cache relies on their being equal. *)
(*                                                                         *)
(* External, the file system: mkdir and O_EXCL creation are atomic; a name *)
(* is sure to survive a power loss after an fsync of its directory.        *)
(***************************************************************************)
EXTENDS Integers, FiniteSets

CONSTANTS
  Builders,
  Outputs,      \* what a Go build may produce
  MaxFailures,  \* bound on failing system calls
  MaxDeaths     \* bound on kills and power losses

ASSUME CacheAssumption == Outputs \cap {"absent", "torn"} = {}

VARIABLES
  entry,            \* the directory of the key: its two files
  named,            \* directories whose names are on disk: {"entry", "root"}
  cachePc, built, seen, \* each call's place, build output, and manifest digest read
  cacheResult,           \* what each builder's last call returned
  failures, deaths

cacheVars == <<entry, named, cachePc, built, seen, cacheResult, failures, deaths>>

FileContents == {"absent", "torn"} \cup Outputs
NoEntry == [dir |-> FALSE, artifact |-> "absent", manifest |-> "absent"]
Filled(a, m) == [dir |-> TRUE, artifact |-> a, manifest |-> m]
NoResult == [kind |-> "none", sha |-> "absent"]
Failed == [kind |-> "error", sha |-> "absent"]
Publishing == {"copy", "copying", "manifest", "writing", "fsync-entry", "fsync-root"}
CachePlaces == {"idle", "compile", "mkdir", "hit", "hit-read", "miss", "miss-read", "rmtree"}
            \cup Publishing

CacheTypeOK ==
  /\ entry \in [dir : BOOLEAN, artifact : FileContents, manifest : FileContents]
  /\ ~entry.dir => entry = NoEntry
  /\ named \subseteq {"entry", "root"}
  /\ cachePc \in [Builders -> CachePlaces]
  /\ built \in [Builders -> Outputs \cup {"absent"}]
  /\ seen \in [Builders -> Outputs \cup {"absent"}]
  /\ cacheResult \in [Builders -> [kind : {"none", "error", "hit", "miss"},
                              sha : Outputs \cup {"absent"}]]
  /\ failures \in 0 .. MaxFailures
  /\ deaths \in 0 .. MaxDeaths

CacheInit ==
  /\ entry = NoEntry
  /\ named = {}
  /\ cachePc = [b \in Builders |-> "idle"]
  /\ built = [b \in Builders |-> "absent"]
  /\ seen = [b \in Builders |-> "absent"]
  /\ cacheResult = [b \in Builders |-> NoResult]
  /\ failures = 0 /\ deaths = 0

CacheGoto(b, place) == cachePc' = [cachePc EXCEPT ![b] = place]
Return(b, r) ==
  /\ CacheGoto(b, "idle")
  /\ cacheResult' = [cacheResult EXCEPT ![b] = r]
  /\ built' = [built EXCEPT ![b] = "absent"]
  /\ seen' = [seen EXCEPT ![b] = "absent"]
bounds == <<failures, deaths>>
cacheCall == <<built, seen, cacheResult>>

-----------------------------------------------------------------------------
Start(b) ==
  /\ cachePc[b] = "idle"
  /\ CacheGoto(b, IF entry.dir THEN "hit" ELSE "compile")
  /\ cacheResult' = [cacheResult EXCEPT ![b] = NoResult]
  /\ UNCHANGED <<entry, named, built, seen, bounds>>

\* go build in a temporary directory, and the digest of what it produced.
Compile(b) ==
  /\ cachePc[b] = "compile"
  /\ \E o \in Outputs : built' = [built EXCEPT ![b] = o]
  /\ CacheGoto(b, "mkdir")
  /\ UNCHANGED <<entry, named, seen, cacheResult, bounds>>

\* Mutant of Mkdir: an existing directory is removed first.
MkdirReplacing(b) ==
  /\ cachePc[b] = "mkdir"
  /\ entry' = Filled("absent", "absent")
  /\ named' = {}
  /\ CacheGoto(b, "copy")
  /\ UNCHANGED <<cacheCall, bounds>>

\* The one that creates the directory fills it; the others verify it as a hit.
Mkdir(b) ==
  /\ cachePc[b] = "mkdir"
  /\ \/ /\ ~entry.dir
        /\ entry' = Filled("absent", "absent")
        /\ named' = {}
        /\ CacheGoto(b, "copy")
     \/ /\ entry.dir
        /\ CacheGoto(b, "hit")
        /\ UNCHANGED <<entry, named>>
  /\ UNCHANGED <<cacheCall, bounds>>

\* _copy_create_only: O_EXCL creation, then the bytes and their fsync.
CopyArtifact(b) ==
  /\ \/ /\ cachePc[b] = "copy" /\ entry.artifact = "absent"
        /\ entry' = Filled("torn", entry.manifest)
        /\ CacheGoto(b, "copying")
     \/ /\ cachePc[b] = "copying"
        /\ entry' = Filled(built[b], entry.manifest)
        /\ CacheGoto(b, "manifest")
  /\ UNCHANGED <<named, cacheCall, bounds>>

\* _write_create_only_json of the manifest.
WriteManifest(b) ==
  /\ \/ /\ cachePc[b] = "manifest" /\ entry.manifest = "absent"
        /\ entry' = Filled(entry.artifact, "torn")
        /\ CacheGoto(b, "writing")
     \/ /\ cachePc[b] = "writing"
        /\ entry' = Filled(entry.artifact, built[b])
        /\ CacheGoto(b, "fsync-entry")
  /\ UNCHANGED <<named, cacheCall, bounds>>

FsyncDirectories(b) ==
  /\ \/ /\ cachePc[b] = "fsync-entry"
        /\ named' = named \cup {"entry"}
        /\ CacheGoto(b, "fsync-root")
     \/ /\ cachePc[b] = "fsync-root"
        /\ named' = named \cup {"root"}
        /\ CacheGoto(b, "miss")
  /\ UNCHANGED <<entry, cacheCall, bounds>>

\* A system call fails: _copy_create_only unlinks its destination, the caller
\* starts to remove the directory.
FillFails(b) ==
  /\ cachePc[b] \in Publishing
  /\ failures < MaxFailures
  /\ failures' = failures + 1
  /\ entry' = IF cachePc[b] \in {"copy", "copying"}
                THEN Filled("absent", entry.manifest) ELSE entry
  /\ CacheGoto(b, "rmtree")
  /\ UNCHANGED <<named, cacheCall, deaths>>

\* Mutant of RemoveTree: only what the failed call had created is unlinked.
RemoveNothing(b) ==
  /\ cachePc[b] = "rmtree"
  /\ Return(b, Failed)
  /\ UNCHANGED <<entry, named, bounds>>

\* shutil.rmtree(ignore_errors=True): the files in any order, then the
\* directory; a failure leaves the rest behind, and the first error is raised.
RemoveTree(b) ==
  /\ cachePc[b] = "rmtree"
  /\ \/ /\ \/ entry.artifact # "absent" /\ entry' = Filled("absent", entry.manifest)
           \/ entry.manifest # "absent" /\ entry' = Filled(entry.artifact, "absent")
        /\ UNCHANGED <<named, cachePc, cacheCall, bounds>>
     \/ /\ entry.artifact = "absent" /\ entry.manifest = "absent"
        /\ entry' = NoEntry
        /\ named' = {}
        /\ Return(b, Failed)
        /\ UNCHANGED bounds
     \/ /\ failures < MaxFailures
        /\ failures' = failures + 1
        /\ Return(b, Failed)
        /\ UNCHANGED <<entry, named, deaths>>

-----------------------------------------------------------------------------
(* verify_cache_entry                                                      *)

\* Both files are there and the manifest parses: its digest is kept.
VerifyManifest(b) ==
  /\ cachePc[b] \in {"hit", "miss"}
  /\ entry.artifact # "absent" /\ entry.manifest \in Outputs
  /\ seen' = [seen EXCEPT ![b] = entry.manifest]
  /\ CacheGoto(b, IF cachePc[b] = "hit" THEN "hit-read" ELSE "miss-read")
  /\ UNCHANGED <<entry, named, built, cacheResult, bounds>>

\* The artifact has the digest its manifest states.
VerifyArtifact(b) ==
  /\ cachePc[b] \in {"hit-read", "miss-read"}
  /\ entry.artifact = seen[b]
  /\ Return(b, [kind |-> IF cachePc[b] = "hit-read" THEN "hit" ELSE "miss", sha |-> seen[b]])
  /\ UNCHANGED <<entry, named, bounds>>

\* The entry is missing, incomplete, or its files disagree.
VerifyFails(b) ==
  /\ \/ /\ cachePc[b] \in {"hit", "miss"}
        /\ ~(entry.artifact # "absent" /\ entry.manifest \in Outputs)
     \/ /\ cachePc[b] \in {"hit-read", "miss-read"}
        /\ entry.artifact # seen[b]
  /\ Return(b, Failed)
  /\ UNCHANGED <<entry, named, bounds>>

-----------------------------------------------------------------------------
Die(B) ==
  /\ deaths < MaxDeaths
  /\ deaths' = deaths + 1
  /\ cachePc' = [b \in Builders |-> IF b \in B THEN "idle" ELSE cachePc[b]]
  /\ built' = [b \in Builders |-> IF b \in B THEN "absent" ELSE built[b]]
  /\ seen' = [b \in Builders |-> IF b \in B THEN "absent" ELSE seen[b]]
  /\ UNCHANGED <<cacheResult, failures>>

KillBuilder(b) == cachePc[b] # "idle" /\ Die({b}) /\ UNCHANGED <<entry, named>>

\* Names not yet on disk may be gone, each for itself; what is left is on disk.
CachePowerLoss ==
  /\ Die(Builders)
  /\ \E root, a, m \in BOOLEAN :
       /\ "root" \in named => root
       /\ "entry" \in named => a /\ m
       /\ entry' = IF ~root \/ ~entry.dir THEN NoEntry
                   ELSE Filled(IF a THEN entry.artifact ELSE "absent",
                               IF m THEN entry.manifest ELSE "absent")
  /\ named' = IF entry'.dir THEN {"entry", "root"} ELSE {}

RunBuilder(b) ==
  \/ Compile(b) \/ Mkdir(b) \/ CopyArtifact(b) \/ WriteManifest(b)
  \/ FsyncDirectories(b) \/ FillFails(b) \/ RemoveTree(b)
  \/ VerifyManifest(b) \/ VerifyArtifact(b) \/ VerifyFails(b)

CacheNext == CachePowerLoss \/ \E b \in Builders : Start(b) \/ RunBuilder(b) \/ KillBuilder(b)

\* A process that is inside the call keeps running.
CacheSpec == CacheInit /\ [][CacheNext]_cacheVars /\ \A b \in Builders : WF_cacheVars(RunBuilder(b))

-----------------------------------------------------------------------------
Whole == entry.dir /\ entry.artifact \in Outputs /\ entry.manifest = entry.artifact
Filling(b) == cachePc[b] \in Publishing \cup {"rmtree"}

\* docs/WORKSPACE_NATIVE_CACHE.md, "Immutable cache entry": what a call published
\* and returned stays as it is, whatever other builders, their rollbacks, kills
\* or a power loss do afterwards.
PublishedStays ==
  \A b \in Builders :
    cacheResult[b].kind = "miss" => Whole /\ entry.artifact = cacheResult[b].sha

\* As long as no system call has failed and nobody has died, every call that returned has the one output the
\* entry holds, although each builder may have compiled a different one: a loser
\* of the race for mkdir never returns its own build.
ResultsAgree ==
  failures = 0 /\ deaths = 0 =>
    \A b \in Builders : cacheResult[b].kind \in {"hit", "miss"} =>
      Whole /\ entry.artifact = cacheResult[b].sha

\* Only one builder at a time writes into the directory or removes it.
OneFiller == \A b, c \in Builders : Filling(b) /\ Filling(c) => b = c

\* Without a death or a failing rollback no entry stays incomplete: its creator
\* finishes it or removes it.  An interrupted rollback may leave one for good.
IncompleteResolves ==
  (entry.dir /\ ~Whole) ~> (Whole \/ ~entry.dir \/ deaths > 0 \/ failures > 1)
=============================================================================
