---------------------------- MODULE NativeReality ----------------------------
(***************************************************************************)
(* The epochs of a native reality project on disk: creation, source        *)
(* advance and rotation of koschei/native_reality_v1.py, and the rotation  *)
(* of a whole object graph of koschei/native_reality_graph_epoch_v1.py     *)
(* with the capsules of native_reality_graph_v1.py.                        *)
(*                                                                         *)
(* The sealed envelope names an epoch, the alias of the root source and    *)
(* its digest; matter/ holds sources under random aliases and, for a       *)
(* graph, a capsule under a name derived from the epoch.  All the sources  *)
(* a transition writes carry its attempt number as their alias.  Seals     *)
(* hold; a file's bytes are on disk before its writer goes on, a directory *)
(* entry only once the directory is synced.                                *)
(***************************************************************************)
EXTENDS Naturals, FiniteSets

CONSTANTS
  Object,           \* the source objects of a graph
  Root,             \* its root, the only object of a single-object project
  Capsule,          \* the name of the capsules' kind
  Writer,
  NoWriter,
  Version,          \* the texts of the root source
  MaxRealityEpoch,
  MaxAttempt,       \* bound on transitions tried
  FsyncMayFail      \* whether the sync of the reality directory may fail

\* A capsule is told from a source by the directory's naming scheme.
ASSUME RealityAssumption ==
  /\ Root \in Object /\ Capsule \notin Object
  /\ NoWriter \notin Writer
  /\ Version \subseteq Nat
  /\ MaxRealityEpoch \in Nat \ {0} /\ MaxAttempt \in Nat
  /\ FsyncMayFail \in BOOLEAN

VARIABLES
  graph,          \* whether the project is an object graph
  realityLayout,  \* whether the project's directories exist
  env,            \* the envelope that a reader opens: [epoch, alias, ver]
  envs,           \* the envelopes of which a power loss leaves one
  matter,         \* the entries of matter/, and
  matterDisk,     \* those that are on disk
  realityLock,    \* the holder of the exclusive transition
  step,           \* its transition: where it is,
  alias,          \* the alias it writes under,
  oldAlias,       \* the one it replaces,
  text,           \* the text of the root,
  written,        \* the sources it has written,
  capsule,        \* and whether the capsule is
  attempts,
  realityTold,    \* history: the last envelope a caller was given, and
  realityWins,    \* how often a caller was given an epoch
  realityClean    \* history: nothing died and no cleanup failed so far

transition == <<step, alias, oldAlias, text, written, capsule>>
realityHistory == <<realityTold, realityWins, realityClean>>
realityVars ==
  <<graph, realityLayout, env, envs, matter, matterDisk, realityLock, transition,
    attempts, realityHistory>>

NoEnv == [epoch |-> 0, alias |-> 0, ver |-> 0]
Objects == IF graph THEN Object ELSE {Root}

\* A source under an alias; a capsule under the name of its epoch.
SourceEntry(o, a, v) == [kind |-> o, name |-> a, content |-> IF o = Root THEN v ELSE 0]
CapsuleOf(e, a) == [kind |-> Capsule, name |-> e, content |-> a]
Entry == [kind : Object \cup {Capsule}, name : Nat, content : Nat]

OnePerName(m) == \A e, f \in m : e.kind = f.kind /\ e.name = f.name => e = f

Envelope == [epoch : 0 .. MaxRealityEpoch, alias : 0 .. MaxAttempt, ver : Version \cup {0}]
Steps == {"none", "sources", "capsule", "switch", "switched", "cleanup"}

RealityTypeOK ==
  /\ graph \in BOOLEAN /\ realityLayout \in BOOLEAN /\ realityClean \in BOOLEAN
  /\ env \in Envelope /\ realityTold \in Envelope /\ envs \subseteq Envelope
  /\ matter \subseteq Entry /\ matterDisk \subseteq Entry
  /\ realityLock \in Writer \cup {NoWriter}
  /\ step \in Steps /\ (realityLock = NoWriter <=> step = "none")
  /\ alias \in 0 .. MaxAttempt /\ oldAlias \in 0 .. MaxAttempt
  /\ text \in Version \cup {0} /\ written \subseteq Object /\ capsule \in BOOLEAN
  /\ attempts \in 0 .. MaxAttempt
  /\ realityWins \in [0 .. MaxRealityEpoch -> Nat]

\* Some sources and perhaps the capsule, under alias a and of epoch n.
FilesOf(objects, sealed, a, v, n) ==
  {SourceEntry(o, a, v) : o \in objects} \cup (IF sealed THEN {CapsuleOf(n, a)} ELSE {})

\* What a load of an envelope opens, _load_from_handles and
\* load_native_reality_graph_project
Needed(e) == FilesOf(Objects, graph, e.alias, e.ver, e.epoch)

RealityLoadable(e, m) == Needed(e) \subseteq m

RealityInit ==
  /\ graph \in BOOLEAN /\ realityLayout = FALSE
  /\ env = NoEnv /\ envs = {NoEnv}
  /\ matter = {} /\ matterDisk = {}
  /\ realityLock = NoWriter
  /\ step = "none" /\ alias = 0 /\ oldAlias = 0 /\ text = 0 /\ written = {} /\ capsule = FALSE
  /\ attempts = 0
  /\ realityTold = NoEnv
  /\ realityWins = [e \in 0 .. MaxRealityEpoch |-> 0]
  /\ realityClean = TRUE

-----------------------------------------------------------------------------
(* A transition, or the creation of the project when there is none.        *)

StartTransition(w, v) ==
  /\ realityLock = NoWriter /\ attempts < MaxAttempt
  /\ realityLock' = w
  /\ attempts' = attempts + 1
  /\ step' = "sources" /\ alias' = attempts + 1 /\ oldAlias' = env.alias
  /\ text' = v /\ written' = {} /\ capsule' = FALSE
  /\ UNCHANGED <<graph, env, envs, matter, matterDisk, realityHistory>>

\* The transition is over, and its lock is released.
EndTransition ==
  /\ realityLock' = NoWriter
  /\ step' = "none" /\ alias' = 0 /\ oldAlias' = 0
  /\ text' = 0 /\ written' = {} /\ capsule' = FALSE

\* A creation finds the directory empty and makes the layout.
CreateReality(w, v) ==
  /\ ~realityLayout
  /\ realityLayout' = TRUE
  /\ StartTransition(w, v)

\* The lock is taken and the epoch the caller knows authenticated and loaded.
\* Only a single object changes its text.
BeginTransition(w, expected, v) ==
  /\ realityLayout /\ env.epoch > 0
  /\ expected = env.epoch /\ expected < MaxRealityEpoch
  /\ RealityLoadable(env, matter)
  /\ graph => v = env.ver
  /\ StartTransition(w, v)
  /\ UNCHANGED realityLayout

\* _write_exclusive_at of the next source
WriteSource(o) ==
  /\ step = "sources" /\ o \in Objects \ written
  /\ matter' = matter \cup {SourceEntry(o, alias, text)}
  /\ written' = written \cup {o}
  /\ UNCHANGED <<graph, realityLayout, env, envs, matterDisk, realityLock, step, alias,
                 oldAlias, text, capsule, attempts, realityHistory>>

\* os.fsync(matter_fd), once the sources and once the capsule are written; a
\* creation syncs both together.
SyncMatter ==
  /\ \/ /\ step = "sources" /\ written = Objects
        /\ graph => env.epoch > 0
        /\ step' = IF graph THEN "capsule" ELSE "switch"
     \/ /\ step = "capsule" /\ capsule
        /\ step' = "switch"
  /\ matterDisk' = matter
  /\ UNCHANGED <<graph, realityLayout, env, envs, matter, realityLock, alias, oldAlias,
                 text, written, capsule, attempts, realityHistory>>

CapsuleDue ==
  /\ ~capsule
  /\ \/ step = "capsule"
     \/ step = "sources" /\ written = Objects /\ graph /\ env.epoch = 0

CapsuleTaken == \E e \in matter : e.kind = Capsule /\ e.name = env.epoch + 1

\* Mutant of WriteCapsule: the envelope is switched without a further sync.
WriteCapsuleUnsynced ==
  /\ CapsuleDue /\ ~CapsuleTaken
  /\ matter' = matter \cup {CapsuleOf(env.epoch + 1, alias)}
  /\ capsule' = TRUE /\ step' = "switch"
  /\ UNCHANGED <<graph, realityLayout, env, envs, matterDisk, realityLock, alias, oldAlias,
                 text, written, attempts, realityHistory>>

\* The capsule of the next epoch, create-only.
WriteCapsule ==
  /\ CapsuleDue /\ ~CapsuleTaken
  /\ matter' = matter \cup {CapsuleOf(env.epoch + 1, alias)}
  /\ capsule' = TRUE /\ step' = "capsule"
  /\ UNCHANGED <<graph, realityLayout, env, envs, matterDisk, realityLock, alias, oldAlias,
                 text, written, attempts, realityHistory>>

NextEnv == [epoch |-> env.epoch + 1, alias |-> alias, ver |-> text]

\* The new envelope is renamed over the old one (written, on creation).
SwitchEnvelope ==
  /\ step = "switch"
  /\ env' = NextEnv
  /\ envs' = envs \cup {NextEnv}
  /\ step' = "switched"
  /\ UNCHANGED <<graph, realityLayout, matter, matterDisk, realityLock, alias, oldAlias,
                 text, written, capsule, attempts, realityHistory>>

\* os.fsync(reality_fd)
SyncReality ==
  /\ step = "switched"
  /\ envs' = {env}
  /\ step' = "cleanup"
  /\ UNCHANGED <<graph, realityLayout, env, matter, matterDisk, realityLock, alias,
                 oldAlias, text, written, capsule, attempts, realityHistory>>

\* The files of the epoch before; remnants of dead writers have other names.
ReplacedMatter ==
  {e \in matter : e.name = IF e.kind = Capsule THEN env.epoch - 1 ELSE oldAlias}

\* Best-effort removal of a set of files: some may stay, and the removal
\* may stay unsynced.
RemoveMatter(files, some) ==
  /\ some \subseteq files
  /\ matter' = (matter \ files) \cup some
  /\ matterDisk' \in {matter', matterDisk}
  /\ realityClean' = (realityClean /\ some = {})

\* The old sources and the old capsule are unlinked and the caller is told.
CleanupMatter(some) ==
  /\ step = "cleanup"
  /\ RemoveMatter(ReplacedMatter, some)
  /\ realityTold' = env
  /\ realityWins' = [realityWins EXCEPT ![env.epoch] = @ + 1]
  /\ EndTransition
  /\ UNCHANGED <<graph, realityLayout, env, envs, attempts>>

\* What the transition to an epoch has written so far.
WrittenMatter(epoch) == FilesOf(written, capsule, alias, text, epoch)

\* A step before the switch fails, the create-only capsule included: what was
\* written is removed again, by a creation the layout too.
TransitionFails(some) ==
  /\ step \in {"sources", "capsule", "switch"}
  /\ RemoveMatter(WrittenMatter(env.epoch + 1), some)
  /\ realityLayout' = (env.epoch > 0 \/ some # {})
  /\ EndTransition
  /\ UNCHANGED <<graph, env, envs, attempts, realityTold, realityWins>>

\* The envelope was renamed, then the sync of its directory fails: the handler
\* takes the switch for not done and removes the new files.  A creation removes
\* its envelope too.
SwitchFails(some) ==
  /\ FsyncMayFail
  /\ step = "switched"
  /\ IF env.epoch = 1
     THEN env' = NoEnv /\ envs' = envs \cup {NoEnv} /\ realityLayout' = (some # {})
     ELSE UNCHANGED <<env, envs, realityLayout>>
  /\ RemoveMatter(WrittenMatter(env.epoch), some)
  /\ EndTransition
  /\ UNCHANGED <<graph, attempts, realityTold, realityWins>>

-----------------------------------------------------------------------------
(* Deaths.                                                                 *)

\* The writer dies and its lock with it.
KillTransition ==
  /\ realityLock # NoWriter
  /\ EndTransition
  /\ realityClean' = FALSE
  /\ UNCHANGED <<graph, realityLayout, env, envs, matter, matterDisk, attempts,
                 realityTold, realityWins>>

\* What was not synced may or may not be there afterwards; an envelope that
\* was being created is whole or taken for absent.
RealityPowerLoss(e, lost) ==
  /\ envs # {env} \/ matter # matterDisk
  /\ e \in envs
  /\ lost \subseteq (matter \ matterDisk) \cup (matterDisk \ matter)
  /\ LET m == (matter \cup matterDisk) \ lost
     IN OnePerName(m) /\ matter' = m /\ matterDisk' = m
  /\ env' = e /\ envs' = {e}
  /\ EndTransition
  /\ realityClean' = FALSE
  /\ realityLayout' \in {TRUE} \cup (IF matter' = {} /\ e = NoEnv THEN {FALSE} ELSE {})
  /\ UNCHANGED <<graph, attempts, realityTold, realityWins>>

RealityNext ==
  \/ \E w \in Writer, v \in Version : CreateReality(w, v)
  \/ \E w \in Writer, e \in 0 .. MaxRealityEpoch, v \in Version : BeginTransition(w, e, v)
  \/ \E o \in Object : WriteSource(o)
  \/ SyncMatter \/ WriteCapsule \/ SwitchEnvelope \/ SyncReality
  \/ \E some \in SUBSET matter :
       CleanupMatter(some) \/ TransitionFails(some) \/ SwitchFails(some)
  \/ KillTransition
  \/ \E e \in envs, lost \in SUBSET ((matter \ matterDisk) \cup (matterDisk \ matter)) :
       RealityPowerLoss(e, lost)

RealitySpec == RealityInit /\ [][RealityNext]_realityVars

-----------------------------------------------------------------------------
(* Properties.                                                             *)

\* "A crash before the switch leaves the previous reality authoritative"
\* (docs/NATIVE_REALITY_PROJECT_V1.md): at every moment, also after a death or
\* a power loss, the envelope on disk names files that are there.
AlwaysLoadable == env.epoch > 0 => RealityLoadable(env, matter)

\* "A failed reality switch leaves the previous epoch authoritative"
\* (docs/NATIVE_REALITY_GRAPH_V1.md): a graph that was created can be loaded
\* after every transition, failed ones included.  The code keeps this unless
\* the directory sync fails after the rename of the envelope.
FailedSwitchKeepsEpoch ==
  graph /\ realityTold.epoch > 0 => RealityLoadable(env, matter)

\* A transition that returned is not undone: a later failure, death or power
\* loss leaves that epoch or a later one, and the same text within the epoch.
ToldStays ==
  /\ env.epoch >= realityTold.epoch
  /\ env.epoch = realityTold.epoch => env = realityTold

\* "two writers both claiming epoch N cannot silently overwrite one another":
\* no two transitions are told that they created the same epoch.
OneWinner == \A e \in 1 .. MaxRealityEpoch : realityWins[e] <= 1

\* As long as nothing dies and every unlink succeeds, matter/ holds between
\* two transitions the files of the current epoch and nothing else: a failed
\* transition removes what it wrote, a successful one what it replaced.
NoResidue ==
  realityClean /\ realityLock = NoWriter =>
    matter = IF env.epoch = 0 THEN {} ELSE Needed(env)

\* The promise of a transition of a native reality: it happens as a whole, for
\* one caller, for good, and leaves nothing else behind.  It holds as long as the
\* sync of the envelope's directory does not fail (FsyncMayFail FALSE): see
\* FailedSwitchKeepsEpoch.
RealityIsAtomic == AlwaysLoadable /\ ToldStays /\ OneWinner /\ NoResidue

=============================================================================
