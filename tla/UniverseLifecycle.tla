------------------------- MODULE UniverseLifecycle -------------------------
(***************************************************************************)
(* The lifecycle of one Universe plan: universe_state_machine_v1,          *)
(* universe_nuclear_containment_v1 and universe_rebirth_v1 are pure        *)
(* functions from one UniverseState to the next.                           *)
(*                                                                         *)
(* A UniverseState is an immutable value, so several holders may keep      *)
(* copies that diverge: each works on the value it has, may take over the  *)
(* value of another, and may restart from the initial state of its         *)
(* configuration.  Nothing here is shared; AuthorityRevocation and         *)
(* EpochFence add the two durable stores.  Digests are the values they     *)
(* bind.                                                                   *)
(***************************************************************************)
EXTENDS Naturals

CONSTANTS
  Sigil,       \* the sigils of the plan
  ka,          \* the genesis sigil, in the plan or not
  Holder,
  Evidence,    \* evidence digests
  NoEvidence,  \* the empty evidence of a fresh row
  MaxEpoch     \* bound on rebirths

ASSUME UniverseAssumption ==
  /\ Sigil # {}
  /\ MaxEpoch \in Nat \ {0}
  /\ NoEvidence \notin Evidence

VARIABLE universe   \* the UniverseState each holder has

Epoch == 1 .. MaxEpoch
SigilState == {"inactive", "prepared", "sealed", "active", "contained"}
Row == [state : SigilState, epoch : Epoch, evidence : Evidence \cup {NoEvidence}]
Universe == [Sigil -> Row]

LifecycleTypeOK == universe \in [Holder -> Universe]

-----------------------------------------------------------------------------

\* initial_universe_state, and the fresh rows of a rebirth
Inactive(epoch) ==
  [s \in Sigil |-> [state |-> "inactive", epoch |-> epoch, evidence |-> NoEvidence]]

\* Mutant of Allowed: a contained sigil may be prepared again.
AllowedReturn ==
  [inactive |-> {"prepared"}, prepared |-> {"sealed", "contained"},
   sealed |-> {"active", "contained"}, active |-> {"contained"},
   contained |-> {"prepared"}]

\* _ALLOWED
Allowed ==
  [inactive |-> {"prepared"}, prepared |-> {"sealed", "contained"},
   sealed |-> {"active", "contained"}, active |-> {"contained"}, contained |-> {}]

\* The checks of transition_sigil, the genesis rule included
CanMove(u, s, target) ==
  /\ target \in Allowed[u[s].state]
  /\ target = "active" /\ s # ka /\ ka \in Sigil => u[ka].state = "active"

Moved(u, s, target, evidence) ==
  [u EXCEPT ![s] = [state |-> target, epoch |-> u[s].epoch, evidence |-> evidence]]

\* contain_universe
Contained(u, evidence) ==
  [s \in Sigil |->
     IF u[s].state = "contained" THEN u[s]
     ELSE [state |-> "contained", epoch |-> u[s].epoch, evidence |-> evidence]]

FullyContained(u) == \A s \in Sigil : u[s].state = "contained"

\* {row.epoch for row in state.sigils}
Epochs(u) == {u[s].epoch : s \in Sigil}

-----------------------------------------------------------------------------
LifecycleInit == universe = [h \in Holder |-> Inactive(1)]

TransitionSigil(h, s, target, evidence) ==
  /\ CanMove(universe[h], s, target)
  /\ universe' = [universe EXCEPT ![h] = Moved(universe[h], s, target, evidence)]

\* contain_universe, and what enter_nuclear_containment does to the state
ContainUniverse(h, evidence) ==
  universe' = [universe EXCEPT ![h] = Contained(universe[h], evidence)]

\* rebirth_contained_universe of epoch e; no rebirth beyond MaxEpoch
RebirthContainedUniverse(h, e) ==
  /\ e < MaxEpoch
  /\ FullyContained(universe[h])
  /\ Epochs(universe[h]) = {e}
  /\ universe' = [universe EXCEPT ![h] = Inactive(e + 1)]

\* h takes over the state of another holder.
Adopt(h, g) == universe' = [universe EXCEPT ![h] = universe[g]]

\* h dies and comes back with the initial state of its configuration.
Restart(h) == universe' = [universe EXCEPT ![h] = Inactive(1)]

LifecycleNext ==
  \E h \in Holder :
    \/ \E s \in Sigil, target \in SigilState, evidence \in Evidence :
         TransitionSigil(h, s, target, evidence)
    \/ \E evidence \in Evidence : ContainUniverse(h, evidence)
    \/ \E e \in Epoch : RebirthContainedUniverse(h, e)
    \/ \E g \in Holder : Adopt(h, g)
    \/ Restart(h)

LifecycleSpec == LifecycleInit /\ [][LifecycleNext]_universe

-----------------------------------------------------------------------------
\* Genesis first: in no state that any sequence of transitions produces is a
\* sigil active while ka, if the plan has it, was never active (the rule is
\* checked only at the moment of activation).  No state mixes epochs, so the
\* split-epoch errors of containment, rebirth and fence are unreachable.
CoherentUniverses ==
  \A h \in Holder :
    /\ \E e \in Epoch : Epochs(universe[h]) = {e}
    /\ ka \in Sigil /\ (\E s \in Sigil : universe[h][s].state = "active")
         => universe[h][ka].state \in {"active", "contained"}

\* What a step may do to the state of a holder: take over a state that exists,
\* start again, leave the epoch and every contained row as they are, or go from
\* a state all of whose rows are contained to the next epoch with every row
\* inactive and without evidence.
LawfulChange(h) ==
  \/ universe'[h] \in {universe[g] : g \in Holder} \cup {Inactive(1)}
  \/ \A s \in Sigil : /\ universe'[h][s].epoch = universe[h][s].epoch
                      /\ universe[h][s].state = "contained"
                           => universe'[h][s] = universe[h][s]
  \/ /\ \A s \in Sigil : universe[h][s].state = "contained"
     /\ \E e \in Epoch : /\ Epochs(universe[h]) = {e}
                         /\ universe'[h] = Inactive(e + 1)

\* No resurrection: containment is left only through a rebirth, which carries
\* no state and no evidence into the new epoch.
NoResurrection == [][\A h \in Holder : LawfulChange(h)]_universe
=============================================================================
