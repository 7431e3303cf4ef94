------------------------ MODULE AuthorityRevocation ------------------------
(***************************************************************************)
(* Sigil epoch tokens (universe_epoch_token_v1) and the durable registry   *)
(* that revokes them (universe_authority_revocation_v1), beside the        *)
(* diverging states of UniverseLifecycle.  The registry is the only shared *)
(* state; each of its insertions is one transaction, and its key makes a   *)
(* second revocation of the same thing an error.                           *)
(***************************************************************************)
EXTENDS UniverseLifecycle, FiniteSets

CONSTANTS
  NoToken,
  MaxRevokedTokens   \* bound on the TOKEN rows of the registry

VARIABLES
  token,         \* a SigilEpochToken that was minted, whoever has it
  nuclear,       \* the nuclear receipt each holder has, by its epoch; 0 if none
  revokedEpoch,  \* authority_revocations, scope EPOCH
  revokedToken,  \* authority_revocations, scope TOKEN
  killed         \* history: epochs whose nuclear revocation returned

registry == <<revokedEpoch, revokedToken, killed>>
revocationVars == <<universe, token, nuclear, registry>>

Token == [sigil : Sigil, epoch : Epoch, state : Universe]

RevocationTypeOK ==
  /\ LifecycleTypeOK
  /\ token = NoToken \/ token \in Token
  /\ nuclear \in [Holder -> Epoch \cup {0}]
  /\ revokedEpoch \subseteq Epoch
  /\ \A t \in revokedToken : t \in Token
  /\ killed \subseteq Epoch

-----------------------------------------------------------------------------
\* mint_sigil_epoch_token: its checks and the token
CanMint(u, s) == u[s].state = "active" /\ u[s].evidence # NoEvidence
Minted(u, s) == [sigil |-> s, epoch |-> u[s].epoch, state |-> u]

\* require_current_sigil_token: the state digest binds every row of the
\* state, the evidence of the token's row included.
IsCurrent(u, t) ==
  /\ u[t.sigil].state = "active"
  /\ u[t.sigil].epoch = t.epoch
  /\ t.state = u

\* Mutant of IsRevoked: the EPOCH rows are not consulted.
IsRevokedAlone(t) == t \in revokedToken

IsRevoked(t) == t.epoch \in revokedEpoch \/ t \in revokedToken

-----------------------------------------------------------------------------
RevocationInit ==
  /\ LifecycleInit
  /\ token = NoToken
  /\ nuclear = [h \in Holder |-> 0]
  /\ revokedEpoch = {} /\ revokedToken = {} /\ killed = {}

\* What a holder does to its state; rebirth does not touch token or receipt.
LiveWithTokens(h) ==
  /\ \/ \E s \in Sigil, target \in SigilState, evidence \in Evidence :
          TransitionSigil(h, s, target, evidence)
     \/ \E evidence \in Evidence : ContainUniverse(h, evidence)
     \/ \E e \in Epoch : RebirthContainedUniverse(h, e)
     \/ \E g \in Holder : Adopt(h, g)
  /\ UNCHANGED <<token, nuclear, registry>>

EnterNuclearContainment(h, evidence, e) ==
  /\ Epochs(universe[h]) = {e}
  /\ ContainUniverse(h, evidence)
  /\ nuclear' = [nuclear EXCEPT ![h] = e]
  /\ UNCHANGED <<token, registry>>

MintSigilEpochToken(h, s) ==
  /\ CanMint(universe[h], s)
  /\ token' = Minted(universe[h], s)
  /\ UNCHANGED <<universe, nuclear, registry>>

RevokeToken ==
  /\ token # NoToken
  /\ token \notin revokedToken
  /\ Cardinality(revokedToken) < MaxRevokedTokens
  /\ revokedToken' = revokedToken \cup {token}
  /\ UNCHANGED <<universe, token, nuclear, revokedEpoch, killed>>

RevokeEpoch(e) ==
  /\ e \notin revokedEpoch
  /\ revokedEpoch' = revokedEpoch \cup {e}
  /\ UNCHANGED <<universe, token, nuclear, revokedToken, killed>>

ApplyNuclearRevocation(h) ==
  /\ nuclear[h] # 0
  /\ nuclear[h] \notin revokedEpoch
  /\ revokedEpoch' = revokedEpoch \cup {nuclear[h]}
  /\ killed' = killed \cup {nuclear[h]}
  /\ UNCHANGED <<universe, token, nuclear, revokedToken>>

\* A holder that dies loses its state and its receipt; tokens were handed out.
CrashWithTokens(h) ==
  /\ Restart(h)
  /\ nuclear' = [nuclear EXCEPT ![h] = 0]
  /\ UNCHANGED <<token, registry>>

RevocationNext ==
  \/ \E h \in Holder :
       \/ LiveWithTokens(h)
       \/ \E evidence \in Evidence, e \in Epoch : EnterNuclearContainment(h, evidence, e)
       \/ \E s \in Sigil : MintSigilEpochToken(h, s)
       \/ ApplyNuclearRevocation(h)
       \/ CrashWithTokens(h)
  \/ RevokeToken
  \/ \E e \in Epoch : RevokeEpoch(e)

RevocationSpec == RevocationInit /\ [][RevocationNext]_revocationVars

-----------------------------------------------------------------------------
Accepted(h, t) == IsCurrent(universe[h], t) /\ ~IsRevoked(t)

\* An epoch killed by a nuclear revocation stays dead: no token of that epoch
\* is accepted against any state any holder still has, whether it was minted
\* before the revocation or afterwards from a stale copy of the state.
KilledEpochStaysDead ==
  \A h \in Holder :
    token # NoToken /\ Accepted(h, token) => token.epoch \notin killed
=============================================================================
