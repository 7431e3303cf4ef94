---------------------------- MODULE ReplayLedger ----------------------------
(***************************************************************************)
(* At-most-once enforcement of a privileged request over a replay ledger:  *)
(* enforce_once of koschei/native_sigil_replay_ledger_v1.py on either of   *)
(* its ledgers, the in-memory one shared by the threads of a process, and  *)
(* the SQLite one of koschei/native_sigil_durable_replay_ledger_v1.py      *)
(* shared by processes that may die.                                       *)
(*                                                                         *)
(* A request and a proof are their digests.  What the in-memory ledger     *)
(* knew is gone with its process, so only the durable one meets a death.   *)
(***************************************************************************)
EXTENDS Naturals

CONSTANTS
  Caller,
  Request,
  Proof,
  DecisionOf,  \* what enforcement decides on a proof
  NoProof

ASSUME ReplayAssumption ==
  /\ DecisionOf \in [Proof -> {"ALLOW", "DENY", "CONTAIN"}]
  /\ Proof # {} /\ NoProof \notin Proof
  /\ Request # {}

VARIABLES
  durable,  \* which of the two ledgers this is
  rows,     \* the record of each request
  pc,       \* where each caller is in enforce_once,
  call,     \* with its request and its proof,
  reply,    \* and what its last call returned
  ran       \* history: how often the effect of a request ran

replayVars == <<durable, rows, pc, call, reply, ran>>

FinalStates == {"COMMITTED", "REJECTED", "CONTAINED", "UNCERTAIN"}
NoRow == [state |-> "none", proof |-> NoProof]
Answers == {"none", "result", "refused", "tombstoned", "error"}

RecordTypes ==
  /\ rows \in [Request -> [state : {"none", "CLAIMED"} \cup FinalStates,
                           proof : Proof \cup {NoProof}]]
  /\ pc \in [Caller -> {"idle", "claimed", "decided", "raised"}]
  /\ call \in [Caller -> [request : Request, proof : Proof]]
  /\ reply \in [Caller -> Answers]
  /\ \A r \in Request : rows[r].state = "none" <=> rows[r].proof = NoProof
  /\ ran \in [Request -> Nat]

ReplayTypeOK == durable \in BOOLEAN /\ RecordTypes

ReplayInit ==
  /\ durable \in BOOLEAN
  /\ rows = [r \in Request |-> NoRow]
  /\ pc = [c \in Caller |-> "idle"]
  /\ call = [c \in Caller |-> [request |-> CHOOSE r \in Request : TRUE,
                               proof |-> CHOOSE p \in Proof : TRUE]]
  /\ reply = [c \in Caller |-> "none"]
  /\ ran = [r \in Request |-> 0]

-----------------------------------------------------------------------------
(* The ledger's two writes, each one critical section or transaction.      *)

\* claim: the request has no record (the PRIMARY KEY of the durable ledger).
Claimable(r) == rows[r].state = "none"

\* finalize: the record is a claim made with this proof.
ClaimFinalizable(r, p) == rows[r].state = "CLAIMED" /\ rows[r].proof = p

SettleRecord(r, p, state) == rows' = [rows EXCEPT ![r] = [state |-> state, proof |-> p]]

-----------------------------------------------------------------------------
(* enforce_once                                                            *)

Leave(c, a) ==
  /\ pc' = [pc EXCEPT ![c] = "idle"]
  /\ reply' = [reply EXCEPT ![c] = a]

\* The seals hold and the claim is taken; a refused claim changes nothing.
Claim(c, r, p) ==
  /\ pc[c] = "idle"
  /\ Claimable(r)
  /\ rows' = [rows EXCEPT ![r] = [state |-> "CLAIMED", proof |-> p]]
  /\ pc' = [pc EXCEPT ![c] = "claimed"]
  /\ call' = [call EXCEPT ![c] = [request |-> r, proof |-> p]]
  /\ reply' = [reply EXCEPT ![c] = "none"]
  /\ UNCHANGED <<durable, ran>>

\* enforce_bound_effect: only ALLOW invokes the effect, which may raise
\* before or after doing its work.
Decide(c) ==
  /\ pc[c] = "claimed"
  /\ \/ /\ DecisionOf[call[c].proof] # "ALLOW"
        /\ pc' = [pc EXCEPT ![c] = "decided"]
        /\ UNCHANGED ran
     \/ /\ DecisionOf[call[c].proof] = "ALLOW"
        /\ \E outcome \in {"decided", "raised"} :
             pc' = [pc EXCEPT ![c] = outcome]
        /\ ran' = [ran EXCEPT ![call[c].request] = @ + 1]
     \/ /\ DecisionOf[call[c].proof] = "ALLOW"
        /\ pc' = [pc EXCEPT ![c] = "raised"]
        /\ UNCHANGED ran
  /\ UNCHANGED <<durable, rows, call, reply>>

\* Mutant of StateFor: a raised effect is recorded as contained.
StateForContained(c) ==
  IF pc[c] = "raised" THEN "CONTAINED"
  ELSE [ALLOW |-> "COMMITTED", DENY |-> "REJECTED",
        CONTAIN |-> "CONTAINED"][DecisionOf[call[c].proof]]

StateFor(c) ==
  IF pc[c] = "raised" THEN "UNCERTAIN"
  ELSE [ALLOW |-> "COMMITTED", DENY |-> "REJECTED",
        CONTAIN |-> "CONTAINED"][DecisionOf[call[c].proof]]

AnswerFor(c) ==
  IF pc[c] = "raised" THEN "tombstoned"
  ELSE IF DecisionOf[call[c].proof] = "ALLOW" THEN "result" ELSE "refused"

\* The record is settled and the call returns, or finalize raises.
Finalize(c) ==
  /\ pc[c] \in {"decided", "raised"}
  /\ IF ClaimFinalizable(call[c].request, call[c].proof)
     THEN /\ SettleRecord(call[c].request, call[c].proof, StateFor(c))
          /\ Leave(c, AnswerFor(c))
     ELSE Leave(c, "error") /\ UNCHANGED rows
  /\ UNCHANGED <<durable, call, ran>>

\* BEGIN IMMEDIATE of finalize meets a locked database.
Busy(c) ==
  /\ durable
  /\ pc[c] \in {"decided", "raised"}
  /\ Leave(c, "error")
  /\ UNCHANGED <<durable, rows, call, ran>>

\* The process of a caller dies.
CrashCaller(c) ==
  /\ durable
  /\ pc[c] # "idle"
  /\ Leave(c, "none")
  /\ UNCHANGED <<durable, rows, call, ran>>

\* resolve_uncertain_after_recovery on a record of unresolved_claims, which
\* cannot tell a crashed claim from one in progress.
ResolveUncertain(r, p) ==
  /\ durable
  /\ ClaimFinalizable(r, p)
  /\ SettleRecord(r, p, "UNCERTAIN")
  /\ UNCHANGED <<durable, pc, call, reply, ran>>

ReplayNext ==
  \/ \E c \in Caller :
       \/ \E r \in Request, p \in Proof : Claim(c, r, p)
       \/ Decide(c) \/ Finalize(c) \/ Busy(c) \/ CrashCaller(c)
  \/ \E r \in Request, p \in Proof : ResolveUncertain(r, p)

ReplaySpec == ReplayInit /\ [][ReplayNext]_replayVars

-----------------------------------------------------------------------------
(* Properties.                                                             *)

\* However callers race, die, fail and retry, and whatever recovery tombstones
\* under a caller that is still running, the effect of a request runs at most
\* once: claim comes before the effect and no record is ever released.
AtMostOnce == \A r \in Request : ran[r] <= 1

\* What the ledger says of a request is true of its effect: a committed one
\* ran, a rejected, contained or unknown one did not.  Only CLAIMED and
\* UNCERTAIN leave it open.
FinalityTellsEffect ==
  \A r \in Request :
    /\ rows[r].state = "COMMITTED" => ran[r] = 1
    /\ rows[r].state \in {"none", "REJECTED", "CONTAINED"} => ran[r] = 0

\* A caller that was given a result finds its request committed under its own
\* proof from then on: recovery cannot have tombstoned it in between.
ResultIsCommitted ==
  \A c \in Caller :
    reply[c] = "result" =>
      rows[call[c].request] = [state |-> "COMMITTED", proof |-> call[c].proof]

\* A terminal record is never rewritten, and a claim never changes its proof.
FinalIsFinal ==
  [][\A r \in Request :
       /\ rows[r].state \in FinalStates => rows'[r] = rows[r]
       /\ rows[r].state = "CLAIMED" => rows'[r].proof = rows[r].proof]_replayVars

=============================================================================
