-------------------------- MODULE RunnerAccounting --------------------------
(***************************************************************************)
(* The prepaid accounting of the secure runner: DurablePilotBudget of      *)
(* koschei/runner_durable_budget.py (reserve before a run, settle after    *)
(* it) and AtomicPilotAccounting of koschei/runner_accounting.py (settle   *)
(* together with the usage record), on one SQLite database.  Every         *)
(* operation is one BEGIN IMMEDIATE transaction; one that raises rolls     *)
(* back.  Callers are processes that race, retry and give up; the order of *)
(* their calls is arbitrary.                                               *)
(*                                                                         *)
(* Amounts are cents.                                                      *)
(***************************************************************************)
EXTENDS Integers, FiniteSetsExt

CONSTANTS
  Tenant,
  Run,        \* run identities
  Seeds,      \* the opening balances that occur
  Durations,  \* the durations, authorized and measured, that occur
  NoTenant,
  NoUsage

ASSUME AccountingAssumption ==
  /\ Seeds \subseteq Nat
  /\ Durations \subseteq Nat

VARIABLES
  balance,  \* pilot_balance: cents available, -1 without a row
  hold,     \* pilot_hold, by run
  usage,    \* runner_usage, by run
  seeded    \* history: what each tenant was seeded with

runnerVars == <<balance, hold, usage, seeded>>

\* A run without a row in pilot_hold has state "none".
Hold == [tenant : Tenant \cup {NoTenant}, reserved : Nat, max : Nat,
         state : {"none", "active", "settled"}, charged : Nat]
NoHold == [tenant |-> NoTenant, reserved |-> 0, max |-> 0,
           state |-> "none", charged |-> 0]
Usage == [tenant : Tenant, ms : Nat, billable : BOOLEAN]

RunnerTypeOK ==
  /\ balance \in [Tenant -> Nat \cup {-1}]
  /\ hold \in [Run -> Hold]
  /\ usage \in [Run -> Usage \cup {NoUsage}]
  /\ seeded \in [Tenant -> Nat]

RunnerInit ==
  /\ balance = [t \in Tenant |-> -1]
  /\ hold = [r \in Run |-> NoHold]
  /\ usage = [r \in Run |-> NoUsage]
  /\ seeded = [t \in Tenant |-> 0]

-----------------------------------------------------------------------------
(* The tariff.                                                             *)

\* USD_PER_SECOND is one cent.
MsPerCent == 1000

\* to_integral_value(ROUND_HALF_UP) of milliseconds to cents
RoundHalfUp(ms) == (2 * ms + MsPerCent) \div (2 * MsPerCent)

\* to_integral_value(ROUND_CEILING): what reserve holds back
ReserveCents(max) == (max + MsPerCent - 1) \div MsPerCent

\* settle: each run is rounded by itself.
SingleCharge(ms, billable) == IF billable THEN RoundHalfUp(ms) ELSE 0

\* settle_run: only the increase of the tenant's rounded invoice.
IncreaseCharge(prior, ms, billable) ==
  RoundHalfUp(prior + (IF billable THEN ms ELSE 0)) - RoundHalfUp(prior)

\* prior_ms: the billable milliseconds on the tenant's usage records
BilledMs(t) ==
  MapThenSumSet(LAMBDA r : usage[r].ms,
                {r \in Run : usage[r] # NoUsage /\ usage[r].tenant = t
                               /\ usage[r].billable})

-----------------------------------------------------------------------------
SeedTenant(t, cents) ==
  /\ balance[t] = -1
  /\ balance' = [balance EXCEPT ![t] = cents]
  /\ seeded' = [seeded EXCEPT ![t] = cents]
  /\ UNCHANGED <<hold, usage>>

\* The conditional UPDATE of the balance and the INSERT of the hold, whose
\* primary key is the run.
Reserve(t, r, max) ==
  /\ max > 0
  /\ balance[t] >= ReserveCents(max)
  /\ hold[r].state = "none"
  /\ balance' = [balance EXCEPT ![t] = @ - ReserveCents(max)]
  /\ hold' = [hold EXCEPT ![r] =
       [tenant |-> t, reserved |-> ReserveCents(max), max |-> max,
        state |-> "active", charged |-> 0]]
  /\ UNCHANGED <<usage, seeded>>

\* Mutant of Settleable: the SELECT without state='active'.
SettleableAgain(t, r, ms) ==
  hold[r].tenant = t /\ ms <= hold[r].max

\* The row that settle and settle_run select, and the duration check.
Settleable(t, r, ms) ==
  /\ hold[r].tenant = t
  /\ hold[r].state = "active"
  /\ ms <= hold[r].max

\* The two UPDATEs that close a hold.
CloseHold(t, r, cents) ==
  /\ cents <= hold[r].reserved
  /\ hold' = [hold EXCEPT ![r] =
       [tenant |-> t, reserved |-> hold[r].reserved, max |-> hold[r].max,
        state |-> "settled", charged |-> cents]]
  /\ balance' = [balance EXCEPT ![t] = @ + hold[r].reserved - cents]
  /\ UNCHANGED seeded

\* DurablePilotBudget.settle, inherited by AtomicPilotAccounting
Settle(t, r, ms, billable) ==
  /\ Settleable(t, r, ms)
  /\ CloseHold(t, r, SingleCharge(ms, billable))
  /\ UNCHANGED usage

\* Mutant of SettleRun: the usage of a run that settle has closed is still
\* recorded.
SettleRunLate(t, r, ms, billable) ==
  /\ hold[r].tenant = t /\ ms <= hold[r].max
  /\ usage[r] = NoUsage
  /\ IF hold[r].state = "active" THEN CloseHold(t, r, IncreaseCharge(BilledMs(t), ms, billable))
     ELSE UNCHANGED <<balance, hold, seeded>>
  /\ usage' = [usage EXCEPT ![r] = [tenant |-> t, ms |-> ms, billable |-> billable]]

\* settle_run: usage record, hold and balance in one transaction
SettleRun(t, r, ms, billable) ==
  /\ Settleable(t, r, ms)
  /\ usage[r] = NoUsage
  /\ CloseHold(t, r, IncreaseCharge(BilledMs(t), ms, billable))
  /\ usage' = [usage EXCEPT ![r] = [tenant |-> t, ms |-> ms, billable |-> billable]]

RunnerNext ==
  \E t \in Tenant :
    \/ \E cents \in Seeds : SeedTenant(t, cents)
    \/ \E r \in Run, ms \in Durations :
         \/ Reserve(t, r, ms)
         \/ \E billable \in BOOLEAN :
              Settle(t, r, ms, billable) \/ SettleRun(t, r, ms, billable)

RunnerSpec == RunnerInit /\ [][RunnerNext]_runnerVars

-----------------------------------------------------------------------------
HoldsOf(t) == {r \in Run : hold[r].tenant = t}

\* Money is conserved: what a tenant was seeded with is what is available plus
\* what is reserved by active holds plus what was charged, whatever the order
\* of reservations, settlements of either kind and repeated settlements.  (A hold
\* of a runner that died stays reserved: nothing releases it.)
Conservation ==
  \A t \in Tenant : balance[t] # -1 =>
    seeded[t] = balance[t]
      + MapThenSumSet(LAMBDA r : IF hold[r].state = "active"
                                 THEN hold[r].reserved ELSE hold[r].charged,
                      HoldsOf(t))

\* A run is settled once: no later call changes its hold or its usage record,
\* and a usage record is only ever written together with the settlement.
SettledIsFinal ==
  [][\A r \in Run :
       /\ hold[r].state = "settled"
            => hold'[r] = hold[r] /\ usage'[r] = usage[r]
       /\ usage'[r] # NoUsage => hold'[r].state = "settled"]_runnerVars
=============================================================================
