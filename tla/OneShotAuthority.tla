-------------------------- MODULE OneShotAuthority --------------------------
(***************************************************************************)
(* What the durable execution boundaries of Koschei promise: a ticket (a   *)
(* request, a permit) is admitted at most once and only while its          *)
(* authority is live, its effect happens at most once and only after the   *)
(* admission, and an authority that was lost never comes back.  An         *)
(* admission is kept, so an effect may still happen after its authority    *)
(* ended.                                                                  *)
(*                                                                         *)
(* SathraExecution and AuthorizationStore implement it.                    *)
(***************************************************************************)
EXTENDS Naturals

CONSTANTS Authority, Ticket, AuthorityOf

VARIABLES standing, admitted, performed

vars == <<standing, admitted, performed>>

Init ==
  /\ standing = [a \in Authority |-> "absent"]
  /\ admitted = {}
  /\ performed = [t \in Ticket |-> 0]

Move(a, from, to) ==
  /\ standing[a] \in from
  /\ standing' = [standing EXCEPT ![a] = to]
  /\ UNCHANGED <<admitted, performed>>

Grant(a) == Move(a, {"absent"}, "live")
Suspend(a) == Move(a, {"live"}, "suspended")
End(a) == Move(a, {"live", "suspended"}, "ended")

Admit(t) ==
  /\ t \notin admitted
  /\ standing[AuthorityOf[t]] = "live"
  /\ admitted' = admitted \cup {t}
  /\ UNCHANGED <<standing, performed>>

Perform(t) ==
  /\ t \in admitted
  /\ performed[t] = 0
  /\ performed' = [performed EXCEPT ![t] = 1]
  /\ UNCHANGED <<standing, admitted>>

Next ==
  \/ \E a \in Authority : Grant(a) \/ Suspend(a) \/ End(a)
  \/ \E t \in Ticket : Admit(t) \/ Perform(t)

Spec == Init /\ [][Next]_vars
=============================================================================
