---------------------------- MODULE AliasRotation ----------------------------
(***************************************************************************)
(* koschei/epoch_alias_rotation_v1.py: the objects of a protected graph    *)
(* are renamed to the aliases of a new storage epoch in two phases, then   *)
(* the graph that names them is published.  A failing step is rolled back, *)
(* a failing publication by the same procedure on the reversed plan.       *)
(*                                                                         *)
(* The keyed derivation gives an object a new alias or, in the same epoch, *)
(* the alias it has; Plans also contains the plans a caller of             *)
(* apply_alias_moves_atomically may write by hand.                         *)
(***************************************************************************)
EXTENDS Integers, Sequences

CONSTANTS
  Object,
  Alias,
  Admitted,   \* the alias of every object in the admitted graph
  Stranger,   \* an alias under which an unrelated file may be found
  Plans,      \* sequences of moves [object, from, to]
  MaxFaults   \* bound on operations of the file system that fail

VARIABLES
  disk,     \* what every name holds: an object, "other" or "nothing"
  graph,    \* the published alias of every object
  plan,     \* the moves being applied
  reverse,  \* whether they undo an earlier application
  pc, at,   \* the step and the next move of the plan
  staged,   \* the objects under their temporary name, or further, and
  final,    \* those installed under their new alias
  faults,
  broken,   \* a rollback step failed
  stranger  \* whether the unrelated file was there

vars == <<disk, graph, plan, reverse, pc, at, staged, final, faults, broken, stranger>>

Temp(o) == <<"temporary", o>>

\* Temporary names are fresh; a plan moves each of its objects once, from the
\* alias that the admitted graph gives it.
ASSUME RotationAssumption ==
  /\ Admitted \in [Object -> Alias]
  /\ \A o, q \in Object : Admitted[o] = Admitted[q] => o = q
  /\ Stranger \in Alias /\ \A o \in Object : Admitted[o] # Stranger /\ Temp(o) \notin Alias
  /\ Object \cap {"other", "nothing"} = {}
  /\ Plans \subseteq Seq([object : Object, from : Alias, to : Alias])
  /\ \A p \in Plans :
       /\ p # <<>>
       /\ \A i \in DOMAIN p : p[i].from = Admitted[p[i].object]
       /\ \A i, j \in DOMAIN p : p[i].object = p[j].object => i = j

Name == Alias \cup {Temp(o) : o \in Object}
Held == Object \cup {"other", "nothing"}

FirstDisk(other) ==
  [n \in Name |->
     IF \E o \in Object : Admitted[o] = n THEN CHOOSE o \in Object : Admitted[o] = n
     ELSE IF other /\ n = Stranger THEN "other" ELSE "nothing"]

Ended == {"done", "refused", "rolled back", "incomplete", "dead"}

TypeOK ==
  /\ disk \in [Name -> Held]
  /\ graph \in [Object -> Alias]
  /\ plan \in Plans \cup {[i \in DOMAIN p |-> [object |-> p[i].object, from |-> p[i].to,
                                                to |-> p[i].from]] : p \in Plans}
  /\ reverse \in BOOLEAN /\ broken \in BOOLEAN /\ stranger \in BOOLEAN
  /\ pc \in {"preflight", "stage", "install", "verify", "publish", "rollback"} \cup Ended
  /\ at \in 0 .. Len(plan) + 1
  /\ final \subseteq staged /\ staged \subseteq Object
  /\ pc = "publish" => final = Object /\ ~reverse
  /\ faults \in 0 .. MaxFaults

Init ==
  /\ stranger \in BOOLEAN
  /\ disk = FirstDisk(stranger)
  /\ graph = Admitted
  /\ plan \in Plans
  /\ reverse = FALSE
  /\ pc = "preflight" /\ at = 1
  /\ staged = {} /\ final = {}
  /\ faults = 0 /\ broken = FALSE

Move == plan[at]

\* os.replace: the destination is overwritten
Replace(from, to) ==
  disk' = IF from = to THEN disk ELSE [disk EXCEPT ![to] = disk[from], ![from] = "nothing"]

Fault == faults < MaxFaults /\ faults' = faults + 1

-----------------------------------------------------------------------------

\* Mutant of PreflightOK: an occupied destination is not noticed.
PreflightOKBlind(p) == \A i \in DOMAIN p : disk[p[i].from] # "nothing"

\* _preflight_moves
PreflightOK(p) ==
  /\ \A i, j \in DOMAIN p : i # j => p[i].from # p[j].from /\ p[i].to # p[j].to
  /\ \A i \in DOMAIN p : disk[p[i].from] # "nothing"
  /\ \A i \in DOMAIN p :
       disk[p[i].to] = "nothing" \/ \E j \in DOMAIN p : p[j].from = p[i].to

\* A plan that does not fit is refused; on the way back that leaves the
\* storage where it is.
Preflight ==
  /\ pc = "preflight"
  /\ pc' = IF PreflightOK(plan) THEN "stage" ELSE IF reverse THEN "incomplete" ELSE "refused"
  /\ UNCHANGED <<disk, graph, plan, reverse, at, staged, final, faults, broken, stranger>>

Forward(next) ==
  IF at = Len(plan) THEN pc' = next /\ at' = 1 ELSE at' = at + 1 /\ UNCHANGED pc

\* First phase: to a temporary name.
Stage ==
  /\ pc = "stage"
  /\ Replace(Move.from, Temp(Move.object))
  /\ staged' = staged \cup {Move.object}
  /\ Forward("install")
  /\ UNCHANGED <<graph, plan, reverse, final, faults, broken, stranger>>

\* Second phase: to the new alias.
Install ==
  /\ pc = "install"
  /\ Replace(Temp(Move.object), Move.to)
  /\ final' = final \cup {Move.object}
  /\ Forward("verify")
  /\ UNCHANGED <<graph, plan, reverse, staged, faults, broken, stranger>>

\* Every destination holds what its source held.
Verify ==
  /\ pc = "verify"
  /\ \A i \in DOMAIN plan : disk[plan[i].to] = plan[i].object
  /\ pc' = IF reverse THEN "rolled back" ELSE "publish"
  /\ UNCHANGED <<disk, graph, plan, reverse, at, staged, final, faults, broken, stranger>>

\* A rename, or a read of the verification, fails.
StepFails ==
  /\ pc \in {"stage", "install", "verify"}
  /\ Fault
  /\ pc' = "rollback" /\ at' = Len(plan)
  /\ UNCHANGED <<disk, graph, plan, reverse, staged, final, broken, stranger>>

Current(m) == IF m.object \in final THEN m.to ELSE Temp(m.object)

\* Where a rollback that reached the first move ends.
RolledBack ==
  IF at > 1
  THEN at' = at - 1 /\ UNCHANGED pc
  ELSE /\ at' = 1
       /\ pc' = IF reverse \/ broken' THEN "incomplete" ELSE "rolled back"

\* The moves are undone last to first; one that fails is recorded and the
\* others still tried.
Rollback ==
  /\ pc = "rollback"
  /\ \/ /\ IF Move.object \in staged /\ disk[Current(Move)] # "nothing"
           THEN Replace(Current(Move), Move.from)
           ELSE UNCHANGED disk
        /\ UNCHANGED <<faults, broken>>
     \/ /\ Move.object \in staged
        /\ Fault /\ broken' = TRUE
        /\ UNCHANGED disk
  /\ RolledBack
  /\ UNCHANGED <<graph, plan, reverse, staged, final, stranger>>

\* The new graph replaces the old one in one rename.
Publish ==
  /\ pc = "publish"
  /\ graph' = [o \in Object |->
                 IF \E i \in DOMAIN plan : plan[i].object = o
                 THEN plan[CHOOSE i \in DOMAIN plan : plan[i].object = o].to
                 ELSE graph[o]]
  /\ pc' = "done"
  /\ UNCHANGED <<disk, plan, reverse, at, staged, final, faults, broken, stranger>>

\* The graph cannot be written: the moves are applied backwards.
PublishFails ==
  /\ pc = "publish"
  /\ Fault
  /\ plan' = [i \in DOMAIN plan |-> [object |-> plan[i].object, from |-> plan[i].to,
                                     to |-> plan[i].from]]
  /\ reverse' = TRUE
  /\ pc' = "preflight" /\ at' = 1
  /\ staged' = {} /\ final' = {}
  /\ UNCHANGED <<disk, graph, broken, stranger>>

\* The process dies.
Kill ==
  /\ pc \notin Ended
  /\ pc' = "dead"
  /\ UNCHANGED <<disk, graph, plan, reverse, at, staged, final, faults, broken, stranger>>

Stop == pc \in Ended /\ UNCHANGED vars

Next ==
  \/ Preflight \/ Stage \/ Install \/ Verify \/ StepFails \/ Rollback
  \/ Publish \/ PublishFails \/ Kill \/ Stop

Spec == Init /\ [][Next]_vars

-----------------------------------------------------------------------------
(* Properties.                                                             *)

\* "prevents partial direct rename chains from overwriting another canonical
\* object": whatever fails, and wherever the process dies, every object and the
\* unrelated file are still in the store under some name.  A plan that moves an
\* object to the alias another one leaves breaks it: the rollback renames over
\* what is already installed.
NothingLost ==
  /\ \A o \in Object : \E n \in Name : disk[n] = o
  /\ stranger => disk[Stranger] = "other"

\* A swap or a chain: some object takes the alias of another.
Chained == \E i, j \in DOMAIN plan : i # j /\ plan[i].to = plan[j].from

\* The part of it that holds: swaps and chains lose nothing, wherever the process
\* dies, as long as no operation fails; other plans lose nothing at all.
NothingLostUnlessUndone == (Chained => faults = 0) => NothingLost

=============================================================================
