---------------------------- MODULE FilesProofs -----------------------------
(***************************************************************************)
(* What holds of the workspace build (WorkspaceBuild), of the rotation of  *)
(* storage aliases (AliasRotation) and of the cache of native build        *)
(* outputs (NativeCache) for any number of builds, builders, versions,     *)
(* objects, moves and faults.                                              *)
(***************************************************************************)
EXTENDS WorkspaceBuild, AliasRotation, NativeCache, TLAPS

-----------------------------------------------------------------------------
(* The alias rotation.                                                     *)

\* A plan whose aliases are derived afresh: no object is moved to an alias that
\* another object of the plan is moved from.
Derived(p) == \A i, j \in DOMAIN p : i # j => p[i].to # p[j].from

\* The names that a move uses.
Territory(m) == {m.from, Temp(m.object), m.to}

\* The plan in either direction.
PlanInv ==
  /\ plan \in Seq([object : Object, from : Alias, to : Alias]) /\ Len(plan) >= 1
  /\ \A i, j \in DOMAIN plan : i # j => plan[i].object # plan[j].object /\ plan[i].to # plan[j].from
  /\ at \in DOMAIN plan

\* Once a plan has passed the checks, its moves do not meet.
Apart ==
  \A i, j \in DOMAIN plan : i # j => plan[i].from # plan[j].from /\ plan[i].to # plan[j].to

\* Each object that is moved is under one of the names of its move; the others
\* and the unrelated file are where they were.
WhereInv ==
  /\ disk \in [Name -> Held]
  /\ \A i \in DOMAIN plan : \E n \in Territory(plan[i]) : disk[n] = plan[i].object
  /\ \A o \in Object : (\A i \in DOMAIN plan : plan[i].object # o) => disk[Admitted[o]] = o
  /\ stranger => disk[Stranger] = "other"

\* The names of a move that passed the checks hold its object or nothing.
OwnInv == \A i \in DOMAIN plan : \A n \in Territory(plan[i]) : disk[n] \in {plan[i].object, "nothing"}

Moving == {"stage", "install", "verify", "publish", "rollback"}

\* How far the two phases are.
PhaseInv ==
  /\ pc \in Moving => OwnInv /\ Apart
  /\ reverse => OwnInv /\ Apart
  /\ pc = "preflight" => at = 1
  /\ pc = "preflight" /\ ~reverse => \A i \in DOMAIN plan :
       disk[plan[i].from] = plan[i].object /\ disk[Temp(plan[i].object)] = "nothing"
  /\ pc = "stage" => \A i \in DOMAIN plan :
       disk[IF i < at THEN Temp(plan[i].object) ELSE plan[i].from] = plan[i].object
  /\ pc = "install" => \A i \in DOMAIN plan : i >= at => disk[Temp(plan[i].object)] = plan[i].object

RotationInv == PlanInv /\ WhereInv /\ PhaseInv

LEMMA TempDistinct == \A o, q \in Object : Temp(o) = Temp(q) => o = q
  BY Zenon DEF Temp

LEMMA PlanTypes ==
  ASSUME PlanInv
  PROVE  /\ Len(plan) \in Nat /\ DOMAIN plan = 1 .. Len(plan)
         /\ \A i \in DOMAIN plan :
              /\ plan[i] \in [object : Object, from : Alias, to : Alias]
              /\ plan[i].object \in Object /\ plan[i].from \in Alias /\ plan[i].to \in Alias
<1> DEFINE M == [object : Object, from : Alias, to : Alias]
<1>1. \A m \in M : m.object \in Object /\ m.from \in Alias /\ m.to \in Alias
  BY Zenon
<1> HIDE DEF M
<1>2. plan \in Seq(M)
  BY Zenon DEF PlanInv, M
<1>3. Len(plan) \in Nat /\ DOMAIN plan = 1 .. Len(plan) /\ \A i \in DOMAIN plan : plan[i] \in M
  BY <1>2
<1> QED BY Zenon, <1>1, <1>3 DEF M

\* A rename of one move from where its object is leaves everything that the
\* invariant says of the other moves.
LEMMA RenameKeeps ==
  ASSUME PlanInv, WhereInv, OwnInv, Apart,
         NEW k \in DOMAIN plan, NEW n1 \in Territory(plan[k]), NEW n2 \in Territory(plan[k]),
         disk[n1] = plan[k].object, Replace(n1, n2), UNCHANGED <<plan, stranger>>
  PROVE  /\ WhereInv' /\ OwnInv' /\ Apart'
         /\ disk'[n2] = plan[k].object
         /\ \A i \in DOMAIN plan : i # k => \A n \in Territory(plan[i]) : disk'[n] = disk[n]
<1> USE RotationAssumption
<1>0. plan[k] \in [object : Object, from : Alias, to : Alias]
      /\ \A i \in DOMAIN plan : plan[i].object \in Object /\ plan[i].from \in Alias /\ plan[i].to \in Alias
  BY Zenon, PlanTypes
<1>1. \A i \in DOMAIN plan : Territory(plan[i]) \subseteq Name
  BY <1>0 DEF Territory, Name
<1>2. \A i \in DOMAIN plan : i # k => Territory(plan[i]) \cap Territory(plan[k]) = {}
  <2> HIDE RotationAssumption
  <2> SUFFICES ASSUME NEW i \in DOMAIN plan, i # k PROVE Territory(plan[i]) \cap Territory(plan[k]) = {}
    BY Zenon
  <2>1. Temp(plan[i].object) # Temp(plan[k].object)
    BY Zenon, <1>0, TempDistinct DEF PlanInv
  <2>2. \A o \in Object : Temp(o) \notin Alias
    BY Zenon, RotationAssumption
  <2>3. {plan[i].from, plan[i].to} \cap {plan[k].from, plan[k].to} = {}
    BY DEF PlanInv, Apart
  <2> HIDE DEF Temp
  <2> QED BY <1>0, <2>1, <2>2, <2>3 DEF Territory
<1>3. n1 \in Name /\ n2 \in Name
  BY Zenon, <1>1
<1>4. /\ disk' \in [Name -> Held] /\ disk'[n2] = plan[k].object
      /\ n1 # n2 => disk'[n1] = "nothing"
      /\ \A n \in Name \ {n1, n2} : disk'[n] = disk[n]
  BY <1>3, <1>0 DEF WhereInv, Replace, Held
<1>5. \A i \in DOMAIN plan : i # k => \A n \in Territory(plan[i]) : disk'[n] = disk[n]
  BY <1>1, <1>2, <1>4
<1>6. OwnInv'
  <2> SUFFICES ASSUME NEW i \in DOMAIN plan, NEW n \in Territory(plan[i])
               PROVE  disk'[n] \in {plan[i].object, "nothing"}
    BY Zenon DEF OwnInv, Territory
  <2>1. CASE i # k
    BY Zenon, <2>1, <1>5 DEF OwnInv
  <2>2. CASE i = k
    BY Zenon, <2>2, <1>1, <1>4 DEF OwnInv
  <2> QED BY Zenon, <2>1, <2>2
<1>7. \A n \in Name : disk[n] \notin {plan[k].object, "nothing"} => disk'[n] = disk[n]
  BY Zenon, <1>4 DEF OwnInv
<1>8. \A i \in DOMAIN plan : \E n \in Territory(plan[i]) : disk'[n] = plan[i].object
  BY <1>4, <1>5 DEF WhereInv
<1>9. \A o \in Object : (\A i \in DOMAIN plan : plan[i].object # o) => disk'[Admitted[o]] = o
  BY <1>7, <1>0 DEF WhereInv, Name
<1>10. stranger => disk'[Stranger] = "other"
  BY Zenon, <1>7, <1>0 DEF WhereInv, Name
<1>11. WhereInv'
  BY <1>4, <1>8, <1>9, <1>10 DEF WhereInv, Territory
<1> QED BY <1>4, <1>5, <1>6, <1>11 DEF Apart

\* A step that renames nothing, and begins no phase, keeps the invariant.
LEMMA StandingKeeps ==
  ASSUME RotationInv, UNCHANGED <<disk, plan, reverse, stranger>>, at' \in DOMAIN plan,
         pc' \in Moving => pc \in Moving,
         pc' \in {"preflight", "stage", "install"} => pc' = pc /\ at' = at
  PROVE  RotationInv'
<1>1. PlanInv'
  BY DEF RotationInv, PlanInv
<1>2. WhereInv'
  BY Zenon DEF RotationInv, WhereInv, Territory
<1>3. (OwnInv' <=> OwnInv) /\ (Apart' <=> Apart)
  BY DEF OwnInv, Apart, Territory
<1>4. PhaseInv'
  BY Zenon, <1>3 DEF RotationInv, PhaseInv
<1> QED BY Zenon, <1>1, <1>2, <1>4 DEF RotationInv

\* The invariant is kept by every step of either direction.
LEMMA RotationInductive ==
  ASSUME \A p \in Plans : Derived(p)
  PROVE  Init /\ [][Next]_vars => []RotationInv
<1> USE RotationAssumption
<1>1. Init => RotationInv
  <2> SUFFICES ASSUME Init PROVE RotationInv
    BY Zenon
  <2>1. PlanInv
    <3>1. plan \in Seq([object : Object, from : Alias, to : Alias]) /\ plan # <<>>
      BY Zenon DEF Init
    <3>2. Len(plan) >= 1 /\ 1 \in DOMAIN plan
      <4> DEFINE M == [object : Object, from : Alias, to : Alias]
      <4>1. plan \in Seq(M) /\ plan # <<>>
        BY Zenon, <3>1
      <4> HIDE DEF M
      <4> QED BY <4>1
    <3>3. \A i, j \in DOMAIN plan : i # j => plan[i].object # plan[j].object /\ plan[i].to # plan[j].from
      BY DEF Init, Derived
    <3> QED BY Zenon, <3>1, <3>2, <3>3 DEF PlanInv, Init
  <2>2. \A o \in Object : disk[Admitted[o]] = o
    <3> SUFFICES ASSUME NEW o \in Object PROVE disk[Admitted[o]] = o
      BY Zenon
    <3>1. (CHOOSE q \in Object : Admitted[q] = Admitted[o]) = o
      BY Zenon
    <3> QED BY Zenon, <3>1 DEF Init, FirstDisk, Name
  <2>3. disk \in [Name -> Held]
    BY Zenon DEF Init, FirstDisk, Held
  <2>4. stranger => disk[Stranger] = "other"
    BY Zenon DEF Init, FirstDisk, Name
  <2>5. \A i \in DOMAIN plan : disk[plan[i].from] = plan[i].object
    BY Zenon, <2>1, <2>2, PlanTypes DEF Init
  <2>8. \A o \in Object : disk[Temp(o)] = "nothing"
    <3> SUFFICES ASSUME NEW o \in Object PROVE disk[Temp(o)] = "nothing"
      BY Zenon
    <3>1. Temp(o) \in Name /\ Temp(o) # Stranger /\ ~ \E q \in Object : Admitted[q] = Temp(o)
      BY DEF Name
    <3> HIDE DEF Temp
    <3> QED BY Zenon, <3>1 DEF Init, FirstDisk
  <2>6. WhereInv
    BY Zenon, <2>2, <2>3, <2>4, <2>5 DEF WhereInv, Territory
  <2>7. PhaseInv
    BY Zenon, <2>1, <2>5, <2>8, PlanTypes DEF PhaseInv, Init, Moving
  <2> QED BY Zenon, <2>1, <2>6, <2>7 DEF RotationInv
<1>2. RotationInv /\ [Next]_vars => RotationInv'
  <2> SUFFICES ASSUME RotationInv, [Next]_vars
               PROVE  RotationInv'
    BY Zenon
  <2> USE DEF RotationInv
  <2> HIDE DEF RotationAssumption
  <2>a. /\ Len(plan) \in Nat /\ DOMAIN plan = 1 .. Len(plan)
        /\ \A i \in DOMAIN plan : plan[i].object \in Object /\ plan[i].from \in Alias /\ plan[i].to \in Alias
    BY Zenon, PlanTypes
  <2>b. at \in DOMAIN plan
    BY Zenon DEF PlanInv
  <2>1. CASE Preflight
    <3> USE DEF Preflight
    <3>1. PlanInv' /\ WhereInv'
      BY <2>1 DEF PlanInv, WhereInv, Territory
    <3>2. ASSUME PreflightOK(plan)
          PROVE  OwnInv /\ Apart /\ \A i \in DOMAIN plan : disk[plan[i].from] = plan[i].object
      <4>1. Apart
        BY SMTT(30), <3>2 DEF PreflightOK, Apart
      <4>2. CASE reverse
        BY Zenon, <2>1, <3>2, <4>1, <4>2 DEF PreflightOK, PhaseInv, OwnInv, Territory
      <4>3. CASE ~reverse
        <5>1. \A i \in DOMAIN plan : disk[plan[i].from] = plan[i].object
          BY Zenon, <2>1, <4>3 DEF PhaseInv
        <5>2. \A i \in DOMAIN plan : disk[plan[i].to] \in {plan[i].object, "nothing"}
          BY Zenon, <3>2, <5>1 DEF PreflightOK, PlanInv
        <5>3. \A i \in DOMAIN plan : disk[Temp(plan[i].object)] = "nothing"
          BY Zenon, <2>1, <4>3 DEF PhaseInv
        <5> QED BY Zenon, <4>1, <5>1, <5>2, <5>3 DEF OwnInv, Territory
      <4> QED BY Zenon, <4>2, <4>3
    <3>3. CASE PreflightOK(plan)
      <4>1. pc' = "stage" /\ at = at' /\ plan' = plan /\ disk' = disk
        BY Zenon, <2>1, <3>3
      <4>2. OwnInv' /\ Apart'
        BY <3>2, <3>3, <4>1 DEF OwnInv, Apart, Territory
      <4>3. \A i \in DOMAIN plan : ~(i < at)
        BY SMTT(30), <2>1, <2>a DEF PhaseInv
      <4> QED BY Zenon, <3>1, <3>2, <3>3, <4>1, <4>2, <4>3 DEF PhaseInv
    <3>4. CASE ~PreflightOK(plan)
      BY <2>1, <3>1, <3>4 DEF PhaseInv, OwnInv, Apart, Territory, Moving
    <3> QED BY Zenon, <3>3, <3>4
  <2>2. CASE Stage
    <3> DEFINE m == plan[at]
    <3>1. /\ Replace(m.from, Temp(m.object)) /\ plan' = plan /\ stranger' = stranger
          /\ reverse' = reverse /\ Forward("install") /\ pc = "stage"
      BY Zenon, <2>2 DEF Stage, Move
    <3>2. OwnInv /\ Apart /\ \A i \in DOMAIN plan :
            disk[IF i < at THEN Temp(plan[i].object) ELSE plan[i].from] = plan[i].object
      BY Zenon, <3>1 DEF PhaseInv, Moving
    <3>3. m.from \in Territory(m) /\ Temp(m.object) \in Territory(m) /\ disk[m.from] = m.object
      BY SMTT(30), <2>a, <2>b, <3>2 DEF Territory
    <3>4. /\ WhereInv' /\ OwnInv' /\ Apart' /\ disk'[Temp(m.object)] = m.object
          /\ \A i \in DOMAIN plan : i # at => \A n \in Territory(plan[i]) : disk'[n] = disk[n]
      BY Zenon, <2>b, <3>1, <3>2, <3>3, RenameKeeps
    <3>5. PlanInv'
      BY SMTT(30), <2>a, <2>b, <3>1 DEF PlanInv, Forward
    <3>6. \A i \in DOMAIN plan :
            /\ i < at => disk'[Temp(plan[i].object)] = plan[i].object
            /\ i > at => disk'[plan[i].from] = plan[i].object
      BY SMTT(30), <2>a, <2>b, <3>2, <3>4 DEF Territory
    <3>7. CASE at = Len(plan)
      <4>1. pc' = "install" /\ at' = 1
        BY Zenon, <3>1, <3>7 DEF Forward
      <4>2. \A i \in DOMAIN plan : disk'[Temp(plan[i].object)] = plan[i].object
        BY SMTT(30), <2>a, <2>b, <3>4, <3>6, <3>7
      <4> QED BY Zenon, <3>1, <3>4, <3>5, <4>1, <4>2 DEF PhaseInv
    <3>8. CASE at # Len(plan)
      <4>1. pc' = "stage" /\ at' = at + 1
        BY SMTT(30), <3>1, <3>8 DEF Forward
      <4>2. \A i \in DOMAIN plan :
              disk'[IF i < at + 1 THEN Temp(plan[i].object) ELSE plan[i].from] = plan[i].object
        BY <2>a, <2>b, <3>4, <3>6
      <4> QED BY Zenon, <3>1, <3>4, <3>5, <4>1, <4>2 DEF PhaseInv
    <3> QED BY Zenon, <3>7, <3>8
  <2>3. CASE Install
    <3> DEFINE m == plan[at]
    <3>1. /\ Replace(Temp(m.object), m.to) /\ plan' = plan /\ stranger' = stranger
          /\ reverse' = reverse /\ Forward("verify") /\ pc = "install"
      BY Zenon, <2>3 DEF Install, Move
    <3>2. OwnInv /\ Apart /\ \A i \in DOMAIN plan : i >= at => disk[Temp(plan[i].object)] = plan[i].object
      BY Zenon, <3>1 DEF PhaseInv, Moving
    <3>3. m.to \in Territory(m) /\ Temp(m.object) \in Territory(m) /\ disk[Temp(m.object)] = m.object
      BY SMTT(30), <2>a, <2>b, <3>2 DEF Territory
    <3>4. /\ WhereInv' /\ OwnInv' /\ Apart'
          /\ \A i \in DOMAIN plan : i # at => \A n \in Territory(plan[i]) : disk'[n] = disk[n]
      BY Zenon, <2>b, <3>1, <3>2, <3>3, RenameKeeps
    <3>5. PlanInv'
      BY SMTT(30), <2>a, <2>b, <3>1 DEF PlanInv, Forward
    <3>6. \A i \in DOMAIN plan : i > at => disk'[Temp(plan[i].object)] = plan[i].object
      BY SMTT(30), <2>a, <2>b, <3>2, <3>4 DEF Territory
    <3>7. CASE at = Len(plan)
      BY ZenonT(30), <3>1, <3>4, <3>5, <3>7 DEF PhaseInv, Forward
    <3>8. CASE at # Len(plan)
      <4>1. pc' = "install" /\ at' = at + 1
        BY Zenon, <3>1, <3>8 DEF Forward
      <4>2. \A i \in DOMAIN plan : i >= at + 1 => disk'[Temp(plan[i].object)] = plan[i].object
        BY <2>a, <2>b, <3>6
      <4> QED BY Zenon, <3>1, <3>4, <3>5, <4>1, <4>2 DEF PhaseInv
    <3> QED BY Zenon, <3>7, <3>8
  <2>4. CASE Verify
    BY Zenon, <2>4, <2>b, StandingKeeps DEF Verify, Moving
  <2>5. CASE StepFails
    <3>1. Len(plan) \in DOMAIN plan
      BY SMTT(30), <2>a, <2>b
    <3> QED BY Zenon, <2>5, <3>1, StandingKeeps DEF StepFails, Moving
  <2>6. CASE Rollback
    <3> DEFINE m == plan[at]
    <3>1. /\ plan' = plan /\ stranger' = stranger /\ reverse' = reverse /\ pc = "rollback"
          /\ \/ UNCHANGED disk
             \/ disk[Current(m)] # "nothing" /\ Replace(Current(m), m.from)
      BY Zenon, <2>6 DEF Rollback, Move
    <3>2. pc' \in {"rollback", "incomplete", "rolled back"} /\ at' \in DOMAIN plan
      <4>1. RolledBack
        BY Zenon, <2>6 DEF Rollback
      <4>2. CASE at > 1
        BY <3>1, <4>1, <4>2, <2>a, <2>b DEF RolledBack
      <4>3. CASE ~(at > 1)
        <5>1. at' = 1 /\ pc' \in {"incomplete", "rolled back"}
          BY Zenon, <4>1, <4>3 DEF RolledBack
        <5>2. 1 \in DOMAIN plan
          BY SMTT(30), <2>a, <2>b
        <5> QED BY Zenon, <5>1, <5>2
      <4> QED BY Zenon, <4>2, <4>3
    <3>3. OwnInv /\ Apart
      BY Zenon, <3>1 DEF PhaseInv, Moving
    <3>4. Current(m) \in Territory(m) /\ m.from \in Territory(m)
      BY Zenon DEF Current, Territory
    <3>5. disk[Current(m)] # "nothing" => disk[Current(m)] = m.object
      BY Zenon, <2>b, <3>3, <3>4 DEF OwnInv
    <3>6. WhereInv' /\ OwnInv' /\ Apart'
      <4>1. CASE UNCHANGED disk
        BY SMTT(30), <3>1, <3>3, <4>1 DEF WhereInv, OwnInv, Apart, Territory
      <4>2. CASE disk[Current(m)] # "nothing" /\ Replace(Current(m), m.from)
        BY SMTT(30), <2>b, <3>1, <3>3, <3>4, <3>5, <4>2, RenameKeeps
      <4> QED BY SMTT(30), <3>1, <4>1, <4>2
    <3>7. PlanInv'
      BY <3>1, <3>2 DEF PlanInv
    <3> QED BY Zenon, <3>1, <3>2, <3>6, <3>7 DEF PhaseInv
  <2>7. CASE Publish
    BY Zenon, <2>7, <2>b, StandingKeeps DEF Publish, Moving
  <2>8. CASE PublishFails
    <3>1. /\ DOMAIN plan' = DOMAIN plan
          /\ \A i \in DOMAIN plan : /\ plan'[i].object = plan[i].object
                                    /\ plan'[i].from = plan[i].to /\ plan'[i].to = plan[i].from
      BY Zenon, <2>8 DEF PublishFails
    <3>2. disk' = disk /\ stranger' = stranger /\ at' = 1 /\ pc' = "preflight" /\ reverse'
      BY Zenon, <2>8 DEF PublishFails
    <3>3. OwnInv /\ Apart
      BY Zenon, <2>8 DEF PublishFails, PhaseInv, Moving
    <3>4. \A i \in DOMAIN plan : Territory(plan'[i]) = Territory(plan[i])
      BY SMTT(30), <3>1 DEF Territory
    <3>5. WhereInv'
      BY SMTT(30), <3>1, <3>2, <3>4 DEF WhereInv, Territory
    <3>6. OwnInv' /\ Apart'
      BY SMTT(30), <3>1, <3>2, <3>3, <3>4 DEF OwnInv, Apart, Territory
    <3>7. PlanInv'
      <4> DEFINE M == [object : Object, from : Alias, to : Alias]
      <4>1. \A i \in DOMAIN plan : plan'[i] \in M
        BY Zenon, <2>8, <2>a DEF PublishFails
      <4>2. plan' = [i \in 1 .. Len(plan) |-> plan'[i]]
        BY Zenon, <2>8, <2>a DEF PublishFails
      <4> HIDE DEF M
      <4>3. plan' \in Seq(M) /\ Len(plan') = Len(plan)
        BY <4>1, <4>2, <2>a
      <4> USE DEF M
      <4> QED BY SMTT(30), <2>a, <3>1, <3>2, <4>3 DEF PlanInv
    <3> QED BY Zenon, <3>2, <3>5, <3>6, <3>7 DEF PhaseInv
  <2>9. CASE Kill
    BY Zenon, <2>9, <2>b, StandingKeeps DEF Kill, Moving
  <2>10. CASE UNCHANGED vars
    BY Zenon, <2>10, <2>b, StandingKeeps DEF vars, Moving
  <2> QED BY Zenon, <2>1, <2>2, <2>3, <2>4, <2>5, <2>6, <2>7, <2>8, <2>9, <2>10 DEF Next, Stop
<1> QED BY <1>1, <1>2, PTL

\* Whatever renames fail, in whichever direction the plan is applied, and wherever
\* the process dies, every object and the unrelated file are still in the store
\* (apply_alias_moves_atomically), when no object of the plan takes the old alias
\* of another.
THEOREM RotationKeepsObjects ==
  ASSUME \A p \in Plans : Derived(p)
  PROVE  Spec => []NothingLost
<1>1. RotationInv => NothingLost
  <2> SUFFICES ASSUME RotationInv, NEW o \in Object PROVE \E n \in Name : disk[n] = o
    BY Zenon DEF RotationInv, WhereInv, NothingLost
  <2>1. CASE \A i \in DOMAIN plan : plan[i].object # o
    BY SMTT(30), <2>1, RotationAssumption DEF RotationInv, WhereInv, Name
  <2>2. ASSUME NEW i \in DOMAIN plan, plan[i].object = o
        PROVE  \E n \in Name : disk[n] = o
    BY <2>2, PlanTypes DEF RotationInv, WhereInv, Name, Territory
  <2> QED BY Zenon, <2>1, <2>2
<1> QED BY <1>1, RotationInductive, PTL DEF Spec

-----------------------------------------------------------------------------
(* The workspace build.                                                    *)

Owner(b) == buildPc[b] \in {"copied", "sidecar", "describe"}
HasCode == {"store", "native", "publish", "copy", "copied", "sidecar", "describe"}

\* The types; a build that is running has a lock, and from its analysis on code.
BuildTypes ==
  /\ source \in Versions /\ lockfile \in Versions
  /\ index \in [Versions -> Versions \cup {None}]
  /\ analysis \in [Versions -> Versions \cup {None}]
  /\ buildPc \in [Builds -> BuildPlaces]
  /\ lock \in [Builds -> Versions \cup {None}]
  /\ before \in [Builds -> Versions \cup {None}]
  /\ code \in [Builds -> Versions \cup {None}]
  /\ \A b \in Builds : /\ buildPc[b] # "idle" => lock[b] \in Versions
                       /\ buildPc[b] \in HasCode => code[b] \in Versions

\* The build that created the target is alone with it until the sidecar is whole.
TargetInv ==
  /\ \A b \in Builds :
       /\ Owner(b) => target # None /\ \A c \in Builds : Owner(c) => c = b
       /\ buildPc[b] \in {"sidecar", "describe"} => target = code[b]
       /\ buildPc[b] = "describe" => sidecar.file = "torn"
  /\ sidecar.file = "whole" =>
       /\ target \in Versions /\ target = sidecar.artifact /\ target = sidecar.mir
       /\ \A b \in Builds : ~Owner(b)

\* Without edits during a build, what was proved of the sources holds until they
\* are analysed, and the caches hold for a lock what belongs to it.
LockInv ==
  /\ IndexMatchesLock /\ AnalysisMatchesLock
  /\ \A b \in Builds : /\ buildPc[b] \in {"recheck", "analyse"} => source = lock[b]
                       /\ buildPc[b] \in HasCode => code[b] = lock[b]
                       /\ buildPc[b] = "proof" => index[lock[b]] # None
  /\ sidecar.file = "whole" => sidecar.lock = sidecar.mir

LEMMA TargetInductive == BuildSpec => [](BuildTypes /\ TargetInv)
<1> USE VersionsAssumption DEF None
<1>1. BuildInit => BuildTypes /\ TargetInv
  BY DEF BuildInit, BuildTypes, TargetInv, BuildPlaces, HasCode, Owner, NoSidecar, Sidecar
<1>2. BuildTypes /\ TargetInv /\ [BuildNext]_buildVars => (BuildTypes /\ TargetInv)'
  <2> SUFFICES ASSUME BuildTypes, TargetInv, [BuildNext]_buildVars
               PROVE  BuildTypes' /\ TargetInv'
    BY Zenon
  <2>1. ASSUME NEW b \in Builds, Prepare(b)
        PROVE  BuildTypes' /\ TargetInv'
    <3> USE DEF Prepare, BuildGoto, inputs, caches, output, buildCall
    <3>1. BuildTypes'
      BY Zenon, <2>1 DEF BuildTypes, BuildPlaces, HasCode
    <3>2. TargetInv'
      BY <2>1 DEF BuildTypes, TargetInv, Owner, HasCode
    <3> QED BY Zenon, <3>1, <3>2
  <2>2. ASSUME NEW b \in Builds, ProveFresh(b)
        PROVE  BuildTypes' /\ TargetInv'
    <3> USE DEF ProveFresh, LeaveBuild, BuildGoto, inputs, caches, output, buildCall
    <3>1. BuildTypes'
      BY <2>2 DEF BuildTypes, BuildPlaces, HasCode
    <3>2. TargetInv'
      BY <2>2 DEF BuildTypes, TargetInv, Owner, HasCode
    <3> QED BY Zenon, <3>1, <3>2
  <2>3. ASSUME NEW b \in Builds, SnapshotBefore(b)
        PROVE  BuildTypes' /\ TargetInv'
    <3> USE DEF SnapshotBefore, BuildGoto, inputs, caches, output, buildCall
    <3>1. BuildTypes'
      BY <2>3 DEF BuildTypes, BuildPlaces, HasCode
    <3>2. TargetInv'
      BY <2>3 DEF BuildTypes, TargetInv, Owner, HasCode
    <3> QED BY Zenon, <3>1, <3>2
  <2>4. ASSUME NEW b \in Builds, VerifyFull(b)
        PROVE  BuildTypes' /\ TargetInv'
    <3> USE DEF VerifyFull, LeaveBuild, BuildGoto, inputs, caches, output, buildCall
    <3>1. BuildTypes'
      BY <2>4 DEF BuildTypes, BuildPlaces, HasCode
    <3>2. TargetInv'
      BY <2>4 DEF BuildTypes, TargetInv, Owner, HasCode
    <3> QED BY Zenon, <3>1, <3>2
  <2>5. ASSUME NEW b \in Builds, PublishIndex(b)
        PROVE  BuildTypes' /\ TargetInv'
    <3> USE DEF PublishIndex, LeaveBuild, BuildGoto, inputs, caches, output, buildCall
    <3>1. BuildTypes'
      BY <2>5 DEF BuildTypes, BuildPlaces, HasCode
    <3>2. TargetInv'
      BY <2>5 DEF BuildTypes, TargetInv, Owner, HasCode
    <3> QED BY Zenon, <3>1, <3>2
  <2>6. ASSUME NEW b \in Builds, Analyse(b)
        PROVE  BuildTypes' /\ TargetInv'
    <3> USE DEF Analyse, BuildGoto, inputs, caches, output, buildCall
    <3>1. BuildTypes'
      BY <2>6 DEF BuildTypes, BuildPlaces, HasCode
    <3>2. TargetInv'
      BY <2>6 DEF BuildTypes, TargetInv, Owner, HasCode
    <3> QED BY Zenon, <3>1, <3>2
  <2>7. ASSUME NEW b \in Builds, StoreAnalysis(b)
        PROVE  BuildTypes' /\ TargetInv'
    <3> USE DEF StoreAnalysis, BuildGoto, inputs, caches, output, buildCall
    <3>1. BuildTypes'
      BY <2>7 DEF BuildTypes, BuildPlaces, HasCode
    <3>2. TargetInv'
      BY <2>7 DEF BuildTypes, TargetInv, Owner, HasCode
    <3> QED BY Zenon, <3>1, <3>2
  <2>8. ASSUME NEW b \in Builds, BuildNative(b)
        PROVE  BuildTypes' /\ TargetInv'
    <3> USE DEF BuildNative, BuildGoto, inputs, caches, output, buildCall
    <3>1. BuildTypes'
      BY <2>8 DEF BuildTypes, BuildPlaces, HasCode
    <3>2. TargetInv'
      BY <2>8 DEF BuildTypes, TargetInv, Owner, HasCode
    <3> QED BY Zenon, <3>1, <3>2
  <2>9. ASSUME NEW b \in Builds, CheckTarget(b)
        PROVE  BuildTypes' /\ TargetInv'
    <3> USE DEF CheckTarget, LeaveBuild, BuildGoto, inputs, caches, output, buildCall
    <3>1. BuildTypes'
      BY <2>9 DEF BuildTypes, BuildPlaces, HasCode
    <3>2. TargetInv'
      BY <2>9 DEF BuildTypes, TargetInv, Owner, HasCode
    <3> QED BY Zenon, <3>1, <3>2
  <2>10. ASSUME NEW b \in Builds, CopyTarget(b)
        PROVE  BuildTypes' /\ TargetInv'
    <3> USE DEF CopyTarget, LeaveBuild, BuildGoto, inputs, caches, output, buildCall
    <3>1. BuildTypes'
      BY <2>10 DEF BuildTypes, BuildPlaces, HasCode
    <3>2. TargetInv'
      BY <2>10 DEF BuildTypes, TargetInv, Owner, HasCode
    <3> QED BY Zenon, <3>1, <3>2
  <2>11. ASSUME NEW b \in Builds, WriteSidecar(b)
        PROVE  BuildTypes' /\ TargetInv'
    <3> USE DEF WriteSidecar, LeaveBuild, Sidecar, NoSidecar, TornSidecar, BuildGoto, inputs, caches, output, buildCall
    <3>1. BuildTypes'
      BY <2>11 DEF BuildTypes, BuildPlaces, HasCode
    <3>2. TargetInv'
      BY <2>11 DEF BuildTypes, TargetInv, Owner, HasCode
    <3> QED BY Zenon, <3>1, <3>2
  <2>12. ASSUME NEW b \in Builds, Fail(b)
        PROVE  BuildTypes' /\ TargetInv'
    <3> USE DEF Fail, LeaveBuild, BuildGoto, inputs, caches, output, buildCall
    <3>1. BuildTypes'
      BY Zenon, <2>12 DEF BuildTypes, BuildPlaces, HasCode
    <3>2. TargetInv'
      BY <2>12 DEF BuildTypes, TargetInv, Owner, HasCode
    <3> QED BY Zenon, <3>1, <3>2
  <2>13. ASSUME NEW b \in Builds, KillBuild(b)
        PROVE  BuildTypes' /\ TargetInv'
    <3> USE DEF KillBuild, LeaveBuild, BuildGoto, inputs, caches, output, buildCall
    <3>1. BuildTypes'
      BY <2>13 DEF BuildTypes, BuildPlaces, HasCode
    <3>2. TargetInv'
      BY <2>13 DEF BuildTypes, TargetInv, Owner, HasCode
    <3> QED BY Zenon, <3>1, <3>2
  <2>14. CASE Edit
    BY Zenon, <2>14 DEF Edit, inputs, caches, output, buildCall, BuildTypes, TargetInv, Owner
  <2>15. CASE CreateLock
    BY Zenon, <2>15 DEF CreateLock, inputs, caches, output, buildCall, BuildTypes, TargetInv, Owner
  <2>16. CASE Clean
    BY Zenon, <2>16 DEF Clean, Quiet, NoSidecar, Sidecar, inputs, caches, output, buildCall, BuildTypes, TargetInv, Owner
  <2>17. CASE UNCHANGED buildVars
    BY Zenon, <2>17 DEF buildVars, inputs, caches, output, buildCall, BuildTypes, TargetInv, Owner
  <2> QED BY Zenon, <2>1, <2>2, <2>3, <2>4, <2>5, <2>6, <2>7, <2>8, <2>9, <2>10, <2>11, <2>12, <2>13, <2>14, <2>15, <2>16, <2>17 DEF BuildNext, RunBuild
<1> QED BY <1>1, <1>2, PTL DEF BuildSpec

LEMMA LockInductive ==
  ASSUME ~LiveEdits
  PROVE  BuildSpec => [](BuildTypes /\ TargetInv /\ LockInv)
<1> USE VersionsAssumption DEF None
<1>1. BuildInit => LockInv
  BY DEF BuildInit, LockInv, IndexMatchesLock, AnalysisMatchesLock, HasCode, NoSidecar, Sidecar
<1>2. BuildTypes /\ LockInv /\ [BuildNext]_buildVars => LockInv'
  <2> SUFFICES ASSUME BuildTypes, LockInv, [BuildNext]_buildVars
               PROVE  LockInv'
    BY Zenon
  <2>1. ASSUME NEW b \in Builds, Prepare(b)
        PROVE  LockInv'
    BY <2>1 DEF Prepare, BuildGoto, inputs, caches, output, buildCall, BuildTypes, LockInv, HasCode,
      IndexMatchesLock, AnalysisMatchesLock
  <2>2. ASSUME NEW b \in Builds, ProveFresh(b)
        PROVE  LockInv'
    BY <2>2 DEF ProveFresh, LeaveBuild, BuildGoto, inputs, caches, output, buildCall, BuildTypes, LockInv, HasCode,
      IndexMatchesLock, AnalysisMatchesLock
  <2>3. ASSUME NEW b \in Builds, SnapshotBefore(b)
        PROVE  LockInv'
    BY <2>3 DEF SnapshotBefore, BuildGoto, inputs, caches, output, buildCall, BuildTypes, LockInv, HasCode,
      IndexMatchesLock, AnalysisMatchesLock
  <2>4. ASSUME NEW b \in Builds, VerifyFull(b)
        PROVE  LockInv'
    BY <2>4 DEF VerifyFull, LeaveBuild, BuildGoto, inputs, caches, output, buildCall, BuildTypes, LockInv, HasCode,
      IndexMatchesLock, AnalysisMatchesLock
  <2>5. ASSUME NEW b \in Builds, PublishIndex(b)
        PROVE  LockInv'
    BY <2>5 DEF PublishIndex, LeaveBuild, BuildGoto, inputs, caches, output, buildCall, BuildTypes, LockInv, HasCode,
      IndexMatchesLock, AnalysisMatchesLock
  <2>6. ASSUME NEW b \in Builds, Analyse(b)
        PROVE  LockInv'
    BY <2>6 DEF Analyse, BuildGoto, inputs, caches, output, buildCall, BuildTypes, LockInv, HasCode,
      IndexMatchesLock, AnalysisMatchesLock
  <2>7. ASSUME NEW b \in Builds, StoreAnalysis(b)
        PROVE  LockInv'
    BY <2>7 DEF StoreAnalysis, BuildGoto, inputs, caches, output, buildCall, BuildTypes, LockInv, HasCode,
      IndexMatchesLock, AnalysisMatchesLock
  <2>8. ASSUME NEW b \in Builds, BuildNative(b)
        PROVE  LockInv'
    BY <2>8 DEF BuildNative, BuildGoto, inputs, caches, output, buildCall, BuildTypes, LockInv, HasCode,
      IndexMatchesLock, AnalysisMatchesLock
  <2>9. ASSUME NEW b \in Builds, CheckTarget(b)
        PROVE  LockInv'
    BY <2>9 DEF CheckTarget, LeaveBuild, BuildGoto, inputs, caches, output, buildCall, BuildTypes, LockInv, HasCode,
      IndexMatchesLock, AnalysisMatchesLock
  <2>10. ASSUME NEW b \in Builds, CopyTarget(b)
        PROVE  LockInv'
    BY <2>10 DEF CopyTarget, LeaveBuild, BuildGoto, inputs, caches, output, buildCall, BuildTypes, LockInv, HasCode,
      IndexMatchesLock, AnalysisMatchesLock
  <2>11. ASSUME NEW b \in Builds, WriteSidecar(b)
        PROVE  LockInv'
    BY <2>11 DEF WriteSidecar, LeaveBuild, Sidecar, NoSidecar, TornSidecar, BuildGoto, inputs, caches, output, buildCall, BuildTypes, LockInv, HasCode,
      IndexMatchesLock, AnalysisMatchesLock
  <2>12. ASSUME NEW b \in Builds, Fail(b)
        PROVE  LockInv'
    BY <2>12 DEF Fail, LeaveBuild, BuildGoto, inputs, caches, output, buildCall, BuildTypes, LockInv, HasCode,
      IndexMatchesLock, AnalysisMatchesLock
  <2>13. ASSUME NEW b \in Builds, KillBuild(b)
        PROVE  LockInv'
    BY <2>13 DEF KillBuild, LeaveBuild, BuildGoto, inputs, caches, output, buildCall, BuildTypes, LockInv, HasCode,
      IndexMatchesLock, AnalysisMatchesLock
  <2>14. CASE Edit
    BY Zenon, <2>14 DEF Edit, Quiet, inputs, caches, output, buildCall, BuildTypes, LockInv, HasCode,
      IndexMatchesLock, AnalysisMatchesLock
  <2>15. CASE CreateLock
    BY Zenon, <2>15 DEF CreateLock, inputs, caches, output, buildCall, BuildTypes, LockInv, HasCode,
      IndexMatchesLock, AnalysisMatchesLock
  <2>16. CASE Clean
    BY Zenon, <2>16 DEF Clean, NoSidecar, Sidecar, inputs, caches, output, buildCall, BuildTypes, LockInv, HasCode,
      IndexMatchesLock, AnalysisMatchesLock
  <2>17. CASE UNCHANGED buildVars
    BY Zenon, <2>17 DEF buildVars, inputs, caches, output, buildCall, BuildTypes, LockInv, HasCode,
      IndexMatchesLock, AnalysisMatchesLock
  <2> QED BY Zenon, <2>1, <2>2, <2>3, <2>4, <2>5, <2>6, <2>7, <2>8, <2>9, <2>10, <2>11, <2>12, <2>13, <2>14, <2>15, <2>16, <2>17 DEF BuildNext, RunBuild
<1> QED BY <1>1, <1>2, TargetInductive, PTL DEF BuildSpec

\* A build manifest that is whole describes the artifact beside it, however builds
\* race for the target, fail or are killed, and whatever is edited meanwhile
\* (build_locked_workspace_package).
THEOREM SidecarTruthful == BuildSpec => []SidecarDescribesTarget
<1>1. BuildTypes /\ TargetInv => SidecarDescribesTarget
  BY Zenon DEF TargetInv, SidecarDescribesTarget
<1> QED BY <1>1, TargetInductive, PTL

\* When the sources do not change under a running build, the artifact was built
\* from the workspace that its manifest names, whatever other versions left in the
\* lock index and the analysis cache.
THEOREM ArtifactOfLock ==
  ASSUME ~LiveEdits
  PROVE  BuildSpec => []BuiltFromLock
<1>1. BuildTypes /\ TargetInv /\ LockInv => BuiltFromLock
  BY Zenon DEF TargetInv, LockInv, BuiltFromLock
<1> QED BY <1>1, LockInductive, PTL

\* Under the same condition the entries of both caches belong to the digest they
\* are filed under.
THEOREM CachesMatchLock ==
  ASSUME ~LiveEdits
  PROVE  BuildSpec => [](IndexMatchesLock /\ AnalysisMatchesLock)
<1>1. BuildTypes /\ TargetInv /\ LockInv => IndexMatchesLock /\ AnalysisMatchesLock
  BY Zenon DEF LockInv
<1> QED BY <1>1, LockInductive, PTL

\* Under the same condition a build whose lock matches the sources is never refused
\* as stale, whatever earlier versions left in the index.
THEOREM FreshNeverRefused ==
  ASSUME ~LiveEdits
  PROVE  BuildSpec => FreshNotRefused
<1>1. BuildTypes /\ TargetInv /\ LockInv /\ [BuildNext]_buildVars =>
        [\A b \in Builds : ProveFresh(b) \/ VerifyFull(b) =>
           (lock[b] = source => buildPc'[b] # "idle")]_buildVars
  BY VersionsAssumption DEF None, BuildTypes, LockInv, IndexMatchesLock, ProveFresh, VerifyFull, BuildGoto
<1> QED BY <1>1, LockInductive, PTL DEF BuildSpec, FreshNotRefused

-----------------------------------------------------------------------------
(* The build cache.                                                        *)

\* The types, with the files of the entry as the provers need them.
EntryTypes ==
  /\ entry \in [dir : BOOLEAN, artifact : FileContents, manifest : FileContents]
  /\ ~entry.dir => entry.artifact = "absent" /\ entry.manifest = "absent"
CacheTypes ==
  /\ EntryTypes
  /\ named \subseteq {"entry", "root"}
  /\ cachePc \in [Builders -> CachePlaces]
  /\ built \in [Builders -> Outputs \cup {"absent"}]
  /\ seen \in [Builders -> Outputs \cup {"absent"}]
  /\ cacheResult \in [Builders -> [kind : {"none", "error", "hit", "miss"},
                                   sha : Outputs \cup {"absent"}]]
  /\ failures \in Nat /\ deaths \in Nat

\* The builder that fills the directory is alone, and the files are as far as it
\* got; the directory of a filler is not yet on disk for certain.
FillerInv ==
  \A b \in Builders :
    /\ cachePc[b] \in {"mkdir", "copy", "copying"} => built[b] \in Outputs
    /\ Filling(b) => /\ entry.dir /\ "root" \notin named
                     /\ \A c \in Builders : Filling(c) => c = b
    /\ cachePc[b] = "copy" => entry.artifact = "absent" /\ entry.manifest = "absent"
    /\ cachePc[b] = "copying" => entry.manifest = "absent"
    /\ cachePc[b] \in {"manifest", "writing", "fsync-entry", "fsync-root"} =>
         built[b] \in Outputs /\ entry.artifact = built[b]
    /\ cachePc[b] \in {"manifest", "writing"} => entry.manifest \notin Outputs
    /\ cachePc[b] \in {"fsync-entry", "fsync-root"} => entry.manifest = built[b]
    /\ cachePc[b] = "fsync-root" => "entry" \in named
    /\ cachePc[b] = "rmtree" => failures > 0

\* What was published is whole and on disk, and is what its builder verifies and
\* returns.
PublishedInv ==
  \A b \in Builders :
    /\ cachePc[b] \in {"miss", "miss-read"} \/ cacheResult[b].kind = "miss" =>
         Whole /\ named = {"entry", "root"}
    /\ cachePc[b] = "miss-read" => seen[b] = entry.artifact
    /\ cacheResult[b].kind = "miss" => cacheResult[b].sha = entry.artifact

\* While nothing failed or died, a manifest that is there describes its artifact,
\* and so does everything that was read or returned.
UndisturbedInv ==
  failures = 0 /\ deaths = 0 =>
    /\ entry.manifest \in Outputs => Whole
    /\ \A b \in Builders :
         /\ cachePc[b] = "hit-read" => Whole /\ seen[b] = entry.artifact
         /\ cacheResult[b].kind \in {"hit", "miss"} =>
              Whole /\ cacheResult[b].sha = entry.artifact

CacheInv == CacheTypes /\ FillerInv /\ PublishedInv /\ UndisturbedInv

\* An entry whose directory exists has the files it was given.
LEMMA FilledFiles ==
  ASSUME NEW a \in FileContents, NEW m \in FileContents
  PROVE  /\ Filled(a, m) \in [dir : BOOLEAN, artifact : FileContents, manifest : FileContents]
         /\ Filled(a, m).dir /\ Filled(a, m).artifact = a /\ Filled(a, m).manifest = m
<1>1. Filled(a, m).dir
  BY Zenon DEF Filled
<1> QED BY Zenon, <1>1 DEF Filled

LEMMA CacheInductive == CacheInit /\ [][CacheNext]_cacheVars => []CacheInv
<1> USE CacheAssumption
<1>1. CacheInit => CacheInv
  BY DEF CacheInit, CacheInv, CacheTypes, EntryTypes, FillerInv, PublishedInv, UndisturbedInv, NoEntry, NoResult,
    FileContents, CachePlaces, Publishing, Filling
<1>2. CacheInv /\ [CacheNext]_cacheVars => CacheInv'
  <2> SUFFICES ASSUME CacheInv, [CacheNext]_cacheVars
               PROVE  CacheInv'
    BY Zenon
  <2> USE DEF CacheInv
  <2>1. ASSUME NEW b \in Builders, Start(b)
        PROVE  CacheInv'
    <3> USE DEF Start, CacheGoto, bounds
    <3>1. CacheTypes'
      BY Zenon, <2>1 DEF CacheTypes, EntryTypes, CachePlaces, NoResult
    <3>2. FillerInv'
      BY <2>1 DEF CacheTypes, EntryTypes, FillerInv, Filling, Publishing
    <3>3. PublishedInv'
      BY <2>1 DEF CacheTypes, EntryTypes, PublishedInv, Whole, NoResult
    <3>4. UndisturbedInv'
      BY <2>1 DEF CacheTypes, EntryTypes, UndisturbedInv, Whole, NoResult
    <3> QED BY Zenon, <3>1, <3>2, <3>3, <3>4
  <2>2. ASSUME NEW b \in Builders, Compile(b)
        PROVE  CacheInv'
    <3> USE DEF Compile, CacheGoto, bounds
    <3>1. CacheTypes'
      BY <2>2 DEF CacheTypes, EntryTypes, CachePlaces
    <3>2. FillerInv'
      BY <2>2 DEF CacheTypes, EntryTypes, FillerInv, Filling, Publishing
    <3>3. PublishedInv'
      BY <2>2 DEF CacheTypes, EntryTypes, PublishedInv, Whole
    <3>4. UndisturbedInv'
      BY <2>2 DEF CacheTypes, EntryTypes, UndisturbedInv, Whole
    <3> QED BY Zenon, <3>1, <3>2, <3>3, <3>4
  <2>3. ASSUME NEW b \in Builders, Mkdir(b)
        PROVE  CacheInv'
    <3> USE DEF Mkdir, CacheGoto, bounds, cacheCall, NoEntry
    <3>a. {"absent", "torn"} \subseteq FileContents
      BY Zenon DEF FileContents
    <3>0. EntryTypes'
      BY <2>3, <3>a, FilledFiles DEF CacheTypes, EntryTypes
    <3>1. CacheTypes'
      BY Zenon, <2>3, <3>0 DEF CacheTypes, CachePlaces, Publishing
    <3>2. FillerInv'
      BY <2>3 DEF Filled, CacheTypes, EntryTypes, FillerInv, Filling, Publishing
    <3>3. PublishedInv'
      BY <2>3 DEF Filled, CacheTypes, EntryTypes, PublishedInv, Whole
    <3>4. UndisturbedInv'
      BY <2>3 DEF Filled, CacheTypes, EntryTypes, UndisturbedInv, Whole
    <3> QED BY Zenon, <3>1, <3>2, <3>3, <3>4
  <2>4. ASSUME NEW b \in Builders, CopyArtifact(b)
        PROVE  CacheInv'
    <3> USE DEF CopyArtifact, CacheGoto, bounds, cacheCall
    <3>a. {"absent", "torn"} \subseteq FileContents /\ Outputs \subseteq FileContents
      BY Zenon DEF FileContents
    <3>b. cachePc[b] = "copying" => built[b] \in Outputs
      BY Zenon, <2>4 DEF FillerInv
    <3>c. entry.manifest \in FileContents
      BY Zenon DEF CacheTypes, EntryTypes
    <3>0. EntryTypes'
      BY <2>4, <3>a, <3>b, <3>c, FilledFiles DEF EntryTypes
    <3>1. CacheTypes'
      BY <2>4, <3>0 DEF CacheTypes, CachePlaces, Publishing
    <3>2. FillerInv'
      BY <2>4 DEF Filled, CacheTypes, EntryTypes, FillerInv, Filling, Publishing
    <3>3. PublishedInv'
      BY <2>4 DEF Filled, CacheTypes, EntryTypes, PublishedInv, Whole, FillerInv, Filling, Publishing
    <3>4. UndisturbedInv'
      BY <2>4 DEF Filled, CacheTypes, EntryTypes, UndisturbedInv, Whole, FillerInv, Filling, Publishing
    <3> QED BY Zenon, <3>1, <3>2, <3>3, <3>4
  <2>5. ASSUME NEW b \in Builders, WriteManifest(b)
        PROVE  CacheInv'
    <3> USE DEF WriteManifest, CacheGoto, bounds, cacheCall
    <3>a. {"absent", "torn"} \subseteq FileContents /\ Outputs \subseteq FileContents
      BY Zenon DEF FileContents
    <3>b. cachePc[b] = "writing" => built[b] \in Outputs
      BY Zenon, <2>5 DEF FillerInv
    <3>c. entry.artifact \in FileContents
      BY Zenon DEF CacheTypes, EntryTypes
    <3>0. EntryTypes'
      BY <2>5, <3>a, <3>b, <3>c, FilledFiles DEF EntryTypes
    <3>1. CacheTypes'
      BY Zenon, <2>5, <3>0 DEF CacheTypes, CachePlaces, Publishing
    <3>2. FillerInv'
      BY <2>5 DEF Filled, CacheTypes, EntryTypes, FillerInv, Filling, Publishing
    <3>3. PublishedInv'
      BY <2>5 DEF Filled, CacheTypes, EntryTypes, PublishedInv, Whole, FillerInv, Filling, Publishing
    <3>4. UndisturbedInv'
      BY <2>5 DEF Filled, CacheTypes, EntryTypes, UndisturbedInv, Whole, FillerInv, Filling, Publishing
    <3> QED BY Zenon, <3>1, <3>2, <3>3, <3>4
  <2>6. ASSUME NEW b \in Builders, FsyncDirectories(b)
        PROVE  CacheInv'
    <3> USE DEF FsyncDirectories, CacheGoto, bounds, cacheCall
    <3>1. CacheTypes'
      BY Zenon, <2>6 DEF CacheTypes, EntryTypes, CachePlaces, Publishing
    <3>2. FillerInv'
      BY <2>6 DEF CacheTypes, EntryTypes, FillerInv, Filling, Publishing
    <3>3. PublishedInv'
      <4>1. "root" \notin named
        BY Zenon, <2>6 DEF FillerInv, Filling, Publishing
      <4>2. \A c \in Builders : cachePc[c] \notin {"miss", "miss-read"} /\ cacheResult[c].kind # "miss"
        BY Zenon, <4>1 DEF PublishedInv
      <4>3. CASE cachePc[b] = "fsync-entry"
        BY <2>6, <4>2, <4>3 DEF CacheTypes, PublishedInv
      <4>4. CASE cachePc[b] = "fsync-root"
        <5>1. Whole' /\ named' = {"entry", "root"}
          <6>1. built[b] \in Outputs /\ entry.artifact = built[b] /\ entry.manifest = built[b] /\ "entry" \in named
            BY Zenon, <4>4 DEF FillerInv
          <6>0. entry.dir
            BY Zenon, <4>4 DEF FillerInv, Filling, Publishing
          <6>2. entry' = entry /\ named' = named \cup {"root"}
            BY Zenon, <2>6, <4>4
          <6> QED BY Zenon, <6>0, <6>1, <6>2 DEF CacheTypes, Whole
        <5> QED BY <2>6, <4>2, <4>4, <5>1 DEF CacheTypes, PublishedInv
      <4> QED BY Zenon, <2>6, <4>3, <4>4
    <3>4. UndisturbedInv'
      BY <2>6 DEF CacheTypes, EntryTypes, UndisturbedInv, Whole
    <3> QED BY Zenon, <3>1, <3>2, <3>3, <3>4
  <2>7. ASSUME NEW b \in Builders, FillFails(b)
        PROVE  CacheInv'
    <3> USE DEF FillFails, CacheGoto, cacheCall
    <3>1. CacheTypes'
      BY <2>7 DEF Filled, CacheTypes, EntryTypes, CachePlaces, Publishing, FileContents
    <3>2. FillerInv'
      BY <2>7 DEF Filled, CacheTypes, EntryTypes, FillerInv, Filling, Publishing
    <3>3. PublishedInv'
      BY <2>7 DEF Filled, CacheTypes, EntryTypes, PublishedInv, Whole, FillerInv, Filling, Publishing
    <3>4. UndisturbedInv'
      BY <2>7 DEF Filled, CacheTypes, EntryTypes, UndisturbedInv, Whole, FillerInv, Filling, Publishing
    <3> QED BY Zenon, <3>1, <3>2, <3>3, <3>4
  <2>8. ASSUME NEW b \in Builders, RemoveTree(b)
        PROVE  CacheInv'
    <3> USE DEF RemoveTree, CacheGoto, Return, Failed, NoEntry, bounds, cacheCall
    <3>a. {"absent", "torn"} \subseteq FileContents
      BY Zenon DEF FileContents
    <3>c. entry.artifact \in FileContents /\ entry.manifest \in FileContents
      BY Zenon DEF CacheTypes, EntryTypes
    <3>0. EntryTypes'
      <4>1. CASE entry' = Filled("absent", entry.manifest)
        BY Zenon, <4>1, <3>a, <3>c, FilledFiles DEF EntryTypes
      <4>2. CASE entry' = Filled(entry.artifact, "absent")
        BY Zenon, <4>2, <3>a, <3>c, FilledFiles DEF EntryTypes
      <4>3. CASE entry' = NoEntry
        BY Zenon, <4>3, <3>a DEF EntryTypes
      <4>4. CASE entry' = entry
        BY Zenon, <4>4 DEF CacheTypes, EntryTypes
      <4> QED BY Zenon, <2>8, <4>1, <4>2, <4>3, <4>4
    <3>1. CacheTypes'
      <4>0. named' \in {named, {}} /\ failures' \in {failures, failures + 1} /\ deaths' = deaths
        BY Zenon, <2>8
      <4>1. named' \subseteq {"entry", "root"} /\ failures' \in Nat /\ deaths' \in Nat
        BY <4>0 DEF CacheTypes
      <4>2. cachePc' \in [Builders -> CachePlaces] /\ built' \in [Builders -> Outputs \cup {"absent"}]
        BY Zenon, <2>8 DEF CacheTypes, CachePlaces
      <4>3. seen' \in [Builders -> Outputs \cup {"absent"}]
        BY Zenon, <2>8 DEF CacheTypes
      <4>4. cacheResult' \in [Builders -> [kind : {"none", "error", "hit", "miss"},
                                          sha : Outputs \cup {"absent"}]]
        BY <2>8 DEF CacheTypes
      <4> QED BY Zenon, <3>0, <4>1, <4>2, <4>3, <4>4 DEF CacheTypes
    <3>2. FillerInv'
      BY <2>8 DEF Filled, CacheTypes, EntryTypes, FillerInv, Filling, Publishing
    <3>3. PublishedInv'
      BY <2>8 DEF Filled, CacheTypes, EntryTypes, PublishedInv, Whole, FillerInv, Filling, Publishing
    <3>4. UndisturbedInv'
      BY <2>8 DEF Filled, CacheTypes, EntryTypes, UndisturbedInv, Whole, FillerInv, Filling, Publishing
    <3> QED BY Zenon, <3>1, <3>2, <3>3, <3>4
  <2>9. ASSUME NEW b \in Builders, VerifyManifest(b)
        PROVE  CacheInv'
    <3> USE DEF VerifyManifest, CacheGoto, bounds
    <3>1. CacheTypes'
      BY Zenon, <2>9 DEF CacheTypes, EntryTypes, CachePlaces, Publishing, FileContents
    <3>2. FillerInv'
      BY <2>9 DEF CacheTypes, EntryTypes, FillerInv, Filling, Publishing
    <3>3. PublishedInv'
      BY <2>9 DEF CacheTypes, EntryTypes, PublishedInv, Whole, FillerInv, Filling, Publishing
    <3>4. UndisturbedInv'
      <4>1. Whole' <=> Whole
        BY Zenon, <2>9 DEF Whole
      <4>2. ASSUME failures = 0, deaths = 0
            PROVE  Whole /\ seen'[b] = entry.artifact
        BY Zenon, <2>9, <4>2 DEF CacheTypes, UndisturbedInv, Whole
      <4> QED BY Zenon, <2>9, <4>1, <4>2 DEF CacheTypes, UndisturbedInv
    <3> QED BY Zenon, <3>1, <3>2, <3>3, <3>4
  <2>10. ASSUME NEW b \in Builders, VerifyArtifact(b)
        PROVE  CacheInv'
    <3> USE DEF VerifyArtifact, CacheGoto, Return, bounds
    <3>1. CacheTypes'
      BY Zenon, <2>10 DEF CacheTypes, EntryTypes, CachePlaces, Publishing, FileContents
    <3>2. FillerInv'
      BY <2>10 DEF CacheTypes, EntryTypes, FillerInv, Filling, Publishing
    <3>3. PublishedInv'
      BY <2>10 DEF CacheTypes, EntryTypes, PublishedInv, Whole, FillerInv, Filling, Publishing
    <3>4. UndisturbedInv'
      <4>1. (Whole' <=> Whole) /\ entry' = entry /\ failures' = failures /\ deaths' = deaths
        BY Zenon, <2>10 DEF Whole
      <4>2. ASSUME failures = 0, deaths = 0
            PROVE  Whole /\ cacheResult'[b].sha = entry.artifact
        BY Zenon, <2>10, <4>2 DEF CacheTypes, UndisturbedInv, PublishedInv
      <4>3. cachePc'[b] = "idle" /\ \A c \in Builders \ {b} : /\ cachePc'[c] = cachePc[c] /\ seen'[c] = seen[c]
                                                           /\ cacheResult'[c] = cacheResult[c]
        BY Zenon, <2>10 DEF CacheTypes
      <4> QED BY <4>1, <4>2, <4>3 DEF UndisturbedInv
    <3> QED BY Zenon, <3>1, <3>2, <3>3, <3>4
  <2>11. ASSUME NEW b \in Builders, VerifyFails(b)
        PROVE  CacheInv'
    <3> USE DEF VerifyFails, CacheGoto, Return, Failed, bounds
    <3>1. CacheTypes'
      BY Zenon, <2>11 DEF CacheTypes, EntryTypes, CachePlaces, Publishing, FileContents
    <3>2. FillerInv'
      BY <2>11 DEF CacheTypes, EntryTypes, FillerInv, Filling, Publishing
    <3>3. PublishedInv'
      BY <2>11 DEF CacheTypes, EntryTypes, PublishedInv, Whole, FillerInv, Filling, Publishing
    <3>4. UndisturbedInv'
      BY <2>11 DEF CacheTypes, EntryTypes, UndisturbedInv, Whole, FillerInv, Filling, Publishing
    <3> QED BY Zenon, <3>1, <3>2, <3>3, <3>4
  <2>12. ASSUME NEW b \in Builders, KillBuilder(b)
        PROVE  CacheInv'
    <3> USE DEF KillBuilder, Die
    <3>1. CacheTypes'
      BY <2>12 DEF CacheTypes, EntryTypes, CachePlaces, Publishing, FileContents
    <3>2. FillerInv'
      BY <2>12 DEF CacheTypes, EntryTypes, FillerInv, Filling, Publishing
    <3>3. PublishedInv'
      BY <2>12 DEF CacheTypes, EntryTypes, PublishedInv, Whole, FillerInv, Filling, Publishing
    <3>4. UndisturbedInv'
      BY <2>12 DEF CacheTypes, EntryTypes, UndisturbedInv, Whole, FillerInv, Filling, Publishing
    <3> QED BY Zenon, <3>1, <3>2, <3>3, <3>4
  <2>13. CASE CachePowerLoss
    <3> USE DEF CachePowerLoss, Die, NoEntry
    <3>1. CacheTypes'
      BY <2>13 DEF Filled, CacheTypes, EntryTypes, CachePlaces, FileContents
    <3>2. FillerInv'
      BY Zenon, <2>13 DEF Filled, FillerInv, Filling, Publishing
    <3>3. PublishedInv'
      BY <2>13 DEF Filled, CacheTypes, EntryTypes, PublishedInv, Whole
    <3>4. UndisturbedInv'
      BY <2>13 DEF Filled, CacheTypes, EntryTypes, UndisturbedInv
    <3> QED BY Zenon, <3>1, <3>2, <3>3, <3>4
  <2>14. CASE UNCHANGED cacheVars
    BY <2>14 DEF cacheVars, CacheTypes, EntryTypes, FillerInv, PublishedInv, UndisturbedInv, Whole, Filling
  <2> QED BY Zenon, <2>1, <2>2, <2>3, <2>4, <2>5, <2>6, <2>7, <2>8, <2>9, <2>10, <2>11, <2>12, <2>13, <2>14 DEF CacheNext, RunBuilder
<1> QED BY <1>1, <1>2, PTL

\* While nothing fails or dies, all the builders of a key are given the one output
\* that the entry holds, whatever each of them compiled (build_or_load_cached_native).
THEOREM BuildersAgree == CacheSpec => []ResultsAgree
<1>1. CacheInv => ResultsAgree
  BY Zenon DEF CacheInv, UndisturbedInv, ResultsAgree
<1> QED BY <1>1, CacheInductive, PTL DEF CacheSpec

\* What a call published and returned stays in the cache, through the failures,
\* rollbacks, kills and power losses of every other call.
THEOREM PublishedIsImmutable == CacheSpec => []PublishedStays
<1>1. CacheInv => PublishedStays
  BY Zenon DEF CacheInv, PublishedInv, PublishedStays
<1> QED BY <1>1, CacheInductive, PTL DEF CacheSpec

\* Only one builder at a time writes into the entry or removes it.
THEOREM FillersExclude == CacheSpec => []OneFiller
<1>1. CacheInv => OneFiller
  BY Zenon DEF CacheInv, FillerInv, OneFiller
<1> QED BY <1>1, CacheInductive, PTL DEF CacheSpec
=============================================================================
