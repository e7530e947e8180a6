---------------------------- MODULE CgroupProofs ----------------------------
(***************************************************************************)
(* Theorems of Cgroup: its types with the rule that a group whose          *)
(* controllers are enabled holds no process, to whom the wrapper loses an  *)
(* attempt, that it comes to an end, and the limit of the inner container. *)
(***************************************************************************)
EXTENDS Cgroup, FiniteSetTheorems, TLAPS

-----------------------------------------------------------------------------
(* The invariant.  The groups a wrapper leaves behind are all above the    *)
(* one envbox is in, where the next wrapper begins.                        *)

Active == {"remount", "list", "move"}

TypeInv ==
    /\ version \in {"v1", "v2"} /\ outer \in OuterLimits
    /\ group \in [Procs -> Groups \cup {None}]
    /\ enabled \subseteq Groups /\ ns \in Groups /\ root \in Groups \cup {None}
    /\ wrapper \in {"off", "remount", "list", "move", "up", "failed"}
    /\ run \in 0..MaxRuns /\ attempts \in 0..MaxAttempts
    /\ todo \subseteq Procs
    /\ step \in {"off", "read", "max", "period", "quota", "done"}
    /\ quota \in [quota : Int, period : Nat] /\ inner \in [quota : Int, period : Nat]

FlagInv == arrived \in BOOLEAN /\ ioFailed \in BOOLEAN

GroupInv ==
    /\ \A p \in Procs : group[p] <= run /\ group[p] \notin enabled
    /\ group["envbox"] # None
    /\ run = 0 => group["envbox"] = 0
    /\ run > 0 => ns < run
    /\ wrapper = "off" <=> run = 0
    /\ wrapper \in Active =>
          /\ \A g \in enabled : g < ns
          /\ group["envbox"] \in {ns, ns + 1}
    /\ wrapper \in {"off", "up"} => \A g \in enabled : g < group["envbox"]
    /\ wrapper = "remount" => attempts = 0
    /\ wrapper \in {"list", "move"} => attempts < MaxAttempts

\* Whoever xargs does not know of came after it read the list.
ListInv ==
    wrapper = "move" => \A p \in Procs : group[p] = ns => p \in todo \/ arrived

RootInv ==
    /\ version = "v1" => root = None
    /\ version = "v2" /\ wrapper \in {"list", "move", "up"} => root = ns
    /\ run = 1 => ns = 0

QuotaInv ==
    /\ step # "off" => wrapper = "up"
    /\ step \in {"off", "read", "max", "period"} => inner = NoLimit
    /\ step = "max" => quota \in {outer, NoLimit} /\ (run = 1 => quota = outer)
    /\ step \in {"period", "quota"} => quota = outer
    /\ step = "quota" => inner.quota = -1 /\ inner.period = outer.period
    /\ InnerLimitIsOuters

IInv == TypeInv /\ FlagInv /\ GroupInv /\ ListInv /\ RootInv /\ QuotaInv

\* A limit of the outer container is a record, and not the absent one.
LEMMA Limits ==
    ASSUME TypeInv
    PROVE  /\ outer \in [quota : Nat \cup {-1}, period : Nat]
           /\ outer # Nothing /\ NoLimit # Nothing /\ NoLimit.quota = -1
           /\ NoLimit \in [quota : Int, period : Nat] /\ Nothing \in [quota : Int, period : Nat]
<1>1. outer \in [quota : Nat \cup {-1}, period : Nat]
  BY CgroupAssumption DEF CgroupAssumption, TypeInv
<1>2. outer.quota # Nothing.quota
  BY <1>1 DEF Nothing
<1> QED
  BY <1>1, <1>2 DEF NoLimit, Nothing

LEMMA InitInv == Init => IInv
<1> SUFFICES ASSUME Init PROVE IInv
  OBVIOUS
<1> USE CgroupAssumption DEF CgroupAssumption, Init, Procs, Groups, None
<1>1. TypeInv
  BY DEF TypeInv, NoLimit, Nothing
<1>2. FlagInv
  BY Zenon DEF FlagInv
<1>3. GroupInv
  BY DEF GroupInv, Active
<1>4. ListInv /\ RootInv
  BY DEF ListInv, RootInv
<1>5. QuotaInv
  BY Limits, <1>1 DEF QuotaInv, InnerLimitIsOuters
<1> QED
  BY <1>1, <1>2, <1>3, <1>4, <1>5 DEF IInv

-----------------------------------------------------------------------------
(* The steps.                                                              *)

LEMMA FlagsNext == IInv /\ [Next]_vars => FlagInv'
<1> SUFFICES ASSUME arrived \in BOOLEAN, ioFailed \in BOOLEAN, [Next]_vars
             PROVE  arrived' \in BOOLEAN /\ ioFailed' \in BOOLEAN
  BY DEF IInv, FlagInv
<1>1. arrived' \in BOOLEAN
  BY Zenon DEF Next, WrapperStep, Environment, Quota, Unshare, ExecV1, Remount, List, Move, Enable, Fork,
      Exec, Appear, Exit, InnerStarts, ReadCPUQuota, SetQuotaV2, SetPeriodV1, SetQuotaV1,
      QuotaFails, vars
<1>2. ioFailed' \in BOOLEAN
  BY Zenon DEF Next, WrapperStep, Environment, Quota, Unshare, ExecV1, Remount, List, Move, Enable, Fork,
      Exec, Appear, Exit, InnerStarts, ReadCPUQuota, SetQuotaV2, SetPeriodV1, SetQuotaV1,
      QuotaFails, vars, quotaVars
<1> QED
  BY <1>1, <1>2

Rest == TypeInv /\ GroupInv /\ ListInv /\ RootInv /\ QuotaInv

\* A step of the wrapper changes neither the limits nor the position of the quota.
LEMMA QuotaStays ==
    ASSUME QuotaInv, UNCHANGED <<outer, quotaVars>>,
           step # "off" => wrapper' = wrapper /\ run' = run
    PROVE  QuotaInv'
BY DEF QuotaInv, InnerLimitIsOuters, quotaVars

LEMMA UnshareNext == IInv /\ Unshare => Rest'
<1> SUFFICES ASSUME IInv, Unshare PROVE Rest'
  OBVIOUS
<1> USE CgroupAssumption DEF IInv, CgroupAssumption, Unshare, Procs, Groups, None
<1>1. /\ group' = [group EXCEPT !["sh"] = group["envbox"]]
      /\ group["envbox"] \in Groups /\ group["envbox"] <= run /\ run \in 0..MaxRuns
      /\ run' = run + 1 /\ ns' = group["envbox"] /\ wrapper' = "remount" /\ attempts' = 0
      /\ UNCHANGED <<version, outer, enabled, root, todo, quotaVars>> /\ step = "off" /\ run < MaxRuns
  BY DEF TypeInv, GroupInv
<1>2. TypeInv'
  BY <1>1 DEF TypeInv, quotaVars
<1>3. GroupInv'
  <2>1. \A p \in Procs : group'[p] <= run' /\ group'[p] \notin enabled'
    BY <1>1 DEF TypeInv, GroupInv
  <2>2. group'["envbox"] = ns'
    BY <1>1 DEF TypeInv
  <2> QED
    BY <1>1, <2>1, <2>2 DEF TypeInv, GroupInv, Active
<1>4. ListInv' /\ RootInv'
  BY <1>1 DEF ListInv, RootInv, TypeInv, GroupInv
<1>5. QuotaInv'
  BY <1>1, QuotaStays
<1> QED
  BY <1>2, <1>3, <1>4, <1>5 DEF Rest

LEMMA MoveNext == ASSUME IInv, NEW p \in Procs, Move(p) PROVE Rest'
<1> USE CgroupAssumption DEF IInv, CgroupAssumption, Move, Procs, Groups, None
<1>1. /\ group' = [group EXCEPT ![p] = IF group[p] = None THEN None ELSE ns + 1]
      /\ todo' = todo \ {p} /\ wrapper = "move" /\ run \in 0..MaxRuns /\ ns \in Nat /\ run > 0 /\ ns < run
      /\ UNCHANGED <<version, outer, arrived, enabled, root, wrapper, run, ns, attempts, quotaVars>>
  BY DEF TypeInv, GroupInv
<1>2. group \in [Procs -> Groups \cup {None}] /\ ns + 1 \in Groups /\ ns + 1 <= run
  BY <1>1 DEF TypeInv
<1>3. TypeInv'
  BY <1>1, <1>2 DEF TypeInv, quotaVars
<1>4. \A q \in Procs : group'[q] = IF q = p /\ group[p] # None THEN ns + 1 ELSE group[q]
  BY <1>1, <1>2
<1>5. ns + 1 \notin enabled
  BY <1>1 DEF GroupInv, Active, TypeInv
<1>6. GroupInv'
  BY <1>1, <1>2, <1>4, <1>5 DEF GroupInv, Active, TypeInv
<1>7. ListInv'
  BY <1>1, <1>4 DEF ListInv
<1>8. RootInv'
  BY <1>1 DEF RootInv
<1>9. QuotaInv'
  BY <1>1, QuotaStays
<1> QED
  BY <1>3, <1>6, <1>7, <1>8, <1>9 DEF Rest

LEMMA WrapperNext == IInv /\ (ExecV1 \/ Remount \/ List \/ Enable) => Rest'
<1> SUFFICES ASSUME IInv, ExecV1 \/ Remount \/ List \/ Enable PROVE Rest'
  OBVIOUS
<1> USE CgroupAssumption DEF IInv, CgroupAssumption, Groups, None
<1>1. /\ UNCHANGED <<version, outer, group, run, ns, quotaVars>>
      /\ wrapper \in Active /\ step = "off"
  BY DEF ExecV1, Remount, List, Enable, Active, QuotaInv
<1>2. /\ run \in Nat /\ ns \in Nat /\ attempts \in Nat /\ MaxAttempts \in Nat
      /\ group["envbox"] \in Nat /\ \A g \in enabled : g \in Nat
  BY DEF TypeInv, GroupInv, Procs
<1>3. TypeInv'
  <2>1. attempts' \in 0..MaxAttempts
    BY <1>1, <1>2 DEF TypeInv, GroupInv, ExecV1, Remount, List, Enable
  <2>2. wrapper' \in {"off", "remount", "list", "move", "up", "failed"}
    BY DEF ExecV1, Remount, List, Enable
  <2>3. /\ enabled' \subseteq Groups /\ root' \in Groups \cup {None}
        /\ todo' \subseteq Procs
    BY <1>1 DEF TypeInv, ExecV1, Remount, List, Enable
  <2> QED
    BY <1>1, <2>1, <2>2, <2>3 DEF TypeInv, quotaVars
<1>4. GroupInv'
  <2>1. CASE ExecV1
    BY <2>1, <1>1, <1>2 DEF ExecV1, GroupInv, Active, TypeInv
  <2>2. CASE Remount
    BY <2>2, <1>1, <1>2 DEF Remount, GroupInv, Active, TypeInv
  <2>3. CASE List
    BY <2>3, <1>1, <1>2 DEF List, GroupInv, Active, TypeInv
  <2>4. CASE Enable
    <3>1. CASE \A p \in Procs : group[p] # ns
      <4>1. /\ enabled' = enabled \cup {ns} /\ wrapper' = "up" /\ attempts' = attempts
        BY <3>1, <2>4 DEF Enable
      <4>2. group["envbox"] > ns
        BY <3>1, <1>1, <1>2 DEF GroupInv, Procs
      <4> QED
        BY <3>1, <4>1, <4>2, <1>1, <1>2 DEF GroupInv, Active, TypeInv
    <3>2. CASE \E p \in Procs : group[p] = ns
      <4>1. /\ enabled' = enabled /\ attempts' = attempts + 1
            /\ wrapper' = IF attempts + 1 >= MaxAttempts THEN "failed" ELSE "list"
        BY <3>2, <2>4 DEF Enable
      <4> QED
        BY <4>1, <1>1, <1>2 DEF GroupInv, Active, TypeInv
    <3> QED
      BY <3>1, <3>2
  <2> QED
    BY <2>1, <2>2, <2>3, <2>4
<1>5. ListInv'
  BY <1>1 DEF ListInv, ExecV1, Remount, List, Enable
<1>6. RootInv'
  BY <1>1 DEF RootInv, ExecV1, Remount, List, Enable
<1>7. QuotaInv'
  BY <1>1, QuotaStays
<1> QED
  BY <1>3, <1>4, <1>5, <1>6, <1>7 DEF Rest

LEMMA EnvironmentNext == IInv /\ Environment => Rest'
<1> SUFFICES ASSUME IInv, NEW p \in Others, Fork(p) \/ Exec(p) \/ Exit(p) PROVE Rest'
  BY DEF Environment
<1> USE CgroupAssumption DEF IInv, CgroupAssumption, Procs, Groups, None, wrapVars
<1>1. PICK g \in Groups \cup {None} :
          /\ group' = [group EXCEPT ![p] = g] /\ g \notin enabled /\ g <= run
          /\ arrived \/ g = ns => arrived'
          /\ UNCHANGED <<version, outer, wrapVars, quotaVars>>
  <2>1. CASE Fork(p)
    <3>1. PICK q \in Procs \ {p} : group[q] # None /\ Appear(p, group[q])
      BY <2>1 DEF Fork
    <3>2. group[q] \in Groups \cup {None} /\ group[q] <= run
      BY <3>1 DEF TypeInv, GroupInv
    <3>3. group' = [group EXCEPT ![p] = group[q]] /\ group[q] \notin enabled
      BY <3>1 DEF Appear
    <3>4. arrived \/ group[q] = ns => arrived'
      BY <3>1, Zenon DEF Appear
    <3>5. UNCHANGED <<version, outer, wrapVars, quotaVars>>
      BY <3>1 DEF Appear
    <3> QED
      BY <3>2, <3>3, <3>4, <3>5
  <2>2. CASE Exec(p)
    <3>1. group' = [group EXCEPT ![p] = 0] /\ 0 \notin enabled /\ 0 <= run /\ 0 \in Groups
      BY <2>2 DEF Exec, Appear, TypeInv
    <3>2. arrived \/ 0 = ns => arrived'
      BY <2>2, Zenon DEF Exec, Appear
    <3>3. UNCHANGED <<version, outer, wrapVars, quotaVars>>
      BY <2>2 DEF Exec, Appear
    <3> QED
      BY <3>1, <3>2, <3>3
  <2>3. CASE Exit(p)
    <3>1. /\ group' = [group EXCEPT ![p] = None] /\ arrived' = arrived
          /\ UNCHANGED <<version, outer, wrapVars, quotaVars>>
      BY <2>3 DEF Exit
    <3>2. None \notin enabled /\ None <= run /\ None # ns
      BY DEF TypeInv
    <3> QED
      BY <3>1, <3>2
  <2> QED
    BY <2>1, <2>2, <2>3
<1>2. group \in [Procs -> Groups \cup {None}] /\ p # "envbox" /\ p \in Procs
  BY DEF TypeInv
<1>3. \A q \in Procs : group'[q] = IF q = p THEN g ELSE group[q]
  BY <1>1, <1>2
<1>4. TypeInv'
  BY <1>1, <1>2 DEF TypeInv, quotaVars
<1>5. GroupInv'
  <2>1. group'["envbox"] = group["envbox"]
    BY <1>2, <1>3
  <2>2. \A q \in Procs : group'[q] <= run' /\ group'[q] \notin enabled'
    BY <1>1, <1>3 DEF GroupInv
  <2> QED
    BY <1>1, <2>1, <2>2 DEF GroupInv, Active
<1>6. ListInv'
  <2> SUFFICES ASSUME wrapper = "move", NEW q \in Procs, group'[q] = ns
               PROVE  q \in todo \/ arrived'
    BY <1>1 DEF ListInv
  <2>1. CASE q = p
    BY <2>1, <1>1, <1>3
  <2>2. CASE q # p
    BY <2>2, <1>1, <1>3 DEF ListInv
  <2> QED
    BY <2>1, <2>2
<1>7. RootInv'
  BY <1>1 DEF RootInv
<1>8. QuotaInv'
  BY <1>1, QuotaStays
<1> QED
  BY <1>4, <1>5, <1>6, <1>7, <1>8 DEF Rest

LEMMA QuotaNext == IInv /\ Quota => Rest'
<1> SUFFICES ASSUME IInv, Quota PROVE Rest'
  OBVIOUS
<1> USE DEF IInv, wrapVars
<1>1. /\ UNCHANGED <<version, outer, group, arrived, wrapVars>>
      /\ wrapper = "up" /\ step' # "off"
  BY DEF Quota, InnerStarts, ReadCPUQuota, SetQuotaV2, SetPeriodV1, SetQuotaV1, QuotaFails, QuotaInv
<1>2. GroupInv' /\ ListInv' /\ RootInv'
  BY <1>1 DEF GroupInv, ListInv, RootInv
<1>3. TypeInv'
  <2>1. quota' \in [quota : Int, period : Nat] /\ inner' \in [quota : Int, period : Nat]
    <3>1. CASE ReadCPUQuota
      <4>1. quota' \in {outer, NoLimit, Nothing} /\ inner' = inner
        BY <3>1 DEF ReadCPUQuota, readCPUQuotaCGroupV2, SelfMax, RootMax, V1Quota, Limit
      <4> QED
        BY <4>1, Limits DEF TypeInv
    <3>2. CASE InnerStarts \/ QuotaFails
      BY <3>2 DEF InnerStarts, QuotaFails, TypeInv
    <3>3. CASE SetQuotaV2 \/ SetPeriodV1 \/ SetQuotaV1
      BY <3>3 DEF SetQuotaV2, SetPeriodV1, SetQuotaV1, TypeInv
    <3> QED
      BY <3>1, <3>2, <3>3 DEF Quota
  <2>2. step' \in {"off", "read", "max", "period", "quota", "done"}
    BY DEF Quota, InnerStarts, ReadCPUQuota, SetQuotaV2, SetPeriodV1, SetQuotaV1, QuotaFails
  <2> QED
    BY <1>1, <2>1, <2>2 DEF TypeInv
<1>4. QuotaInv'
  <2> USE <1>1, Limits DEF QuotaInv, InnerLimitIsOuters
  <2>1. CASE InnerStarts
    BY <2>1 DEF InnerStarts
  <2>2. CASE ReadCPUQuota
    <3>1. CASE version = "v1"
      <4>1. root = None
        BY <3>1 DEF RootInv
      <4>2. readCPUQuotaCGroupV2 = Nothing /\ V1Quota = outer
        BY <3>1 DEF readCPUQuotaCGroupV2, SelfMax, RootMax, V1Quota
      <4> QED
        BY <4>2, <2>2 DEF ReadCPUQuota
    <3>2. CASE version = "v2"
      <4>1. root = ns /\ ns \in Nat
        BY <3>2 DEF RootInv, TypeInv, Groups
      <4>2. SelfMax = Nothing /\ RootMax = Limit(ns)
        BY <4>1, <3>2 DEF SelfMax, RootMax, None
      <4>3. Limit(ns) \in {outer, NoLimit} /\ (run = 1 => Limit(ns) = outer)
        BY DEF Limit, RootInv
      <4>4. readCPUQuotaCGroupV2 = Limit(ns) /\ Limit(ns) # Nothing
        BY <4>2, <4>3 DEF readCPUQuotaCGroupV2
      <4> QED
        BY <4>3, <4>4, <2>2 DEF ReadCPUQuota
    <3> QED
      BY <3>1, <3>2 DEF TypeInv
  <2>3. CASE SetQuotaV2
    <3>1. inner' = [quota |-> IF quota.quota < 0 THEN -1 ELSE quota.quota,
                    period |-> quota.period]
      BY <2>3 DEF SetQuotaV2
    <3>2. quota \in {outer, NoLimit} /\ (run = 1 => quota = outer)
      BY <2>3 DEF SetQuotaV2
    <3>3. quota \in [quota : Nat \cup {-1}, period : Nat]
      BY <3>2 DEF NoLimit
    <3>4. inner' = quota
      BY <3>1, <3>3
    <3> QED
      BY <3>2, <3>4, <2>3 DEF SetQuotaV2
  <2>4. CASE SetPeriodV1
    <3>1. inner' = [inner EXCEPT !.period = outer.period] /\ step' = "quota" /\ quota' = outer
      BY <2>4 DEF SetPeriodV1
    <3>2. inner'.quota = -1 /\ inner'.period = outer.period
      BY <3>1, <2>4 DEF SetPeriodV1, TypeInv
    <3> QED
      BY <3>1, <3>2
  <2>5. CASE SetQuotaV1
    <3>1. inner' = [inner EXCEPT !.quota = outer.quota] /\ inner.period = outer.period
      BY <2>5 DEF SetQuotaV1
    <3>2. inner' = outer
      BY <3>1 DEF TypeInv
    <3> QED
      BY <3>2, <2>5 DEF SetQuotaV1
  <2>6. CASE QuotaFails
    BY <2>6, Zenon DEF QuotaFails
  <2> QED
    BY <2>1, <2>2, <2>3, <2>4, <2>5, <2>6 DEF Quota
<1> QED
  BY <1>2, <1>3, <1>4 DEF Rest

LEMMA NextInv == IInv /\ [Next]_vars => IInv'
<1> SUFFICES ASSUME IInv, [Next]_vars PROVE IInv'
  OBVIOUS
<1>1. FlagInv'
  BY FlagsNext
<1>2. CASE UNCHANGED vars
  BY <1>2 DEF vars, wrapVars, quotaVars, IInv, TypeInv, FlagInv, GroupInv, ListInv, RootInv, QuotaInv,
              InnerLimitIsOuters
<1>3. CASE Next
  <2>1. Rest'
    BY <1>3, UnshareNext, MoveNext, WrapperNext, EnvironmentNext, QuotaNext DEF Next, WrapperStep
  <2> QED
    BY <1>1, <2>1 DEF IInv, Rest
<1> QED
  BY <1>2, <1>3

-----------------------------------------------------------------------------
(* Theorems.                                                               *)

\* For any processes, limits and numbers of attempts and restarts: types, and no
\* process is in a group whose controllers are enabled for its children.
THEOREM CgroupTypeCorrect == Spec => []TypeOK
<1>1. IInv => TypeOK
  <2> SUFFICES ASSUME IInv PROVE TypeOK
    OBVIOUS
  <2>1. \A p \in Procs : group[p] \notin enabled
    BY DEF IInv, GroupInv
  <2>2. {quota, inner} \subseteq [quota : Int, period : Nat]
    BY DEF IInv, TypeInv
  <2> QED
    BY <2>1, <2>2, Zenon DEF IInv, TypeInv, FlagInv, TypeOK
<1> QED
  BY <1>1, InitInv, NextInv, PTL DEF Spec

\* For any processes, limits, attempts and restarts: the limit of the inner container
\* is that of the outer one, or none; never a half of each.
THEOREM LimitCorrect == Spec => []InnerLimitIsOuters
<1>1. IInv => InnerLimitIsOuters
  BY DEF IInv, QuotaInv
<1> QED
  BY <1>1, InitInv, NextInv, PTL DEF Spec

\* For any processes, and however they come and go: an attempt is lost only to one that
\* came to the group after the attempt read its list.
THEOREM AttemptsLost == Spec => LostToNewcomer
<1>1. IInv /\ [Next]_vars => [attempts' = attempts + 1 => arrived]_vars
  <2> SUFFICES ASSUME IInv, Next, attempts' = attempts + 1 PROVE arrived
    BY DEF vars
  <2>1. attempts \in Nat
    BY DEF IInv, TypeInv
  <2>2. Enable \/ Unshare
    BY <2>1 DEF Next, WrapperStep, Environment, Quota, ExecV1, Remount, List, Move, Fork, Exec,
                Appear, Exit, InnerStarts, ReadCPUQuota, SetQuotaV2, SetPeriodV1, SetQuotaV1,
                QuotaFails, wrapVars
  <2>3. Enable
    BY <2>1, <2>2 DEF Unshare
  <2>4. wrapper = "move" /\ todo = {} /\ \E p \in Procs : group[p] = ns
    BY <2>1, <2>3 DEF Enable
  <2> QED
    BY <2>4 DEF IInv, ListInv
<1> QED
  BY <1>1, InitInv, NextInv, PTL DEF Spec, LostToNewcomer

-----------------------------------------------------------------------------
(* The loop of the wrapper is finite.  The outer loop is that of the       *)
(* attempts, the inner one that of xargs.                                  *)

\* Attempts the wrapper has left; one more before the first.
AttemptsLeft ==
    CASE wrapper = "remount"         -> MaxAttempts + 1
      [] wrapper \in {"list", "move"} -> MaxAttempts - attempts
      [] OTHER                       -> 0

ListsLeft == IF wrapper = "list" THEN 1 ELSE 0
MovesLeft == IF wrapper = "move" THEN Cardinality(todo) ELSE 0

WrapperGoesDown ==
    \/ AttemptsLeft' < AttemptsLeft
    \/ AttemptsLeft' = AttemptsLeft /\ ListsLeft' < ListsLeft
    \/ AttemptsLeft' = AttemptsLeft /\ ListsLeft' = ListsLeft /\ MovesLeft' < MovesLeft

\* All these numbers are naturals.
LEMMA WrapperNaturals ==
    ASSUME IInv
    PROVE  {AttemptsLeft, ListsLeft, MovesLeft} \subseteq Nat /\ IsFiniteSet(todo)
<1>1. IsFiniteSet(todo)
  <2>1. IsFiniteSet(Others)
    BY CgroupAssumption DEF CgroupAssumption
  <2>2. IsFiniteSet((Others \cup {"envbox"}) \cup {"sh"})
    BY <2>1, FS_AddElement
  <2>3. todo \subseteq (Others \cup {"envbox"}) \cup {"sh"}
    BY DEF IInv, TypeInv, Procs
  <2> QED
    BY <2>2, <2>3, FS_Subset
<1>2. Cardinality(todo) \in Nat
  BY <1>1, FS_CardinalityType
<1>3. attempts \in 0..MaxAttempts /\ MaxAttempts \in Nat
  BY CgroupAssumption DEF CgroupAssumption, IInv, TypeInv
<1>4. AttemptsLeft \in Nat
  BY <1>3 DEF AttemptsLeft
<1> QED
  BY <1>1, <1>2, <1>4 DEF ListsLeft, MovesLeft

LEMMA WrapperDown ==
    ASSUME IInv, WrapperStep
    PROVE  WrapperGoesDown
<1> USE DEF WrapperGoesDown
<1>1. attempts \in 0..MaxAttempts /\ MaxAttempts \in Nat \ {0}
  BY CgroupAssumption DEF CgroupAssumption, IInv, TypeInv
<1>2. CASE ExecV1
  BY <1>1, <1>2 DEF ExecV1, AttemptsLeft
<1>3. CASE Remount
  <2>1. attempts = 0
    BY <1>3 DEF Remount, IInv, GroupInv
  <2> QED
    BY <1>1, <1>3, <2>1 DEF Remount, AttemptsLeft
<1>4. CASE List
  BY <1>4 DEF List, AttemptsLeft, ListsLeft
<1>5. ASSUME NEW p \in Procs, Move(p) PROVE WrapperGoesDown
  <2>1. /\ wrapper = "move" /\ p \in todo /\ todo' = todo \ {p}
        /\ UNCHANGED <<wrapper, attempts>>
    BY <1>5 DEF Move
  <2>2. Cardinality(todo) \in Nat
    BY WrapperNaturals, FS_CardinalityType
  <2>3. Cardinality(todo \ {p}) = Cardinality(todo) - 1
    BY <2>1, WrapperNaturals, FS_RemoveElement
  <2> QED
    BY <2>1, <2>2, <2>3 DEF AttemptsLeft, ListsLeft, MovesLeft
<1>6. CASE Enable
  <2>1. wrapper = "move" /\ attempts < MaxAttempts
    BY <1>6 DEF Enable, IInv, GroupInv
  <2>2. \/ wrapper' \in {"up", "failed"}
        \/ wrapper' = "list" /\ attempts' = attempts + 1
    BY <1>6 DEF Enable
  <2> QED
    BY <1>1, <2>1, <2>2 DEF AttemptsLeft
<1> QED
  BY <1>2, <1>3, <1>4, <1>5, <1>6 DEF WrapperStep

\* For any finite set of processes, however they come and go: once dockerd's wrapper is
\* started, each of its steps lowers three naturals, taken in lexicographic order, and
\* nobody else's step changes where it is; it executes dockerd or gives up after finitely
\* many steps.
THEOREM WrapperIsFinite ==
    Spec => /\ []({AttemptsLeft, ListsLeft, MovesLeft} \subseteq Nat)
            /\ [][/\ WrapperStep => WrapperGoesDown
                  /\ wrapper \in Active => WrapperStep \/ UNCHANGED wrapVars]_vars
<1>1. IInv => {AttemptsLeft, ListsLeft, MovesLeft} \subseteq Nat
  BY WrapperNaturals
<1>2. IInv /\ [Next]_vars => [/\ WrapperStep => WrapperGoesDown
                              /\ wrapper \in Active => WrapperStep \/ UNCHANGED wrapVars]_vars
  <2> SUFFICES ASSUME IInv, Next
               PROVE  /\ WrapperStep => WrapperGoesDown
                      /\ wrapper \in Active => WrapperStep \/ UNCHANGED wrapVars
    OBVIOUS
  <2>1. wrapper \in Active => ~Unshare
    BY DEF Unshare, Active
  <2>2. Environment \/ Quota => UNCHANGED wrapVars
    BY DEF Environment, Fork, Exec, Exit, Appear, Quota, InnerStarts, ReadCPUQuota, SetQuotaV2,
           SetPeriodV1, SetQuotaV1, QuotaFails
  <2> QED
    BY <2>1, <2>2, WrapperDown DEF Next
<1> QED
  BY <1>1, <1>2, InitInv, NextInv, PTL DEF Spec
=============================================================================
