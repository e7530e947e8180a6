------------------------------- MODULE Cgroup -------------------------------
(***************************************************************************)
(* cli/wrap_dockerd.sh and the CPU quota: what the wrapper around dockerd  *)
(* does to the cgroups of the outer container, and which limits            *)
(* runDockerCVM then copies to the inner one (xunix/sys.go,                *)
(* dockerutil/container.go).                                               *)
(*                                                                         *)
(* Groups are numbered by depth: 0 is the group of the outer container,    *)
(* g + 1 the group `init` a wrapper makes in g.  As the README asks,       *)
(* envbox is in the cgroup namespace of the host, so the path it reads in  *)
(* /proc/self/cgroup is one of the hierarchy the host mounts.  That a      *)
(* group with controllers enabled for its children holds no process of its *)
(* own, and that a new group has no limit, is the kernel's rule.           *)
(***************************************************************************)
EXTENDS Integers, FiniteSets

CONSTANTS MaxRuns,       \* dockerd is started once, and once more by RunE
          MaxAttempts,   \* dockerdSubtreeControlMaxAttempts
          Others,        \* processes besides envbox and the wrapper
          OuterLimits    \* the limits the outer container may have

ASSUME CgroupAssumption ==
    /\ MaxRuns \in Nat \ {0} /\ MaxAttempts \in Nat \ {0}
    /\ {"envbox", "sh"} \cap Others = {} /\ IsFiniteSet(Others)
    /\ OuterLimits \subseteq [quota : Nat \cup {-1}, period : Nat]

Procs   == Others \cup {"envbox", "sh"}
Groups  == 0..MaxRuns
None    == -1                               \* no group, or one out of sight
NoLimit == [quota |-> -1, period |-> 1]     \* max, with the kernel's period
Nothing == [quota |-> -2, period |-> 0]     \* no such file

VARIABLES
    version,    \* of the cgroup hierarchy
    outer,      \* the limit of group 0
    group,      \* the group of each process
    enabled,    \* groups whose controllers are enabled for their children
    root,       \* the group /sys/fs/cgroup shows; None for the host's root
    wrapper,    \* position of wrap_dockerd.sh; "up" is dockerd
    run,        \* how often dockerd was started
    ns,         \* root of the wrapper's cgroup namespace
    todo,       \* the processes xargs has read and not yet written
    arrived,    \* a process came to that group since xargs read the list
    attempts,
    step,       \* position of runDockerCVM, from the quota on
    quota,      \* what ReadCPUQuota returned
    inner,      \* the limit of the inner container
    ioFailed    \* a file of the quota could not be read or written

wrapVars  == <<enabled, root, wrapper, run, ns, todo, attempts>>
quotaVars == <<step, quota, inner, ioFailed>>
vars == <<version, outer, group, arrived, wrapVars, quotaVars>>

Init ==
    /\ version \in {"v1", "v2"} /\ outer \in OuterLimits
    /\ group \in [Procs -> {0, None}] /\ group["envbox"] = 0 /\ group["sh"] = None
    /\ enabled = {} /\ root = None
    /\ wrapper = "off" /\ run = 0 /\ ns = 0
    /\ todo = {} /\ arrived = FALSE /\ attempts = 0
    /\ step = "off" /\ quota = Nothing /\ inner = NoLimit /\ ioFailed = FALSE

-----------------------------------------------------------------------------
(* The wrapper.                                                            *)

\* unshare --cgroup: the root of the new namespace is the group of the caller,
\* where its children start, too.  RunE restarts dockerd at most once, before
\* any inner container got as far as its quota.
Unshare ==
    /\ wrapper \in {"off", "up"} /\ step = "off" /\ run < MaxRuns
    /\ run' = run + 1
    /\ ns' = group["envbox"]
    /\ group' = [group EXCEPT !["sh"] = group["envbox"]]
    /\ wrapper' = "remount" /\ attempts' = 0
    /\ UNCHANGED <<version, outer, arrived, enabled, root, todo, quotaVars>>

\* Without cgroup.controllers there is nothing to do but to exec dockerd.
ExecV1 ==
    /\ wrapper = "remount" /\ version = "v1"
    /\ wrapper' = "up"
    /\ UNCHANGED <<version, outer, group, arrived, enabled, root, run, ns, todo, attempts,
                   quotaVars>>

\* umount, mount and mkdir.  The mount is that of the namespace, and seen by
\* envbox as well.
Remount ==
    /\ wrapper = "remount" /\ version = "v2"
    /\ \/ wrapper' = "list" /\ root' = ns
       \/ wrapper' = "failed" /\ UNCHANGED root
    /\ UNCHANGED <<version, outer, group, arrived, enabled, run, ns, todo, attempts, quotaVars>>

\* Mutant of List: only the first attempt moves processes.
ListOnce ==
    /\ wrapper = "list"
    /\ todo' = IF attempts = 0 THEN {p \in Procs : group[p] = ns} ELSE {}
    /\ arrived' = FALSE
    /\ wrapper' = "move"
    /\ UNCHANGED <<version, outer, group, enabled, root, run, ns, attempts, quotaVars>>

\* xargs reads cgroup.procs ...
List ==
    /\ wrapper = "list"
    /\ todo' = {p \in Procs : group[p] = ns}
    /\ arrived' = FALSE
    /\ wrapper' = "move"
    /\ UNCHANGED <<version, outer, group, enabled, root, run, ns, attempts, quotaVars>>

\* ... and writes one process after the other to init/cgroup.procs; that of
\* one that is gone is ignored.
Move(p) ==
    /\ wrapper = "move" /\ p \in todo
    /\ todo' = todo \ {p}
    /\ group' = [group EXCEPT ![p] = IF group[p] = None THEN None ELSE ns + 1]
    /\ UNCHANGED <<version, outer, arrived, enabled, root, wrapper, run, ns, attempts, quotaVars>>

\* Mutant of Enable: the attempts are not counted.
EnableUncounted ==
    /\ wrapper = "move" /\ todo = {}
    /\ \/ /\ \A p \in Procs : group[p] # ns
          /\ enabled' = enabled \cup {ns} /\ wrapper' = "up"
          /\ UNCHANGED attempts
       \/ /\ \E p \in Procs : group[p] = ns
          /\ wrapper' = "list"
          /\ UNCHANGED <<enabled, attempts>>
    /\ UNCHANGED <<version, outer, group, arrived, root, run, ns, todo, quotaVars>>

\* Mutant of Enable: gives up one attempt late.
EnableOnceMore ==
    /\ wrapper = "move" /\ todo = {}
    /\ \/ /\ \A p \in Procs : group[p] # ns
          /\ enabled' = enabled \cup {ns} /\ wrapper' = "up"
          /\ UNCHANGED attempts
       \/ /\ \E p \in Procs : group[p] = ns
          /\ attempts' = attempts + 1
          /\ wrapper' = IF attempts >= MaxAttempts THEN "failed" ELSE "list"
          /\ UNCHANGED enabled
    /\ UNCHANGED <<version, outer, group, arrived, root, run, ns, todo, quotaVars>>

\* The write to subtree_control: EBUSY while a process is left in the group.
\* Then the loop starts over, or gives up; else dockerd is executed.
Enable ==
    /\ wrapper = "move" /\ todo = {}
    /\ \/ /\ \A p \in Procs : group[p] # ns
          /\ enabled' = enabled \cup {ns} /\ wrapper' = "up"
          /\ UNCHANGED attempts
       \/ /\ \E p \in Procs : group[p] = ns
          /\ attempts' = attempts + 1
          /\ wrapper' = IF attempts + 1 >= MaxAttempts THEN "failed" ELSE "list"
          /\ UNCHANGED enabled
    /\ UNCHANGED <<version, outer, group, arrived, root, run, ns, todo, quotaVars>>

WrapperStep ==
    \/ ExecV1 \/ Remount \/ List \/ Enable
    \/ \E p \in Procs : Move(p)

-----------------------------------------------------------------------------
(* Processes that come and go meanwhile.                                   *)

\* A process appears in group g, to which the kernel must still admit one.
Appear(p, g) ==
    /\ group[p] = None /\ g \notin enabled
    /\ group' = [group EXCEPT ![p] = g]
    /\ arrived' = (arrived \/ g = ns)
    /\ UNCHANGED <<version, outer, wrapVars, quotaVars>>

\* A child starts in the group of its parent, a `docker exec` in group 0.
Fork(p) == \E q \in Procs \ {p} : group[q] # None /\ Appear(p, group[q])
Exec(p) == Appear(p, 0)

Exit(p) ==
    /\ group[p] # None
    /\ group' = [group EXCEPT ![p] = None]
    /\ UNCHANGED <<version, outer, arrived, wrapVars, quotaVars>>

Environment == \E p \in Others : Fork(p) \/ Exec(p) \/ Exit(p)

-----------------------------------------------------------------------------
(* The quota.                                                              *)

\* runDockerCVM has started the inner container.
InnerStarts ==
    /\ wrapper = "up" /\ step = "off"
    /\ step' = "read"
    /\ UNCHANGED <<version, outer, group, arrived, wrapVars, quota, inner, ioFailed>>

\* cpu.max of a group: only the outer container's own was ever written.
Limit(g) == IF g = 0 THEN outer ELSE NoLimit

\* cpu.max on the path of /proc/self/cgroup, which is a path of the host; on
\* the root of the mount, which the host's root group does not have.
SelfMax == IF version = "v2" /\ root = None THEN Limit(group["envbox"]) ELSE Nothing
RootMax == IF version = "v2" /\ root # None THEN Limit(root) ELSE Nothing
V1Quota == IF version = "v1" THEN outer ELSE Nothing

\* Mutant of readCPUQuotaCGroupV2: without the fallback.
readCPUQuotaSelf == SelfMax

readCPUQuotaCGroupV2 == IF SelfMax # Nothing THEN SelfMax ELSE RootMax

ReadCPUQuota ==
    /\ step = "read"
    /\ quota' = IF readCPUQuotaCGroupV2 # Nothing THEN readCPUQuotaCGroupV2 ELSE V1Quota
    /\ step' = IF quota' = Nothing THEN "done"
               ELSE IF readCPUQuotaCGroupV2 # Nothing THEN "max" ELSE "period"
    /\ UNCHANGED <<version, outer, group, arrived, wrapVars, inner, ioFailed>>

\* cgroup v2: quota and period in one write.
SetQuotaV2 ==
    /\ step = "max"
    /\ inner' = [quota |-> IF quota.quota < 0 THEN -1 ELSE quota.quota,
                 period |-> quota.period]
    /\ step' = "done"
    /\ UNCHANGED <<version, outer, group, arrived, wrapVars, quota, ioFailed>>

\* cgroup v1: the period, then the quota.
SetPeriodV1 ==
    /\ step = "period"
    /\ inner' = [inner EXCEPT !.period = quota.period] /\ step' = "quota"
    /\ UNCHANGED <<version, outer, group, arrived, wrapVars, quota, ioFailed>>

SetQuotaV1 ==
    /\ step = "quota"
    /\ inner' = [inner EXCEPT !.quota = quota.quota] /\ step' = "done"
    /\ UNCHANGED <<version, outer, group, arrived, wrapVars, quota, ioFailed>>

\* A file cannot be read or written: startup goes on without the quota.
QuotaFails ==
    /\ step \in {"read", "max", "period", "quota"}
    /\ ioFailed' = TRUE /\ step' = "done"
    /\ UNCHANGED <<version, outer, group, arrived, wrapVars, quota, inner>>

Quota == InnerStarts \/ ReadCPUQuota \/ SetQuotaV2 \/ SetPeriodV1 \/ SetQuotaV1 \/ QuotaFails

Next == Unshare \/ WrapperStep \/ Environment \/ Quota

Spec == Init /\ [][Next]_vars

\* The wrapper runs; whether processes come or go is up to them.
LiveSpec == Spec /\ WF_vars(WrapperStep)

-----------------------------------------------------------------------------
(* Properties.                                                             *)

\* Types; a process is never in a group whose controllers are enabled for its
\* children, also when the wrapper of a restart moves all one group further down.
TypeOK ==
    /\ version \in {"v1", "v2"} /\ outer \in OuterLimits
    /\ group \in [Procs -> Groups \cup {None}]
    /\ \A p \in Procs : group[p] \notin enabled
    /\ enabled \subseteq Groups /\ ns \in Groups /\ root \in Groups \cup {None}
    /\ wrapper \in {"off", "remount", "list", "move", "up", "failed"}
    /\ run \in 0..MaxRuns /\ attempts \in 0..MaxAttempts
    /\ todo \subseteq Procs /\ arrived \in BOOLEAN
    /\ step \in {"off", "read", "max", "period", "quota", "done"}
    /\ {quota, inner} \subseteq [quota : Int, period : Nat] /\ ioFailed \in BOOLEAN

\* The wrapper loses an attempt only to a process that came to the group after
\* that attempt read the list: the hundred are lost to a hundred newcomers, not to
\* a process that no attempt moves.
LostToNewcomer == [][attempts' = attempts + 1 => arrived]_vars

\* Whatever becomes of the processes, the wrapper executes dockerd or gives up.
WrapperEnds == wrapper = "remount" ~> wrapper \in {"up", "failed"}

\* A limit of the inner container is never a mix of the outer's and its own,
\* whichever write fails and however often dockerd was restarted.  With the dockerd
\* of the startup it is the limit of the outer container, unless a file fails:
\* although the wrapper moved envbox to another group and changed what
\* /sys/fs/cgroup shows.  The wrapper of a restarted dockerd starts in that other
\* group, which has no limit, and shows it as the root.
InnerLimitIsOuters ==
    /\ inner.quota = -1 \/ inner = outer
    /\ step = "done" /\ run = 1 /\ ~ioFailed => inner = outer
=============================================================================
