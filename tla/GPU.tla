-------------------------------- MODULE GPU --------------------------------
(***************************************************************************)
(* xunix/gpu.go: which driver mounts are taken out of /proc, and which     *)
(* files are bound into the inner container for its GPUs: the GPU mounts,  *)
(* the links beside them (SameDirSymlinks), and the GPU libraries below    *)
(* usrLibDir with the chains of links they begin (recursiveSymlinks).      *)
(*                                                                         *)
(* A path is a value, and Dir its directory.  What a path names is a file  *)
(* system: a file, another path if it is a link, or nothing.               *)
(***************************************************************************)
EXTENDS Integers, FiniteSets

CONSTANTS Paths, Dir,
          LibDirs,         \* the directories usrLibDir + "/" is a prefix of
          Libs,            \* paths there that gpuExtraRegex and sharedObjectRegex match
          FileSystems,     \* what the paths may name
          File, Gone,
          Mounts,          \* the mounts gpuMountRegex matches
          Devices,         \* those below /dev
          ProcMounts,      \* the mounts below /proc, by path
          Drivers,         \* those gpuMountRegex matches
          Above,           \* the pairs <<m, n>> of them with m below n
          Depth,           \* the slashes in their paths
          MaxIterations

InLib(p) == Dir[p] \in LibDirs

ASSUME GPUAssumption ==
    /\ IsFiniteSet(Paths) /\ File \notin Paths /\ Gone \notin Paths /\ File # Gone
    /\ FileSystems \subseteq [Paths -> Paths \cup {File, Gone}]
    /\ Mounts \subseteq Paths /\ Devices \subseteq Mounts
    /\ Libs \subseteq Paths /\ \A p \in Libs : InLib(p)
    /\ \A fs \in FileSystems, m \in Mounts : fs[m] = File   \* mount(2) resolves its target
    /\ IsFiniteSet(ProcMounts) /\ Drivers \subseteq ProcMounts /\ Depth \in [ProcMounts -> Nat]
    /\ Above \subseteq ProcMounts \X ProcMounts
    /\ \A mn \in Above : Depth[mn[1]] > Depth[mn[2]]
    /\ MaxIterations \in Nat \ {0}

VARIABLES
    mounted,   \* of ProcMounts
    stuck,     \* those umount failed for, though nothing was mounted below them
    link,      \* the file system: what each path names
    pos,       \* unmount, mounts, links, walk, chain, done or failed
    todo,      \* of the loop at hand: mounts, or paths of the walk
    binds,     \* the paths to bind
    failed,    \* mounts and libraries left out because of an error
    target,    \* SameDirSymlinks: the mount
    rest,      \*   links this pass has not looked at
    pass, fresh,
    linksOf,   \*   what it found, by mount
    path,      \* recursiveSymlinks: where it is
    chain      \*   the paths before that; what it appends, without repetitions

unmountVars == <<mounted, stuck>>
passVars  == <<target, rest, pass, fresh, linksOf>>
chainVars == <<path, chain>>
vars == <<unmountVars, link, pos, todo, binds, failed, passVars, chainVars>>

Init ==
    /\ mounted = ProcMounts /\ stuck = {}
    /\ link \in FileSystems
    /\ pos = "unmount" /\ todo = Drivers
    /\ binds = {} /\ failed = {}
    /\ target = Gone /\ rest = {} /\ pass = 0 /\ fresh = FALSE
    /\ linksOf = [m \in Mounts |-> {}]
    /\ path = Gone /\ chain = {}

-----------------------------------------------------------------------------
(* TryUnmountProcGPUDrivers.                                               *)

\* Mutant of Deepest: the order of the list of mounts.
NextInList == todo

\* The longest paths first; those of one length in any order.
Deepest == {m \in todo : \A n \in todo : Depth[n] <= Depth[m]}

\* A mount with another one below it is busy; else umount works or fails.
Unmount(m) ==
    /\ pos = "unmount" /\ m \in Deepest
    /\ todo' = todo \ {m}
    /\ \/ /\ \E n \in mounted : <<n, m>> \in Above
          /\ UNCHANGED unmountVars
       \/ /\ \A n \in mounted : <<n, m>> \notin Above
          /\ \/ mounted' = mounted \ {m} /\ UNCHANGED stuck
             \/ stuck' = stuck \cup {m} /\ UNCHANGED mounted
    /\ UNCHANGED <<link, pos, binds, failed, passVars, chainVars>>

\* Its list of the mounts, and that of GPUs, is not to be had: RunE fails.
ListFails ==
    /\ pos = "unmount" /\ todo \in {Drivers, {}}
    /\ pos' = "failed"
    /\ UNCHANGED <<unmountVars, link, todo, binds, failed, passVars, chainVars>>

-----------------------------------------------------------------------------
(* GPUs: the mounts, and the links beside them.                            *)

ListMounts ==
    /\ pos = "unmount" /\ todo = {}
    /\ pos' = "mounts" /\ todo' = Mounts
    /\ UNCHANGED <<unmountVars, link, binds, failed, passVars, chainVars>>

IsLink(p) == link[p] \in Paths
Siblings(m) == {l \in Paths : Dir[l] = Dir[m] /\ IsLink(l)}

\* A device is no bind.  If the directory or one of its links cannot be read, the
\* mount is bound without links.
TakeMount(m) ==
    /\ pos = "mounts" /\ m \in todo
    /\ todo' = todo \ {m}
    /\ \/ /\ m \in Devices
          /\ UNCHANGED <<pos, binds, failed, passVars>>
       \/ /\ m \notin Devices
          /\ binds' = binds \cup {m} /\ failed' = failed \cup {m}
          /\ UNCHANGED <<pos, passVars>>
       \/ /\ m \notin Devices
          /\ binds' = binds \cup {m}
          /\ target' = m /\ rest' = Siblings(m) /\ pass' = 1 /\ fresh' = FALSE
          /\ pos' = "links"
          /\ UNCHANGED <<failed, linksOf>>
    /\ UNCHANGED <<unmountVars, link, chainVars>>

\* A pass looks at the links in the order of a Go map, that is in any.
Look(l) ==
    /\ pos = "links" /\ l \in rest
    /\ rest' = rest \ {l}
    /\ \/ /\ l \notin linksOf[target] /\ link[l] \in linksOf[target] \cup {target}
          /\ linksOf' = [linksOf EXCEPT ![target] = @ \cup {l}] /\ fresh' = TRUE
       \/ /\ l \in linksOf[target] \/ link[l] \notin linksOf[target] \cup {target}
          /\ UNCHANGED <<linksOf, fresh>>
    /\ UNCHANGED <<unmountVars, link, pos, todo, binds, failed, target, pass, chainVars>>

\* Mutants of AnotherPass: there is but one pass; the number has no limit.
OnePass    == FALSE
AnyPasses  == fresh

AnotherPass == fresh /\ pass < MaxIterations

NextPass ==
    /\ pos = "links" /\ rest = {} /\ AnotherPass
    /\ pass' = pass + 1 /\ rest' = Siblings(target) /\ fresh' = FALSE
    /\ UNCHANGED <<unmountVars, link, pos, todo, binds, failed, target, linksOf, chainVars>>

LinksFound ==
    /\ pos = "links" /\ rest = {} /\ ~AnotherPass
    /\ binds' = binds \cup linksOf[target]
    /\ pos' = "mounts"
    /\ UNCHANGED <<unmountVars, link, todo, failed, passVars, chainVars>>

-----------------------------------------------------------------------------
(* usrLibGPUs: the walk, and the chain of links of each library.           *)

Walk ==
    /\ pos = "mounts" /\ todo = {}
    /\ \/ pos' = "walk" /\ todo' = {p \in Libs : link[p] # Gone}
       \/ pos' = "failed" /\ UNCHANGED todo   \* usrLibDir cannot be read
    /\ UNCHANGED <<unmountVars, link, binds, failed, passVars, chainVars>>

\* A library: its chain is followed, or left out, as are those of a directory
\* that cannot be listed.
TakeLib(p) ==
    /\ pos = "walk" /\ p \in todo
    /\ todo' = todo \ {p}
    /\ \/ pos' = "chain" /\ path' = p /\ chain' = {} /\ UNCHANGED failed
       \/ failed' = failed \cup {p} /\ UNCHANGED <<pos, chainVars>>
    /\ UNCHANGED <<unmountVars, link, binds, passVars>>

ChainStays == UNCHANGED <<unmountVars, link, todo, failed, passVars>>

\* Mutant of FollowLink: the prefix is tested when the chain has ended.
FollowAnyLink ==
    /\ pos = "chain" /\ IsLink(path)
    /\ chain' = chain \cup {path} /\ path' = link[path]
    /\ UNCHANGED <<pos, binds>> /\ ChainStays

FollowLink ==
    /\ pos = "chain" /\ InLib(path) /\ IsLink(path)
    /\ chain' = chain \cup {path} /\ path' = link[path]
    /\ UNCHANGED <<pos, binds>> /\ ChainStays

\* Mutant of ChainBreaks: what was followed so far is returned.
ChainBreaksOff ==
    /\ pos = "chain" /\ (~InLib(path) \/ link[path] = Gone)
    /\ binds' = binds \cup chain
    /\ pos' = "walk"
    /\ UNCHANGED chainVars /\ ChainStays

\* A chain that leaves usrLibDir, or ends nowhere, is not bound at all.
ChainBreaks ==
    /\ pos = "chain" /\ (~InLib(path) \/ link[path] = Gone)
    /\ pos' = "walk"
    /\ UNCHANGED <<binds, chainVars>> /\ ChainStays

\* A chain that ends in a file is; what the mounts already bind is not repeated.
ChainEnds ==
    /\ pos = "chain" /\ InLib(path) /\ link[path] = File
    /\ binds' = binds \cup chain \cup {path}
    /\ pos' = "walk"
    /\ UNCHANGED chainVars /\ ChainStays

Return ==
    /\ pos = "walk" /\ todo = {}
    /\ pos' = "done"
    /\ UNCHANGED <<unmountVars, link, todo, binds, failed, passVars, chainVars>>

GPUStep ==
    \/ \E m \in ProcMounts : Unmount(m)
    \/ ListFails \/ ListMounts \/ NextPass \/ LinksFound \/ Walk
    \/ FollowLink \/ ChainBreaks \/ ChainEnds \/ Return
    \/ \E m \in Mounts : TakeMount(m)
    \/ \E p \in Paths : Look(p) \/ TakeLib(p)

Spec == Init /\ [][GPUStep]_vars

LiveSpec == Spec /\ WF_vars(GPUStep)

-----------------------------------------------------------------------------
(* Properties.                                                             *)

\* Types.  What SameDirSymlinks found is beside its mount, and leads to it.
GPUTypeOK ==
    /\ mounted \subseteq ProcMounts /\ stuck \subseteq Drivers
    /\ link \in [Paths -> Paths \cup {File, Gone}]
    /\ pos \in {"unmount", "mounts", "links", "walk", "chain", "done", "failed"}
    /\ todo \subseteq Drivers \cup Mounts \cup Libs
    /\ binds \subseteq Paths /\ failed \subseteq Mounts \cup Libs
    /\ target \in Mounts \cup {Gone} /\ rest \subseteq Paths /\ pass \in 0..MaxIterations
    /\ fresh \in BOOLEAN /\ path \in Paths \cup {Gone} /\ chain \subseteq Paths
    /\ linksOf \in [Mounts -> SUBSET Paths]
    /\ \A m \in Mounts : \A l \in linksOf[m] :
           l \in Siblings(m) /\ link[l] \in linksOf[m] \cup {m}

\* A link is bound together with what it names: in the inner container no driver
\* library leads to a file that was left outside, however the chains of links
\* overlap, break off or leave usrLibDir.
NoDanglingDriver == \A p \in binds : IsLink(p) => link[p] \in binds

\* Beside a GPU mount every link that leads to a bound one is bound, in whichever
\* order the passes looked at them, unless ten passes were not enough, for which as
\* many links must lead to the mount.
MountLinksBound ==
    \A m \in Mounts \ (Devices \cup failed) : \A l \in Siblings(m) :
        link[l] \in linksOf[m] \cup {m} =>
            l \in binds \/ Cardinality(linksOf[m]) >= MaxIterations

\* A library below usrLibDir that is a file is bound, and so is one that is a link
\* to a bound library.
LibsBound ==
    \A p \in Libs \ failed :
        link[p] = File \/ (IsLink(p) /\ InLib(link[p]) /\ link[p] \in binds) => p \in binds

\* Nothing that could be bound is forgotten.
NothingForgotten == pos = "done" => MountLinksBound /\ LibsBound

\* No driver mount is left in /proc when the first container is created, but one
\* that could not be unmounted, and those above a mount that is left.  A failure
\* to list the mounts creates none.
ProcDriversGone ==
    pos \notin {"unmount", "failed"} =>
        \A m \in Drivers \cap mounted : m \in stuck \/ \E n \in mounted : <<n, m>> \in Above

\* There are links below usrLibDir that lead to each other and nowhere else.
LibCycle ==
    \E C \in SUBSET {p \in Paths : InLib(p)} : C # {} /\ \A p \in C : link[p] \in C

\* The search comes to an end, also if links outside usrLibDir form a cycle.  A cycle
\* inside is followed for ever.
GPUsReturns == ~LibCycle => <>(pos \in {"done", "failed"})
=============================================================================
