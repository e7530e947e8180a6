----------------------------- MODULE GPUProofs -----------------------------
(***************************************************************************)
(* Theorems of GPU: its types, that no bound link leads outside of what is *)
(* bound, that SameDirSymlinks finds what it looks for, and which driver   *)
(* mounts remain in /proc.                                                 *)
(***************************************************************************)
EXTENDS GPU, FiniteSetTheorems, TLAPS

-----------------------------------------------------------------------------
(* Types.  What the loops work on while they run.                          *)

LoopInv ==
    /\ GPUTypeOK
    /\ \A m \in Mounts : link[m] = File
    /\ pos = "unmount" => todo \subseteq Drivers
    /\ pos \in {"mounts", "links"} => todo \subseteq Mounts
    /\ pos \in {"walk", "chain"} => todo \subseteq Libs
    /\ pos = "links" =>
          /\ target \in Mounts \ Devices /\ target \in binds
          /\ rest \subseteq Siblings(target) /\ pass >= 1
    /\ pos = "chain" => path \in Paths

LEMMA InitLoop == Init => LoopInv
<1> SUFFICES ASSUME Init PROVE LoopInv
  OBVIOUS
<1>1. link \in [Paths -> Paths \cup {File, Gone}] /\ \A m \in Mounts : link[m] = File
  BY GPUAssumption DEF GPUAssumption, Init
<1>2. pass \in 0..MaxIterations /\ linksOf \in [Mounts -> SUBSET Paths]
  BY GPUAssumption DEF GPUAssumption, Init
<1>3. \A m \in Mounts : linksOf[m] = {}
  BY DEF Init
<1>4. fresh \in BOOLEAN
  BY Zenon DEF Init
<1>5. mounted \subseteq ProcMounts /\ todo \subseteq Drivers
  BY DEF Init
<1> QED
  BY <1>1, <1>2, <1>3, <1>4, <1>5 DEF Init, LoopInv, GPUTypeOK

\* Every step keeps the types and what the loops work on.
LEMMA NextLoop == LoopInv /\ [GPUStep]_vars => LoopInv'
<1> SUFFICES ASSUME LoopInv, [GPUStep]_vars PROVE LoopInv'
  OBVIOUS
<1> USE GPUAssumption DEF GPUAssumption, LoopInv, GPUTypeOK, unmountVars, passVars, chainVars,
        Siblings, IsLink
<1>0. fresh' \in BOOLEAN
  BY Zenon DEF GPUStep, vars, Unmount, ListFails, ListMounts, TakeMount, Look, NextPass, LinksFound, Walk,
               TakeLib, FollowLink, ChainBreaks, ChainEnds, Return, ChainStays
<1>1. ASSUME NEW m \in ProcMounts, Unmount(m) PROVE LoopInv'
  <2>1. /\ todo' \subseteq todo /\ stuck' \subseteq stuck \cup {m} /\ mounted' \subseteq mounted
        /\ m \in todo /\ pos = "unmount" /\ pos' = pos
        /\ UNCHANGED <<link, binds, failed, passVars, chainVars>>
    BY <1>1 DEF Unmount, Deepest
  <2> QED
    BY <1>0, <2>1
<1>2. CASE ListMounts \/ ListFails
  BY <1>2 DEF ListMounts, ListFails
<1>3. ASSUME NEW m \in Mounts, TakeMount(m) PROVE LoopInv'
  <2>1. CASE pos' = "mounts"
    BY <2>1, <1>0, <1>3 DEF TakeMount
  <2>2. CASE pos' = "links"
    <3>1. /\ m \notin Devices /\ binds' = binds \cup {m} /\ target' = m /\ rest' = Siblings(m)
          /\ pass' = 1 /\ todo' = todo \ {m} /\ pos = "mounts" /\ m \in todo
          /\ UNCHANGED <<unmountVars, link, failed, linksOf, chainVars>>
      BY <2>2, <1>3 DEF TakeMount
    <3>2. pass' \in 0..MaxIterations
      BY <3>1
    <3>3. Siblings(m)' = Siblings(m)
      BY <3>1
    <3>4. \A n \in Mounts : \A l \in linksOf'[n] :
              (l \in Siblings(n) /\ link[l] \in linksOf[n] \cup {n})'
      BY <3>1
    <3> QED
      BY <2>2, <3>1, <3>2, <3>3, <3>4, <1>0
  <2> QED
    BY <2>1, <2>2, <1>3 DEF TakeMount
<1>4. ASSUME NEW l \in Paths, Look(l) PROVE LoopInv'
  <2>1. CASE UNCHANGED linksOf
    BY <2>1, <1>4 DEF Look
  <2>2. CASE ~UNCHANGED linksOf
    <3>1. /\ linksOf' = [linksOf EXCEPT ![target] = @ \cup {l}]
          /\ link[l] \in linksOf[target] \cup {target}
      BY <2>2, <1>4 DEF Look
    <3>2. target \in Mounts /\ l \in Siblings(target) /\ l \in Paths
      BY <1>4 DEF Look
    <3>3. linksOf' \in [Mounts -> SUBSET Paths]
      BY <3>1, <3>2
    <3>4. ASSUME NEW m \in Mounts, NEW k \in linksOf'[m]
          PROVE  (k \in Siblings(m) /\ link[k] \in linksOf[m] \cup {m})'
      <4>1. k \in linksOf[m] \/ (m = target /\ k = l)
        BY <3>1, <3>4
      <4>2. linksOf[m] \subseteq linksOf'[m]
        BY <3>1
      <4> QED
        BY <4>1, <4>2, <3>1, <3>2, <1>4 DEF Look
    <3> QED
      BY <3>3, <3>4, <1>4 DEF Look
  <2> QED
    BY <2>1, <2>2
<1>5. CASE NextPass
  <2>1. pass' \in 1..MaxIterations /\ rest' = Siblings(target) /\ pos = "links"
    BY <1>5 DEF NextPass, AnotherPass
  <2> QED
    BY <2>1, <1>0, <1>5 DEF NextPass
<1>6. CASE LinksFound
  BY <1>6 DEF LinksFound
<1>7. CASE Walk
  BY <1>7 DEF Walk
<1>8. ASSUME NEW p \in Paths, TakeLib(p) PROVE LoopInv'
  BY <1>8 DEF TakeLib
<1>9. CASE FollowLink
  BY <1>9 DEF FollowLink, ChainStays
<1>10. CASE ChainBreaks
  BY <1>10 DEF ChainBreaks, ChainStays
<1>11. CASE ChainEnds
  BY <1>11 DEF ChainEnds, ChainStays
<1>12. CASE Return
  BY <1>12 DEF Return
<1>13. CASE UNCHANGED vars
  BY <1>13 DEF vars
<1> QED
  BY <1>1, <1>2, <1>3, <1>4, <1>5, <1>6, <1>7, <1>8, <1>9, <1>10, <1>11, <1>12, <1>13 DEF GPUStep

\* For any file system, mounts and libraries: types, and what SameDirSymlinks found is
\* beside its mount and leads to it.
THEOREM GPUTypeCorrect == Spec => []GPUTypeOK
<1>1. LoopInv => GPUTypeOK
  BY DEF LoopInv
<1> QED
  BY <1>1, InitLoop, NextLoop, PTL DEF Spec

-----------------------------------------------------------------------------
(* What is bound.  A chain under way lacks only the path it has come to.   *)

BoundInv ==
    /\ NoDanglingDriver
    /\ pos = "chain" => \A p \in chain : link[p] \in chain \cup {path}

\* Every step keeps what is bound closed under links.
LEMMA NextBound == LoopInv /\ BoundInv /\ [GPUStep]_vars => BoundInv'
<1> SUFFICES ASSUME LoopInv, BoundInv, [GPUStep]_vars PROVE BoundInv'
  OBVIOUS
<1> USE GPUAssumption DEF BoundInv, NoDanglingDriver, IsLink, unmountVars, passVars, chainVars
<1>1. CASE UNCHANGED <<link, binds>> /\ pos' # "chain"
  BY <1>1
<1>2. ASSUME NEW l \in Paths, Look(l) PROVE BoundInv'
  BY <1>2 DEF Look
<1>3. ASSUME NEW m \in Mounts, TakeMount(m) PROVE BoundInv'
  <2>1. binds' = binds \/ binds' = binds \cup {m}
    BY <1>3 DEF TakeMount
  <2>2. link' = link /\ pos' # "chain"
    BY <1>3 DEF TakeMount
  <2>3. link[m] \notin Paths
    BY DEF LoopInv, GPUAssumption
  <2> QED
    BY <2>1, <2>2, <2>3
<1>4. CASE LinksFound
  <2>1. binds' = binds \cup linksOf[target] /\ link' = link /\ pos' # "chain"
    BY <1>4 DEF LinksFound
  <2>2. target \in binds /\ \A l \in linksOf[target] : link[l] \in linksOf[target] \cup {target}
    BY <1>4 DEF LinksFound, LoopInv, GPUTypeOK
  <2> QED
    BY <2>1, <2>2
<1>5. ASSUME NEW p \in Paths, TakeLib(p) PROVE BoundInv'
  BY <1>5 DEF TakeLib
<1>6. CASE FollowLink
  BY <1>6 DEF FollowLink, ChainStays
<1>7. CASE ChainEnds
  <2>1. binds' = binds \cup chain \cup {path} /\ link' = link /\ pos' # "chain"
    BY <1>7 DEF ChainEnds, ChainStays
  <2>2. \A p \in chain : link[p] \in chain \cup {path}
    BY <1>7 DEF ChainEnds
  <2>3. link[path] \notin Paths
    BY <1>7 DEF ChainEnds, GPUAssumption
  <2> QED
    BY <2>1, <2>2, <2>3
<1>8. CASE UNCHANGED vars
  BY <1>8 DEF vars
<1>9. CASE \/ \E m \in ProcMounts : Unmount(m)
           \/ ListFails \/ ListMounts \/ NextPass \/ Walk \/ ChainBreaks \/ Return
  BY <1>9, <1>1 DEF Unmount, ListFails, ListMounts, NextPass, Walk, ChainBreaks, ChainStays, Return
<1> QED
  BY <1>2, <1>3, <1>4, <1>5, <1>6, <1>7, <1>8, <1>9 DEF GPUStep

\* For any file system, and however its chains of links overlap: a bound link is bound
\* together with what it names.
THEOREM NothingDangles == Spec => []NoDanglingDriver
<1>1. Init => BoundInv
  BY DEF Init, BoundInv, NoDanglingDriver
<1>2. BoundInv => NoDanglingDriver
  BY DEF BoundInv
<1> QED
  BY <1>1, <1>2, InitLoop, NextLoop, NextBound, PTL DEF Spec

-----------------------------------------------------------------------------
(* SameDirSymlinks.  A pass that added nothing has seen that nothing is    *)
(* missing, and each pass before it has added a link.                      *)

\* A link that leads to what was found of m's links has been found, too.
Closed(m, seen) ==
    \A l \in seen : link[l] \in linksOf[m] \cup {m} => l \in linksOf[m]

PassInv ==
    pos = "links" =>
        /\ ~fresh => Closed(target, Siblings(target) \ rest)
        /\ Cardinality(linksOf[target]) >= pass - 1
        /\ fresh => Cardinality(linksOf[target]) >= pass

Taken(m) ==
    /\ pos \notin {"unmount", "failed"}
    /\ pos \in {"mounts", "links"} => m \notin todo
    /\ pos = "links" => m # target

LinksInv ==
    /\ PassInv
    /\ \A m \in Mounts \ (Devices \cup failed) : Taken(m) =>
          /\ linksOf[m] \subseteq binds
          /\ Closed(m, Siblings(m)) \/ Cardinality(linksOf[m]) >= MaxIterations

\* The sets of links are finite.
LEMMA FiniteLinks ==
    ASSUME LoopInv, NEW m \in Mounts
    PROVE  /\ IsFiniteSet(linksOf[m]) /\ Cardinality(linksOf[m]) \in Nat
           /\ \A l \in Paths \ linksOf[m] :
                 Cardinality(linksOf[m] \cup {l}) = Cardinality(linksOf[m]) + 1
<1>1. linksOf[m] \subseteq Paths /\ IsFiniteSet(Paths)
  BY GPUAssumption DEF LoopInv, GPUTypeOK, GPUAssumption
<1>2. IsFiniteSet(linksOf[m])
  BY <1>1, FS_Subset
<1> QED
  BY <1>2, FS_CardinalityType, FS_AddElement

\* A pass looks at a link.
LEMMA LookLinks ==
    ASSUME LoopInv, LinksInv, NEW l \in Paths, Look(l)
    PROVE  LinksInv'
<1> USE DEF LinksInv, PassInv, Taken, Closed
<1>1. /\ target \in Mounts /\ target' = target /\ link' = link /\ pos' = pos /\ todo' = todo
      /\ binds' = binds /\ failed' = failed /\ pass' = pass /\ pos = "links"
      /\ pass \in Nat /\ rest' = rest \ {l}
      /\ \A m \in Mounts : Siblings(m)' = Siblings(m)
  BY DEF Look, LoopInv, GPUTypeOK, Siblings, IsLink
<1>2. CASE linksOf' = linksOf /\ fresh' = fresh
  <2>1. l \in linksOf[target] \/ link[l] \notin linksOf[target] \cup {target}
    BY <1>2, <1>1 DEF Look, LoopInv, GPUTypeOK
  <2> QED
    BY <2>1, <1>1, <1>2
<1>3. CASE ~(linksOf' = linksOf /\ fresh' = fresh)
  <2>1. /\ l \notin linksOf[target] /\ fresh' = TRUE
        /\ linksOf' = [linksOf EXCEPT ![target] = @ \cup {l}]
    BY <1>3 DEF Look
  <2>2. linksOf'[target] = linksOf[target] \cup {l}
    BY <2>1, <1>1 DEF LoopInv, GPUTypeOK
  <2>3. \A m \in Mounts \ {target} : linksOf'[m] = linksOf[m]
    BY <2>1 DEF LoopInv, GPUTypeOK
  <2>4. Cardinality(linksOf'[target]) = Cardinality(linksOf[target]) + 1
    BY <2>2, <2>1, <1>1, FiniteLinks
  <2>5. Cardinality(linksOf[target]) \in Nat
    BY <1>1, FiniteLinks
  <2>6. PassInv'
    BY <2>1, <2>4, <2>5, <1>1
  <2> QED
    BY <2>3, <2>6, <1>1
<1> QED
  BY <1>2, <1>3

\* Every step keeps the account of SameDirSymlinks.
LEMMA NextLinks == LoopInv /\ LinksInv /\ [GPUStep]_vars => LinksInv'
<1> SUFFICES ASSUME LoopInv, LinksInv, [GPUStep]_vars PROVE LinksInv'
  OBVIOUS
<1> USE DEF LinksInv, PassInv, Taken, unmountVars, passVars, chainVars
<1>1. ASSUME NEW m \in ProcMounts, Unmount(m) PROVE LinksInv'
  BY <1>1 DEF Unmount
<1>2. CASE ListMounts \/ ListFails
  BY <1>2 DEF ListMounts, ListFails
<1>3. ASSUME NEW m \in Mounts, TakeMount(m) PROVE LinksInv'
  <2>1. /\ link' = link /\ linksOf' = linksOf /\ todo' = todo \ {m} /\ pos = "mounts"
        /\ binds \subseteq binds' /\ failed \subseteq failed'
    BY <1>3 DEF TakeMount
  <2>2. \A n \in Mounts : Closed(n, Siblings(n))' = Closed(n, Siblings(n))
    BY <2>1 DEF Siblings, IsLink, Closed
  <2>3. \/ m \in Devices /\ pos' = "mounts"
        \/ m \in failed' /\ pos' = "mounts"
        \/ pos' = "links" /\ target' = m /\ rest' = Siblings(m) /\ pass' = 1 /\ fresh' = FALSE
    BY <1>3 DEF TakeMount
  <2>4. ASSUME NEW n \in Mounts \ (Devices \cup failed'), Taken(n)'
        PROVE  Taken(n) /\ n \in Mounts \ (Devices \cup failed)
    BY <2>1, <2>3, <2>4
  <2>5. PassInv'
    <3>1. CASE pos' = "mounts"
      BY <3>1
    <3>2. CASE pos' = "links"
      <4>1. target' = m /\ rest' = Siblings(m)' /\ pass' = 1 /\ fresh' = FALSE
        BY <3>2, <2>1, <2>3 DEF Siblings, IsLink
      <4>2. Cardinality(linksOf'[m]) \in Nat
        BY <2>1, FiniteLinks
      <4> QED
        BY <4>1, <4>2 DEF Closed
    <3> QED
      BY <3>1, <3>2, <2>3
  <2> QED
    BY <2>1, <2>2, <2>4, <2>5
<1>4. ASSUME NEW l \in Paths, Look(l) PROVE LinksInv'
  BY <1>4, LookLinks
<1>5. CASE NextPass
  <2>1. /\ pos = "links" /\ pos' = "links" /\ target' = target /\ fresh /\ ~fresh'
        /\ pass' = pass + 1 /\ rest' = Siblings(target) /\ link' = link
        /\ UNCHANGED <<linksOf, todo, binds, failed>>
    BY <1>5 DEF NextPass, AnotherPass
  <2>2. \A n \in Mounts : Closed(n, Siblings(n))' = Closed(n, Siblings(n))
    BY <2>1 DEF Siblings, IsLink, Closed
  <2>3. rest' = Siblings(target)'
    BY <2>1 DEF Siblings, IsLink
  <2>4. pass \in Nat
    BY DEF LoopInv, GPUTypeOK
  <2>5. PassInv'
    BY <2>1, <2>3, <2>4 DEF Closed
  <2> QED
    BY <2>1, <2>2, <2>5
<1>6. CASE LinksFound
  <2>1. /\ pos = "links" /\ pos' = "mounts" /\ rest = {} /\ (~fresh \/ pass >= MaxIterations)
        /\ binds' = binds \cup linksOf[target]
        /\ UNCHANGED <<link, linksOf, todo, failed, target>>
    BY <1>6, GPUAssumption DEF LinksFound, AnotherPass, LoopInv, GPUTypeOK, GPUAssumption
  <2>2. \A n \in Mounts : Closed(n, Siblings(n))' = Closed(n, Siblings(n))
    BY <2>1 DEF Siblings, IsLink, Closed
  <2>3. /\ pass \in Nat /\ MaxIterations \in Nat /\ target \in Mounts
        /\ Cardinality(linksOf[target]) \in Nat
    BY <2>1, GPUAssumption, FiniteLinks DEF LoopInv, GPUTypeOK, GPUAssumption
  <2>4. Closed(target, Siblings(target)) \/ Cardinality(linksOf[target]) >= MaxIterations
    BY <2>1, <2>3
  <2> QED
    BY <2>1, <2>2, <2>4
<1>7. CASE Walk
  BY <1>7 DEF Walk, Closed, Siblings, IsLink
<1>8. CASE \/ \E p \in Paths : TakeLib(p)
           \/ FollowLink \/ ChainBreaks \/ ChainEnds \/ Return
  <2>1. /\ pos \in {"walk", "chain"} /\ pos' \in {"walk", "chain", "done"}
        /\ binds \subseteq binds' /\ failed \subseteq failed'
        /\ UNCHANGED <<link, linksOf>>
    BY <1>8 DEF TakeLib, FollowLink, ChainBreaks, ChainEnds, Return, ChainStays
  <2>2. \A n \in Mounts : Closed(n, Siblings(n))' = Closed(n, Siblings(n))
    BY <2>1 DEF Siblings, IsLink, Closed
  <2> QED
    BY <2>1, <2>2
<1>9. CASE UNCHANGED vars
  BY <1>9 DEF vars, Closed, Siblings, IsLink
<1> QED
  BY <1>1, <1>2, <1>3, <1>4, <1>5, <1>6, <1>7, <1>8, <1>9 DEF GPUStep

\* For any directory and any limit: a link beside a mount that leads to a bound one is
\* bound, whatever the order of Go's map, unless the limit is not more than the number
\* of links that lead to the mount.
THEOREM MountLinksComplete == Spec => [](pos = "done" => MountLinksBound)
<1>1. Init => LinksInv
  BY DEF Init, LinksInv, PassInv, Taken
<1>2. LinksInv => (pos = "done" => MountLinksBound)
  BY DEF LinksInv, Taken, MountLinksBound, Closed
<1> QED
  BY <1>1, <1>2, InitLoop, NextLoop, NextLinks, PTL DEF Spec

-----------------------------------------------------------------------------
(* The drivers in /proc.  Of two mounts one above the other, the upper one *)
(* is tried after the lower one.                                           *)

UnmountInv ==
    /\ pos = "unmount" =>
          /\ todo \subseteq Drivers
          /\ \A m \in Drivers \ todo, n \in todo : Depth[n] <= Depth[m]
    /\ \A m \in Drivers \cap mounted :
          \/ pos = "failed"
          \/ pos = "unmount" /\ m \in todo
          \/ m \in stuck
          \/ \E n \in mounted : <<n, m>> \in Above

LEMMA NextUnmount == UnmountInv /\ [GPUStep]_vars => UnmountInv'
<1> SUFFICES ASSUME UnmountInv, [GPUStep]_vars PROVE UnmountInv'
  OBVIOUS
<1> USE DEF UnmountInv, unmountVars
<1>1. ASSUME NEW k \in ProcMounts, Unmount(k) PROVE UnmountInv'
  <2>1. /\ pos = "unmount" /\ pos' = pos /\ k \in todo /\ todo' = todo \ {k}
        /\ \A n \in todo : Depth[n] <= Depth[k]
    BY <1>1 DEF Unmount, Deepest
  <2>2. \A m \in Drivers : Depth[m] \in Nat
    BY GPUAssumption DEF GPUAssumption
  <2>3. \A m \in Drivers \ todo', n \in todo' : Depth[n] <= Depth[m]
    BY <2>1
  <2>4. CASE mounted' = mounted
    BY <2>1, <2>3, <2>4, <1>1 DEF Unmount
  <2>5. CASE mounted' = mounted \ {k} /\ stuck' = stuck
    <3>1. \A m \in Drivers \ todo : <<k, m>> \notin Above
      <4> SUFFICES ASSUME NEW m \in Drivers \ todo, <<k, m>> \in Above PROVE FALSE
        OBVIOUS
      <4>1. Depth[k] > Depth[m]
        BY GPUAssumption DEF GPUAssumption
      <4>2. Depth[k] <= Depth[m] /\ Depth[k] \in Nat /\ Depth[m] \in Nat
        BY <2>1, <2>2
      <4> QED
        BY <4>1, <4>2
    <3> QED
      BY <3>1, <2>1, <2>3, <2>5
  <2> QED
    BY <2>4, <2>5, <1>1 DEF Unmount
<1>2. CASE ListMounts \/ ListFails
  BY <1>2 DEF ListMounts, ListFails
<1>3. CASE UNCHANGED unmountVars /\ pos \notin {"unmount", "failed"} /\ pos' # "unmount"
  BY <1>3
<1>4. CASE UNCHANGED vars
  BY <1>4 DEF vars
<1> QED
  BY <1>1, <1>2, <1>3, <1>4
  DEF GPUStep, TakeMount, Look, NextPass, LinksFound, Walk, TakeLib, FollowLink, ChainBreaks,
      ChainEnds, ChainStays, Return

\* For any mounts below /proc: a driver mount that is left could not be unmounted, or
\* has a mount below it that is left.
THEOREM DriversUnmounted == Spec => []ProcDriversGone
<1>1. Init => UnmountInv
  BY DEF Init, UnmountInv
<1>2. UnmountInv => ProcDriversGone
  BY DEF UnmountInv, ProcDriversGone
<1> QED
  BY <1>1, <1>2, NextUnmount, PTL DEF Spec

-----------------------------------------------------------------------------
(* usrLibGPUs.  Some libraries lead nowhere: whichever link is followed,   *)
(* no file below usrLibDir is reached.  A set of paths that is closed      *)
(* under links, or leaves usrLibDir, is a witness.                         *)

DeadEnds(C) == \A c \in C : ~InLib(c) \/ link[c] = Gone \/ (IsLink(c) /\ link[c] \in C)

\* Nothing below usrLibDir that leads nowhere is ever bound, and a chain that has
\* come to such a path stays with them.
DeadEndInv ==
    \A C \in SUBSET Paths : DeadEnds(C) =>
        /\ \A c \in C : InLib(c) => c \notin binds /\ \A m \in Mounts : c \notin linksOf[m]
        /\ pos = "chain" /\ chain \cap C # {} => path \in C

\* What became of each library that was not left out because of an error.
LibInv ==
    /\ pos = "chain" => \A p \in chain :
           p \in Paths /\ InLib(p) /\ IsLink(p) /\ link[p] \in chain \cup {path}
    /\ pos \in {"walk", "chain", "done"} => \A p \in Libs \ failed :
           \/ pos # "done" /\ p \in todo
           \/ link[p] = Gone
           \/ p \in binds
           \/ pos = "chain" /\ p \in chain \cup {path}
           \/ \E C \in SUBSET Paths : p \in C /\ DeadEnds(C)

\* A link beside a mount leads to the mount, so not nowhere.
LEMMA LookDeadEnd ==
    ASSUME LoopInv, DeadEndInv, NEW l \in Paths, Look(l)
    PROVE  DeadEndInv'
<1> SUFFICES ASSUME NEW C \in SUBSET Paths, DeadEnds(C)', NEW c \in C, InLib(c)
             PROVE  c \notin binds' /\ \A m \in Mounts : c \notin linksOf'[m]
  BY DEF Look, DeadEndInv
<1>1. /\ pos = "links" /\ target \in Mounts /\ rest \subseteq Siblings(target) /\ l \in rest
      /\ binds' = binds /\ link' = link
  BY DEF Look, LoopInv
<1>2. DeadEnds(C)
  BY <1>1 DEF DeadEnds, IsLink
<1>3. c \notin binds /\ \A m \in Mounts : c \notin linksOf[m]
  BY <1>2 DEF DeadEndInv
<1>4. CASE linksOf' = linksOf
  BY <1>1, <1>3, <1>4
<1>5. CASE /\ linksOf' = [linksOf EXCEPT ![target] = @ \cup {l}]
           /\ link[l] \in linksOf[target] \cup {target}
  <2> SUFFICES ASSUME c = l PROVE FALSE
    BY <1>1, <1>3, <1>5 DEF LoopInv, GPUTypeOK
  <2>1. Dir[l] = Dir[target] /\ IsLink(l) /\ link[l] \in Paths
    BY <1>1 DEF Siblings, IsLink
  <2>2. link[l] \in C
    BY <1>2, <2>1, GPUAssumption DEF DeadEnds, GPUAssumption
  <2>3. CASE link[l] = target
    BY <1>1, <1>2, <2>1, <2>2, <2>3, GPUAssumption
    DEF DeadEnds, GPUAssumption, InLib, IsLink, LoopInv
  <2>4. CASE link[l] \in linksOf[target]
    <3>1. Dir[link[l]] = Dir[target]
      BY <1>1, <2>4 DEF LoopInv, GPUTypeOK, Siblings
    <3>2. InLib(link[l])
      BY <2>1, <3>1 DEF InLib
    <3> QED
      BY <1>1, <1>2, <2>2, <2>4, <3>2 DEF DeadEndInv
  <2> QED
    BY <1>5, <2>3, <2>4
<1> QED
  BY <1>4, <1>5 DEF Look

\* No step binds what leads nowhere.
LEMMA NextDeadEnd == LoopInv /\ LibInv /\ DeadEndInv /\ [GPUStep]_vars => DeadEndInv'
<1> SUFFICES ASSUME LoopInv, LibInv, DeadEndInv, [GPUStep]_vars PROVE DeadEndInv'
  OBVIOUS
<1> USE DEF unmountVars, passVars, chainVars
<1>1. CASE UNCHANGED <<link, binds, linksOf>> /\ pos' # "chain"
  BY <1>1 DEF DeadEndInv, DeadEnds, IsLink
<1>2. ASSUME NEW l \in Paths, Look(l) PROVE DeadEndInv'
  BY <1>2, LookDeadEnd
<1>3. ASSUME NEW m \in Mounts, TakeMount(m) PROVE DeadEndInv'
  <2>1. /\ binds' \subseteq binds \cup {m} /\ link' = link /\ linksOf' = linksOf /\ pos' # "chain"
    BY <1>3 DEF TakeMount
  <2>2. link[m] = File
    BY DEF LoopInv
  <2> QED
    BY <2>1, <2>2, GPUAssumption DEF DeadEndInv, DeadEnds, IsLink, GPUAssumption
<1>4. CASE LinksFound
  <2>1. binds' = binds \cup linksOf[target] /\ link' = link /\ linksOf' = linksOf /\ pos' # "chain"
    BY <1>4 DEF LinksFound
  <2>2. target \in Mounts
    BY <1>4 DEF LinksFound, LoopInv
  <2> QED
    BY <2>1, <2>2 DEF DeadEndInv, DeadEnds, IsLink
<1>5. ASSUME NEW p \in Paths, TakeLib(p) PROVE DeadEndInv'
  <2>1. UNCHANGED <<link, binds, linksOf>> /\ (pos' = "chain" => chain' = {})
    BY <1>5 DEF TakeLib
  <2> QED
    BY <2>1 DEF DeadEndInv, DeadEnds, IsLink
<1>6. CASE FollowLink
  <2>1. /\ UNCHANGED <<link, binds, linksOf, pos>> /\ pos = "chain" /\ InLib(path) /\ link[path] \in Paths
        /\ chain' = chain \cup {path} /\ path' = link[path]
    BY <1>6 DEF FollowLink, ChainStays, IsLink
  <2> SUFFICES ASSUME NEW C \in SUBSET Paths, DeadEnds(C)', chain' \cap C # {}
               PROVE  path' \in C
    BY <2>1 DEF DeadEndInv, DeadEnds, IsLink
  <2>2. DeadEnds(C)
    BY <2>1 DEF DeadEnds, IsLink
  <2>3. path \in C
    BY <2>1, <2>2 DEF DeadEndInv
  <2> QED
    BY <2>1, <2>2, <2>3, GPUAssumption DEF DeadEnds, GPUAssumption
<1>7. CASE ChainEnds
  <2>1. /\ binds' = binds \cup chain \cup {path} /\ UNCHANGED <<link, linksOf>> /\ pos' # "chain"
        /\ pos = "chain" /\ InLib(path) /\ link[path] = File
    BY <1>7 DEF ChainEnds, ChainStays
  <2> SUFFICES ASSUME NEW C \in SUBSET Paths, DeadEnds(C)', NEW c \in C, InLib(c)
               PROVE  c \notin binds' /\ \A m \in Mounts : c \notin linksOf'[m]
    BY <2>1 DEF DeadEndInv
  <2>2. DeadEnds(C)
    BY <2>1 DEF DeadEnds, IsLink
  <2>3. path \notin C
    BY <2>1, <2>2, GPUAssumption DEF DeadEnds, IsLink, GPUAssumption
  <2>4. chain \cap C = {}
    BY <2>1, <2>2, <2>3 DEF DeadEndInv
  <2> QED
    BY <2>1, <2>2, <2>3, <2>4 DEF DeadEndInv
<1>8. CASE UNCHANGED vars
  BY <1>8 DEF vars, DeadEndInv, DeadEnds, IsLink
<1>9. CASE \/ \E m \in ProcMounts : Unmount(m)
           \/ ListFails \/ ListMounts \/ NextPass \/ Walk \/ ChainBreaks \/ Return
  BY <1>9, <1>1 DEF Unmount, ListFails, ListMounts, NextPass, Walk, ChainBreaks, ChainStays, Return
<1> QED
  BY <1>2, <1>3, <1>4, <1>5, <1>6, <1>7, <1>8, <1>9 DEF GPUStep

\* The walk comes by every library, and a chain that breaks off has found dead ends.
LEMMA NextLib == LoopInv /\ LibInv /\ [GPUStep]_vars => LibInv'
<1> SUFFICES ASSUME LoopInv, LibInv, [GPUStep]_vars PROVE LibInv'
  OBVIOUS
<1> USE DEF unmountVars, passVars, chainVars
<1>1. CASE pos' \notin {"walk", "chain", "done"}
  BY <1>1 DEF LibInv
<1>2. CASE Walk /\ pos' = "walk"
  <2>1. link' = link /\ pos' # "chain" /\ todo' = {p \in Libs : link[p] # Gone}
    BY <1>2 DEF Walk
  <2> QED
    BY <1>2, <2>1 DEF LibInv
<1>3. ASSUME link' = link, NEW C PROVE DeadEnds(C)' = DeadEnds(C)
  BY <1>3 DEF DeadEnds, IsLink
<1>4. ASSUME NEW p \in Paths, TakeLib(p) PROVE LibInv'
  <2>1. /\ pos = "walk" /\ todo' = todo \ {p} /\ link' = link /\ binds' = binds
        /\ \/ pos' = "chain" /\ path' = p /\ chain' = {} /\ failed' = failed
           \/ pos' = "walk" /\ failed' = failed \cup {p}
    BY <1>4 DEF TakeLib
  <2> QED
    BY <1>3, <2>1 DEF LibInv
<1>5. CASE FollowLink
  <2>1. /\ UNCHANGED <<link, binds, failed, todo, pos>>
        /\ pos = "chain" /\ InLib(path) /\ IsLink(path) /\ path \in Paths
        /\ chain' = chain \cup {path} /\ path' = link[path]
    BY <1>5 DEF FollowLink, ChainStays, LoopInv
  <2> QED
    BY <1>3, <2>1 DEF LibInv, IsLink
<1>6. CASE ChainBreaks
  <2>1. /\ UNCHANGED <<link, binds, failed, todo>> /\ pos = "chain" /\ pos' = "walk"
        /\ path \in Paths /\ (~InLib(path) \/ link[path] = Gone)
    BY <1>6 DEF ChainBreaks, ChainStays, LoopInv
  <2>2. DeadEnds(chain \cup {path}) /\ chain \cup {path} \in SUBSET Paths
    BY <2>1 DEF LibInv, DeadEnds
  <2> QED
    BY <1>3, <2>1, <2>2 DEF LibInv
<1>7. CASE ChainEnds
  <2>1. /\ UNCHANGED <<link, failed, todo>> /\ pos = "chain" /\ pos' = "walk"
        /\ binds' = binds \cup chain \cup {path}
    BY <1>7 DEF ChainEnds, ChainStays
  <2> QED
    BY <1>3, <2>1 DEF LibInv
<1>8. CASE Return
  <2>1. UNCHANGED <<link, binds, failed, todo>> /\ pos = "walk" /\ pos' = "done" /\ todo = {}
    BY <1>8 DEF Return
  <2> QED
    BY <1>3, <2>1 DEF LibInv
<1>9. CASE UNCHANGED vars
  <2>1. UNCHANGED <<link, binds, failed, todo, pos, path, chain>>
    BY <1>9 DEF vars
  <2> QED
    BY <1>3, <2>1 DEF LibInv, IsLink
<1>10. ASSUME NEW m \in Mounts, TakeMount(m) PROVE pos' \in {"mounts", "links"}
  BY <1>10 DEF TakeMount
<1>11. CASE \/ \E m \in ProcMounts : Unmount(m)
            \/ ListFails \/ ListMounts \/ NextPass \/ LinksFound \/ \E l \in Paths : Look(l)
  BY <1>1, <1>11 DEF Unmount, ListFails, ListMounts, NextPass, LinksFound, Look
<1>12. CASE Walk /\ pos' # "walk"
  BY <1>1, <1>12 DEF Walk
<1> QED
  BY <1>1, <1>2, <1>4, <1>5, <1>6, <1>7, <1>8, <1>9, <1>10, <1>11, <1>12 DEF GPUStep

\* For any file system, links and mounts: when GPUs returns, a library that is a file, or
\* a link to a bound one, is bound, and so is what leads to a mount beside it.
THEOREM AllFound == Spec => []NothingForgotten
<1>1. Init => LibInv /\ DeadEndInv
  BY DEF Init, LibInv, DeadEndInv
<1>2. LoopInv /\ LibInv /\ DeadEndInv => (pos = "done" => LibsBound)
  <2> SUFFICES ASSUME LoopInv, LibInv, DeadEndInv, pos = "done", NEW p \in Libs \ failed,
                      link[p] = File \/ (IsLink(p) /\ InLib(link[p]) /\ link[p] \in binds)
               PROVE  p \in binds
    BY DEF LibsBound
  <2>1. link[p] # Gone /\ InLib(p)
    BY GPUAssumption DEF GPUAssumption, IsLink
  <2>2. ASSUME NEW C \in SUBSET Paths, p \in C, DeadEnds(C) PROVE FALSE
    <3>1. IsLink(p) /\ link[p] \in C
      BY <2>1, <2>2 DEF DeadEnds
    <3>2. InLib(link[p]) /\ link[p] \in binds
      BY <3>1, GPUAssumption DEF GPUAssumption, IsLink
    <3> QED
      BY <2>2, <3>1, <3>2 DEF DeadEndInv
  <2> QED
    BY <2>1, <2>2 DEF LibInv
<1> QED
  BY <1>1, <1>2, InitLoop, NextLoop, NextLib, NextDeadEnd, MountLinksComplete, PTL
  DEF Spec, NothingForgotten

-----------------------------------------------------------------------------
(* The search is finite.  Each of its loops takes from something finite;   *)
(* the outer one first, a step lowers one of four numbers.                 *)

Phase ==
    CASE pos = "unmount"              -> 3
      [] pos \in {"mounts", "links"}  -> 2
      [] pos \in {"walk", "chain"}    -> 1
      [] OTHER                        -> 0

\* Rounds of the inner loops: passes of SameDirSymlinks, or the chain to follow.
Rounds ==
    CASE pos = "links" -> (MaxIterations - pass) + 1
      [] pos = "chain" -> 1
      [] OTHER         -> 0

\* What a round has left: links to look at, or paths that are not in the chain.
Left ==
    CASE pos = "links" -> Cardinality(rest)
      [] pos = "chain" -> Cardinality(Paths \ chain)
      [] OTHER         -> 0

SearchGoesDown ==
    \/ Phase' < Phase
    \/ Phase' = Phase /\ Cardinality(todo') < Cardinality(todo)
    \/ Phase' = Phase /\ todo' = todo /\ Rounds' < Rounds
    \/ Phase' = Phase /\ todo' = todo /\ Rounds' = Rounds /\ Left' < Left

\* All these numbers are naturals.
LEMMA SearchNaturals ==
    ASSUME LoopInv
    PROVE  /\ {Phase, Cardinality(todo), Rounds, Left} \subseteq Nat
           /\ IsFiniteSet(todo) /\ IsFiniteSet(rest) /\ IsFiniteSet(Paths \ chain)
<1>1. IsFiniteSet(Drivers \cup Mounts \cup Libs)
  <2>1. IsFiniteSet(Drivers)
    BY GPUAssumption, FS_Subset DEF GPUAssumption
  <2>2. IsFiniteSet(Mounts \cup Libs)
    BY GPUAssumption, FS_Subset DEF GPUAssumption
  <2>3. IsFiniteSet(Drivers \cup (Mounts \cup Libs))
    BY <2>1, <2>2, FS_Union
  <2> QED
    BY <2>3, Zenon
<1>2. IsFiniteSet(todo)
  BY <1>1, FS_Subset DEF LoopInv, GPUTypeOK
<1>3. IsFiniteSet(rest) /\ IsFiniteSet(Paths \ chain)
  BY GPUAssumption, FS_Subset DEF GPUAssumption, LoopInv, GPUTypeOK
<1>4. Cardinality(todo) \in Nat /\ Cardinality(rest) \in Nat /\ Cardinality(Paths \ chain) \in Nat
  BY <1>2, <1>3, FS_CardinalityType
<1>5. Phase \in Nat
  BY DEF Phase
<1>6. Rounds \in Nat
  BY GPUAssumption DEF GPUAssumption, Rounds, LoopInv, GPUTypeOK
<1>7. Left \in Nat
  BY <1>4 DEF Left
<1> QED
  BY <1>2, <1>3, <1>4, <1>5, <1>6, <1>7

\* Taking an element from a finite set.
LEMMA TakeOne ==
    ASSUME NEW S, IsFiniteSet(S), NEW x \in S
    PROVE  Cardinality(S \ {x}) < Cardinality(S)
<1>1. Cardinality(S) \in Nat
  BY FS_CardinalityType
<1>2. Cardinality(S \ {x}) = Cardinality(S) - 1
  BY FS_RemoveElement
<1> QED
  BY <1>1, <1>2

\* A chain that comes back to itself is a cycle below usrLibDir.
LEMMA NoRepetition ==
    ASSUME LoopInv, LibInv, ~LibCycle, pos = "chain", InLib(path)
    PROVE  path \notin chain
<1> SUFFICES ASSUME path \in chain PROVE LibCycle
  OBVIOUS
<1>1. \A p \in chain : p \in Paths /\ InLib(p) /\ link[p] \in chain
  BY DEF LibInv
<1> QED
  BY <1>1 DEF LibCycle

\* Every step goes down, but that along a cycle of links.
LEMMA StepGoesDown ==
    ASSUME LoopInv, LoopInv', LibInv, ~LibCycle, GPUStep
    PROVE  SearchGoesDown
<1> USE DEF SearchGoesDown, unmountVars, passVars, chainVars
<1>1. ASSUME NEW m \in todo, todo' = todo \ {m}, Phase' = Phase PROVE SearchGoesDown
  BY <1>1, TakeOne, SearchNaturals
<1>2. ASSUME NEW m \in ProcMounts, Unmount(m) PROVE SearchGoesDown
  BY <1>1, <1>2 DEF Unmount, Deepest, Phase
<1>3. CASE ListFails \/ ListMounts \/ Walk \/ Return
  BY <1>3 DEF ListFails, ListMounts, Walk, Return, Phase
<1>4. ASSUME NEW m \in Mounts, TakeMount(m) PROVE SearchGoesDown
  <2>1. pos = "mounts" /\ pos' \in {"mounts", "links"} /\ m \in todo /\ todo' = todo \ {m}
    BY <1>4 DEF TakeMount
  <2> QED
    BY <1>1, <2>1 DEF Phase
<1>5. ASSUME NEW l \in Paths, Look(l) PROVE SearchGoesDown
  <2>1. pos = "links" /\ pos' = "links" /\ UNCHANGED <<todo, pass>> /\ l \in rest /\ rest' = rest \ {l}
    BY <1>5 DEF Look
  <2>2. Cardinality(rest') < Cardinality(rest)
    BY <2>1, TakeOne, SearchNaturals
  <2> QED
    BY <2>1, <2>2 DEF Phase, Rounds, Left
<1>6. CASE NextPass
  <2>1. pos = "links" /\ pos' = "links" /\ todo' = todo /\ pass' = pass + 1
    BY <1>6 DEF NextPass
  <2>2. pass \in Nat /\ MaxIterations \in Nat
    BY GPUAssumption DEF GPUAssumption, LoopInv, GPUTypeOK
  <2>3. Rounds' < Rounds
    BY <2>1, <2>2 DEF Rounds
  <2> QED
    BY <2>1, <2>3 DEF Phase
<1>7. CASE LinksFound
  <2>1. pos = "links" /\ pos' = "mounts" /\ todo' = todo
    BY <1>7 DEF LinksFound
  <2>2. pass \in 0..MaxIterations /\ MaxIterations \in Nat
    BY GPUAssumption DEF GPUAssumption, LoopInv, GPUTypeOK
  <2>3. Rounds' < Rounds
    BY <2>1, <2>2 DEF Rounds
  <2> QED
    BY <2>1, <2>3 DEF Phase
<1>8. ASSUME NEW p \in Paths, TakeLib(p) PROVE SearchGoesDown
  <2>1. pos = "walk" /\ pos' \in {"walk", "chain"} /\ p \in todo /\ todo' = todo \ {p}
    BY <1>8 DEF TakeLib
  <2> QED
    BY <1>1, <2>1 DEF Phase
<1>9. CASE FollowLink
  <2>1. pos = "chain" /\ pos' = "chain" /\ todo' = todo /\ InLib(path) /\ chain' = chain \cup {path}
    BY <1>9 DEF FollowLink, ChainStays
  <2>2. path \in Paths \ chain
    BY <2>1, NoRepetition DEF LoopInv
  <2>3. Paths \ chain' = (Paths \ chain) \ {path}
    BY <2>1
  <2>4. Cardinality(Paths \ chain') < Cardinality(Paths \ chain)
    BY <2>2, <2>3, TakeOne, SearchNaturals
  <2> QED
    BY <2>1, <2>4 DEF Phase, Rounds, Left
<1>10. CASE ChainBreaks \/ ChainEnds
  <2>1. pos = "chain" /\ pos' = "walk" /\ todo' = todo
    BY <1>10 DEF ChainBreaks, ChainEnds, ChainStays
  <2> QED
    BY <2>1 DEF Phase, Rounds
<1> QED
  BY <1>2, <1>3, <1>4, <1>5, <1>6, <1>7, <1>8, <1>9, <1>10 DEF GPUStep

\* For any finite set of paths and any limit of passes, unless links below usrLibDir form
\* a cycle: each step lowers four naturals, taken in lexicographic order, so the search
\* takes finitely many.
THEOREM SearchIsFinite ==
    Spec => /\ []({Phase, Cardinality(todo), Rounds, Left} \subseteq Nat)
            /\ [][LibCycle \/ SearchGoesDown]_vars
<1>1. Init => LibInv
  BY DEF Init, LibInv
<1>2. LoopInv => {Phase, Cardinality(todo), Rounds, Left} \subseteq Nat
  BY SearchNaturals
<1>3. LoopInv /\ LoopInv' /\ LibInv /\ [GPUStep]_vars => [LibCycle \/ SearchGoesDown]_vars
  BY StepGoesDown
<1> QED
  BY <1>1, <1>2, <1>3, InitLoop, NextLoop, NextLib, PTL DEF Spec
=============================================================================
