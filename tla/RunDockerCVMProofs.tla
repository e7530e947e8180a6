------------------------- MODULE RunDockerCVMProofs -------------------------
(***************************************************************************)
(* Theorems of RunDockerCVM, for any mounts a user may ask for, any homes  *)
(* and any GPU libraries: whom the directories handed to the inner         *)
(* container belong to, that containers keep their image, that GPU         *)
(* libraries hide no other mount, that both attempts come to an end, that  *)
(* a device node the first one left bars the second, and that together     *)
(* they are what RunE may expect.                                          *)
(***************************************************************************)
EXTENDS RunDockerCVM, SequenceTheorems, TLAPS

\* The mount a GPU library becomes.
Bind(b) == [src |-> b.path, dst |-> b.mountpoint, ro |-> b.ro]

GPUMounts == {Bind(b) : b \in Elements(GPUBinds)}

MountRecs == Elements(defaultMounts) \cup GPUMounts \cup UNION {Elements(x) : x \in ExtraMounts}

\* The mounts that are shifted: the default ones and the user's.
Asked == defaultMounts \o flags.mounts
Base  == Len(defaultMounts) + Len(flags.mounts)

LEMMA DefaultMounts == defaultMounts \in Seq(Elements(defaultMounts)) /\ Len(defaultMounts) = 2
<1>1. \A a, b : <<a, b>> \in Seq(Elements(<<a, b>>)) /\ Len(<<a, b>>) = 2
  BY DEF Elements
<1>2. \E a, b : defaultMounts = <<a, b>>
  BY DEF defaultMounts
<1> QED
  BY <1>1, <1>2, Zenon

\* Seq is monotonic.
LEMMA SeqInclusion ==
    ASSUME NEW S, NEW T, S \subseteq T, NEW s \in Seq(S)
    PROVE  s \in Seq(T)
OBVIOUS

LEMMA AskedMounts ==
    ASSUME flags.mounts \in ExtraMounts
    PROVE  /\ Asked \in Seq(MountRecs) /\ Len(Asked) = Base /\ Base \in Nat
           /\ \A k \in 1..Base : Asked[k].src \in Sources
<1>1. flags.mounts \in Seq(MountRecs)
  <2>1. flags.mounts \in Seq(Elements(flags.mounts))
    BY CVMAssumption DEF CVMAssumption
  <2>2. Elements(flags.mounts) \subseteq MountRecs
    BY DEF MountRecs
  <2> QED
    BY <2>1, <2>2, SeqInclusion
<1>2. defaultMounts \in Seq(MountRecs)
  BY DefaultMounts, SeqInclusion DEF MountRecs
<1>3. /\ Asked \in Seq(MountRecs) /\ Len(Asked) = Base /\ Base \in Nat
      /\ \A k \in 1..Base : Asked[k] = IF k <= Len(defaultMounts) THEN defaultMounts[k]
                                       ELSE flags.mounts[k - Len(defaultMounts)]
  <2> HIDE DEF MountRecs
  <2> QED
    BY <1>1, <1>2, ConcatProperties, LenProperties DEF Asked, Base
<1>4. \A k \in 1..Len(defaultMounts) : defaultMounts[k].src \in Sources
  BY DefaultMounts DEF Sources, Elements
<1>5. \A k \in 1..Len(flags.mounts) : flags.mounts[k].src \in Sources
  BY DEF Sources, Elements
<1>6. ASSUME NEW k \in 1..Base PROVE Asked[k].src \in Sources
  <2>1. CASE k <= Len(defaultMounts)
    BY <2>1, <1>3, <1>4, DefaultMounts
  <2>2. CASE k > Len(defaultMounts)
    <3>1. k - Len(defaultMounts) \in 1..Len(flags.mounts) /\ ~(k <= Len(defaultMounts))
      BY <1>1, <2>2, DefaultMounts, LenProperties DEF Base
    <3> QED
      BY <3>1, <1>3, <1>5
  <2> QED
    BY <1>3, <2>1, <2>2, DefaultMounts
<1> QED
  BY <1>3, <1>6

LEMMA DeviceList ==
    /\ Len(Devices) \in 0..2
    /\ \A k \in 1..Len(Devices) : /\ Devices[k] \in {"/tmp/coder-tun", "/tmp/coder-fuse"}
                                  /\ Devices[k] \in Sources
                                  /\ shiftedOwner(Devices[k]) = "root"
<1> DEFINE D == {"/tmp/coder-tun", "/tmp/coder-fuse"}
           a == IF flags.tun THEN <<"/tmp/coder-tun">> ELSE <<>>
           b == IF flags.fuse THEN <<"/tmp/coder-fuse">> ELSE <<>>
<1>1. \A d \in D : <<d>> \in Seq(D) /\ Len(<<d>>) \in 0..1
  OBVIOUS
<1>5. <<>> \in Seq(D) /\ Len(<<>>) \in 0..1
  OBVIOUS
<1>6. a \in Seq(D) /\ Len(a) \in 0..1
  BY <1>1, <1>5, Zenon
<1>7. b \in Seq(D) /\ Len(b) \in 0..1
  BY <1>1, <1>5, Zenon
<1>2. Devices = a \o b
  BY DEF Devices
<1>3. Devices \in Seq(D) /\ Len(Devices) \in 0..2
  <2> HIDE DEF a, b, D
  <2> QED
    BY <1>6, <1>7, <1>2, ConcatProperties, LenProperties
<1>4. \A d \in D : d \in Sources /\ shiftedOwner(d) = "root"
  <2>1. \A d \in D : d \notin HomeDirs
    BY CVMAssumption DEF CVMAssumption
  <2>2. \A d \in D : d \in Sources
    BY DEF Sources
  <2> QED
    BY <2>1, <2>2, Zenon DEF shiftedOwner
<1> QED
  BY <1>3, <1>4

-----------------------------------------------------------------------------
(* The invariant.                                                          *)

\* The positions before and after the creation of the inner container.
Before  == {"devices", "shift", "pull", "sys", "procGPU", "metaCreate", "metaStart", "metaExec",
            "mounts", "gpu", "create"}
Created == {"prune", "start"}
Running == {"mkdir", "quota", "execCreate", "attach", "feed"}

FlagInv ==
    /\ pruned \in BOOLEAN /\ image \in BOOLEAN /\ sysRW \in BOOLEAN

TypeInv ==
    /\ pull \in {"idle", "first", "retry", "done"} /\ n \in 0..MaxRetries
    /\ pullErr \in PullErrors \cup {"nil"}
    /\ attempt \in 1..2 /\ i \in Nat \ {0} /\ nodes \subseteq Sources
    /\ owner \in [Sources -> {"host", "root", "user"}]
    /\ meta \in {"none", "created", "running", "left"}
    /\ exec \in {"none", "created", "attached", "fed"}
    /\ result \in {"none", "ok", "nospace", "err"}
    /\ step \in Before \cup Created \cup Running
    /\ flags.mounts \in ExtraMounts

\* What there is of containers follows from the position.
StepInv ==
    /\ step \in Before => cvm = "none"
    /\ step \in Created => cvm = "created"
    /\ step \in Running => cvm = "running"
    /\ exec # "none" => cvm = "running"
    /\ step \in {"devices", "shift", "pull", "sys"} => meta = "none"
    /\ meta \in {"created", "running"} => step \in {"metaStart", "metaExec"}
    /\ step \in {"devices", "shift"} => i <= Len(Devices) + 1
    /\ i <= 3 \/ i <= Len(mounts) + 1 \/ i <= Len(GPUBinds) + 1

\* The GPU libraries come after the mounts asked for, and hide none.
MountInv ==
    /\ mounts \in Seq(MountRecs) /\ Len(mounts) >= Base
    /\ \A k \in 1..Base : mounts[k] = Asked[k]
    /\ step \in Before \ {"gpu", "create"} => Len(mounts) = Base
    /\ \A k \in 1..Len(mounts) : k > Base => \A j \in 1 .. k - 1 : mounts[j].dst # mounts[k].dst
    /\ cvm = "none" => binds = <<>>
    /\ cvm # "none" => binds = mounts

\* Once a loop is over, all it ran over is shifted.
Shifted(k) == ~isPrivateMount(Asked[k]) => owner[Asked[k].src] = shiftedOwner(Asked[k].src)

OwnerInv ==
    /\ step = "shift" => \A k \in 1..Len(Devices) : k < i => owner[Devices[k]] = "root"
    /\ step \notin {"devices", "shift"} => \A k \in 1..Len(Devices) : owner[Devices[k]] = "root"
    /\ step = "mounts" => \A k \in 1..Base : k < i => Shifted(k)
    /\ step \in {"gpu", "create"} \cup Created \cup Running => \A k \in 1..Base : Shifted(k)

KeepInv ==
    /\ step \notin {"devices", "shift", "pull", "sys"} => sysRW
    /\ cvm # "none" \/ meta \in {"created", "running"} \/ step = "metaStart" => image

IInv == FlagInv /\ TypeInv /\ StepInv /\ MountInv /\ OwnerInv /\ KeepInv

LEMMA InitInv == CVMInit => IInv
<1> SUFFICES ASSUME CVMInit PROVE IInv
  OBVIOUS
<1>1. FlagInv
  BY Zenon DEF CVMInit, PullInit, FlagInv
<1>2. TypeInv
  BY DEF CVMInit, PullInit, TypeInv, Before, MaxRetries
<1>3. StepInv
  BY DeviceList DEF CVMInit, StepInv, Before, Created, Running
<1>4. MountInv
  <2>1. mounts = Asked /\ cvm = "none" /\ binds = <<>>
    BY DEF CVMInit, Asked
  <2> QED
    BY <1>2, <2>1, AskedMounts DEF MountInv, TypeInv
<1>5. OwnerInv /\ KeepInv
  BY DEF CVMInit, OwnerInv, KeepInv, Created, Running
<1> QED
  BY <1>1, <1>2, <1>3, <1>4, <1>5 DEF IInv

-----------------------------------------------------------------------------
(* The steps.                                                              *)

LEMMA FlagsNext == FlagInv /\ [CVMNext]_cvmVars => FlagInv'
<1> SUFFICES ASSUME FlagInv, [CVMNext]_cvmVars PROVE FlagInv'
  OBVIOUS
<1> USE DEF FlagInv, pullVars, hostVars
<1>1. CASE Pull
  BY <1>1, Zenon DEF Pull, PullStep, PullFirst, PullRetry, PullGiveUp
<1>2. CASE PruneImages
  BY <1>2, Zenon DEF PruneImages
<1>3. CASE Retry \/ RemountSys \/ StartPull \/ Pulled
  BY <1>3, Zenon DEF Retry, RemountSys, StartPull, PullStart, Pulled
<1>4. CASE CreateDevice \/ DevicesCreated \/ ShiftDevice \/ TryUnmountProcGPUDrivers \/ MetaCreate
           \/ MetaStart \/ MetaExec \/ ShiftMount
  BY <1>4, Zenon DEF CreateDevice, DevicesCreated, ShiftDevice, TryUnmountProcGPUDrivers, MetaCreate,
      MetaStart, MetaExec, ShiftMount
<1>5. CASE MountsShifted \/ AddGPUBind \/ GPUBindsAdded \/ CreateContainer \/ ContainerStart
           \/ MakeBootDir \/ SetQuota \/ Bootstrap \/ Fails \/ UNCHANGED cvmVars
  BY <1>5, Zenon DEF MountsShifted, AddGPUBind, GPUBindsAdded, CreateContainer, ContainerStart,
      MakeBootDir, SetQuota, Bootstrap, Fails, cvmVars
<1> QED
  BY <1>1, <1>2, <1>3, <1>4, <1>5, Zenon DEF CVMNext, Run

LEMMA TypesNext == IInv /\ [CVMNext]_cvmVars => TypeInv'
<1> SUFFICES ASSUME TypeInv, [CVMNext]_cvmVars PROVE TypeInv'
  BY DEF IInv
<1>1. Sources' = Sources
  BY DEF Sources
<1> USE <1>1 DEF TypeInv, Before, Created, Running, pullVars, hostVars, dockerVars, At, Goto, Return
<1>2. CASE CreateDevice
  <2>1. CASE i <= Len(Devices)
    BY <1>2, <2>1, DeviceList DEF CreateDevice
  <2> QED
    BY <1>2, <2>1 DEF CreateDevice
<1>3. CASE ShiftDevice
  BY <1>3, DeviceList DEF ShiftDevice
<1>4. CASE ShiftMount
  <2>1. \A s : shiftedOwner(s) \in {"host", "root", "user"}
    BY DEF shiftedOwner
  <2>2. owner' \in [Sources -> {"host", "root", "user"}]
    BY <1>4, <2>1 DEF ShiftMount
  <2> QED
    BY <1>4, <2>2 DEF ShiftMount
<1>5. CASE Pull
  <2>1. PICK e \in PullErrors \cup {"nil"} : PullFirst(e) \/ PullRetry(e) \/ PullGiveUp
    BY <1>5, Zenon DEF Pull, PullStep
  <2>2. n' \in 0..MaxRetries
    <3>1. n' = n \/ (n' = n + 1 /\ n < MaxRetries)
      BY <2>1, Zenon DEF PullFirst, PullRetry, PullGiveUp
    <3> QED
      BY <3>1 DEF MaxRetries
  <2>3. pullErr' \in PullErrors \cup {"nil"} /\ pull' \in {"first", "retry", "done"}
    <3>1. pull' = pull \/ pull' \in {"retry", "done"}
      BY <2>1 DEF PullFirst, PullRetry, PullGiveUp
    <3>2. pull \in {"first", "retry"}
      BY <2>1 DEF PullFirst, PullRetry, PullGiveUp
    <3>3. pullErr' \in {pullErr, e}
      BY <2>1 DEF PullFirst, PullRetry, PullGiveUp
    <3> QED
      BY <3>1, <3>2, <3>3
  <2> QED
    BY <1>5, <2>2, <2>3 DEF Pull
<1>6. CASE StartPull \/ Pulled
  BY <1>6 DEF StartPull, PullStart, Pulled, MaxRetries
<1>7. CASE DevicesCreated \/ RemountSys \/ TryUnmountProcGPUDrivers \/ MetaCreate \/ MetaStart \/ MetaExec
  BY <1>7 DEF DevicesCreated, RemountSys, TryUnmountProcGPUDrivers, MetaCreate, MetaStart, MetaExec
<1>8. CASE MountsShifted \/ AddGPUBind \/ GPUBindsAdded \/ CreateContainer \/ PruneImages
  BY <1>8 DEF MountsShifted, AddGPUBind, GPUBindsAdded, CreateContainer, PruneImages
<1>9. CASE ContainerStart \/ MakeBootDir \/ SetQuota \/ Bootstrap \/ Retry
  BY <1>9 DEF ContainerStart, MakeBootDir, SetQuota, Bootstrap, Retry
<1>10. CASE Fails
  BY <1>10 DEF Fails
<1>11. CASE UNCHANGED cvmVars
  BY <1>11 DEF cvmVars
<1> QED
  BY <1>2, <1>3, <1>4, <1>5, <1>6, <1>7, <1>8, <1>9, <1>10, <1>11 DEF CVMNext, Run

LEMMA FlagsStay == [CVMNext]_cvmVars => flags' = flags /\ Devices' = Devices /\ Asked' = Asked /\ Base' = Base
<1>1. [CVMNext]_cvmVars => flags' = flags
  BY DEF CVMNext, Run, CreateDevice, DevicesCreated, ShiftDevice, StartPull, Pull, Pulled, RemountSys,
     TryUnmountProcGPUDrivers, MetaCreate, MetaStart, MetaExec, ShiftMount, MountsShifted, AddGPUBind,
     GPUBindsAdded, CreateContainer, PruneImages, ContainerStart, MakeBootDir, SetQuota, Bootstrap,
     Retry, Fails, cvmVars
<1> QED
  BY <1>1 DEF Devices, Asked, Base, defaultMounts

LEMMA StepNext == IInv /\ [CVMNext]_cvmVars => StepInv'
<1> SUFFICES ASSUME TypeInv, StepInv, MountInv, [CVMNext]_cvmVars PROVE StepInv'
  BY DEF IInv
<1>2. Devices' = Devices /\ i \in Nat \ {0} /\ Len(Devices) \in 0..2
  BY FlagsStay, DeviceList DEF TypeInv
<1>3. Len(mounts) \in Nat /\ Len(GPUBinds) \in Nat
  BY CVMAssumption, LenProperties DEF CVMAssumption, MountInv
<1> USE <1>2, <1>3 DEF StepInv, Before, Created, Running, pullVars, hostVars, dockerVars, At, Goto,
        Return
<1>4. CASE CreateDevice \/ ShiftDevice
  BY <1>4 DEF CreateDevice, ShiftDevice
<1>5. CASE DevicesCreated \/ StartPull \/ Pull \/ Pulled
  BY <1>5 DEF DevicesCreated, StartPull, Pull, Pulled
<1>6. CASE RemountSys \/ TryUnmountProcGPUDrivers \/ MetaCreate \/ MetaStart \/ MetaExec
  BY <1>6 DEF RemountSys, TryUnmountProcGPUDrivers, MetaCreate, MetaStart, MetaExec
<1>7. CASE ShiftMount \/ MountsShifted
  BY <1>7 DEF ShiftMount, MountsShifted
<1>8. CASE AddGPUBind \/ GPUBindsAdded
  <2>1. i' <= Len(GPUBinds) + 1 \/ (i' = i /\ mounts' = mounts)
    BY <1>8 DEF AddGPUBind, GPUBindsAdded
  <2> QED
    BY <1>8, <2>1 DEF AddGPUBind, GPUBindsAdded
<1>9. CASE CreateContainer \/ PruneImages \/ ContainerStart \/ MakeBootDir
  BY <1>9 DEF CreateContainer, PruneImages, ContainerStart, MakeBootDir
<1>10. CASE SetQuota \/ Bootstrap
  BY <1>10 DEF SetQuota, Bootstrap
<1>11. CASE Retry
  BY <1>11 DEF Retry
<1>12. CASE Fails
  BY <1>12 DEF Fails
<1>13. CASE UNCHANGED cvmVars
  BY <1>13 DEF cvmVars
<1> QED
  BY <1>4, <1>5, <1>6, <1>7, <1>8, <1>9, <1>10, <1>11, <1>12, <1>13 DEF CVMNext, Run

\* A library is bound only where nothing else is.
LEMMA AddGPUBindNext == ASSUME IInv, AddGPUBind PROVE MountInv'
<1>1. /\ mounts \in Seq(MountRecs) /\ Base \in Nat /\ Len(mounts) >= Base /\ Len(mounts) \in Nat
      /\ cvm = "none" /\ cvm' = "none" /\ binds' = binds /\ binds = <<>> /\ step' = "gpu"
      /\ i \in 1..Len(GPUBinds)
  BY AskedMounts, LenProperties, CVMAssumption
  DEF IInv, MountInv, StepInv, TypeInv, AddGPUBind, At, Goto, dockerVars, Before
<1>2. Asked' = Asked /\ Base' = Base /\ MountRecs' = MountRecs
  BY FlagsStay DEF CVMNext, Run, MountRecs, GPUMounts, Bind, Elements, defaultMounts
<1> DEFINE new == Bind(GPUBinds[i])
<1>3. CASE mounts' = mounts
  BY <1>1, <1>2, <1>3 DEF IInv, MountInv
<1>4. CASE mounts' = Append(mounts, new) /\ \A m \in Elements(mounts) : m.dst # new.dst
  <2>1. new \in MountRecs
    <3>1. GPUBinds[i] \in Elements(GPUBinds)
      BY <1>1 DEF Elements
    <3>2. new \in GPUMounts
      BY <3>1 DEF GPUMounts
    <3> QED
      BY <3>2, Zenon DEF MountRecs
  <2>2. /\ mounts' \in Seq(MountRecs) /\ Len(mounts') = Len(mounts) + 1
        /\ \A k \in 1..Len(mounts) : mounts'[k] = mounts[k]
        /\ mounts'[Len(mounts) + 1] = new
    <3> HIDE DEF new
    <3> QED
      BY <1>1, <1>4, <2>1, AppendProperties
  <2>3. \A j \in 1..Len(mounts) : mounts[j].dst # new.dst
    BY <1>4 DEF Elements
  <2>4. ASSUME NEW k \in 1..Len(mounts'), k > Base, NEW j \in 1 .. k - 1
        PROVE  mounts'[j].dst # mounts'[k].dst
    <3>1. CASE k = Len(mounts) + 1
      BY <1>1, <2>2, <2>3, <3>1
    <3>2. CASE k # Len(mounts) + 1
      <4>1. k \in 1..Len(mounts) /\ j \in 1..Len(mounts) /\ k \in Nat
        BY <1>1, <2>2, <3>2
      <4>2. mounts[j].dst # mounts[k].dst
        BY <2>4, <4>1 DEF IInv, MountInv
      <4> QED
        BY <2>2, <4>1, <4>2
    <3> QED
      BY <3>1, <3>2
  <2>5. \A k \in 1..Base : mounts'[k] = Asked[k]
    BY <1>1, <2>2 DEF IInv, MountInv
  <2> QED
    BY <1>1, <1>2, <2>2, <2>4, <2>5 DEF MountInv
<1> QED
  BY <1>3, <1>4 DEF AddGPUBind, Bind

LEMMA MountNext == IInv /\ [CVMNext]_cvmVars => MountInv'
<1> SUFFICES ASSUME IInv, [CVMNext]_cvmVars PROVE MountInv'
  OBVIOUS
<1>1. /\ Asked' = Asked /\ Base' = Base /\ MountRecs' = MountRecs
      /\ Asked \in Seq(MountRecs) /\ Len(Asked) = Base /\ Base \in Nat /\ Len(mounts) \in Nat
  BY FlagsStay, AskedMounts, LenProperties
  DEF MountRecs, GPUMounts, Bind, Elements, defaultMounts, IInv, TypeInv, MountInv
<1>2. MountInv /\ StepInv
  BY DEF IInv
<1> USE <1>1 DEF MountInv, Before, Created, Running, dockerVars, At, Goto, Return
<1>3. CASE CreateDevice \/ ShiftDevice \/ DevicesCreated \/ StartPull \/ Pull \/ Pulled
  BY <1>2, <1>3 DEF CreateDevice, ShiftDevice, DevicesCreated, StartPull, Pull, Pulled
<1>4. CASE RemountSys \/ TryUnmountProcGPUDrivers \/ MetaCreate \/ MetaStart \/ MetaExec
  BY <1>2, <1>4 DEF RemountSys, TryUnmountProcGPUDrivers, MetaCreate, MetaStart, MetaExec
<1>5. CASE ShiftMount \/ MountsShifted \/ GPUBindsAdded
  BY <1>2, <1>5 DEF ShiftMount, MountsShifted, GPUBindsAdded
<1>6. CASE AddGPUBind
  BY <1>6, AddGPUBindNext
<1>7. CASE CreateContainer
  BY <1>2, <1>7 DEF CreateContainer
<1>8. CASE PruneImages \/ ContainerStart \/ MakeBootDir \/ SetQuota \/ Bootstrap
  BY <1>2, <1>8 DEF PruneImages, ContainerStart, MakeBootDir, SetQuota, Bootstrap, StepInv
<1>9. CASE Retry
  <2>1. mounts' = Asked /\ cvm' = "none" /\ binds' = <<>> /\ step' = "devices"
    BY <1>9 DEF Retry, Asked
  <2> QED
    BY <2>1
<1>10. CASE Fails
  BY <1>2, <1>10 DEF Fails
<1>11. CASE UNCHANGED cvmVars
  BY <1>2, <1>11 DEF cvmVars
<1> QED
  BY <1>3, <1>4, <1>5, <1>6, <1>7, <1>8, <1>9, <1>10, <1>11 DEF CVMNext, Run

LEMMA OwnerNext == IInv /\ [CVMNext]_cvmVars => OwnerInv'
<1> SUFFICES ASSUME IInv, [CVMNext]_cvmVars PROVE OwnerInv'
  OBVIOUS
<1>1. /\ Asked' = Asked /\ Base' = Base /\ Devices' = Devices /\ flags' = flags
      /\ i \in Nat \ {0} /\ Base \in Nat /\ \A k \in 1..Base : Asked[k].src \in Sources
      /\ Len(Devices) \in 0..2
      /\ \A k \in 1..Len(Devices) : Devices[k] \in Sources /\ shiftedOwner(Devices[k]) = "root"
  BY FlagsStay, AskedMounts, DeviceList DEF IInv, TypeInv
<1>2. OwnerInv /\ owner \in [Sources -> {"host", "root", "user"}]
  BY DEF IInv, TypeInv
<1>3. /\ i \in Nat \ {0} /\ Len(mounts) \in Nat /\ Base \in Nat /\ Len(GPUBinds) \in Nat
      /\ step \in Before \ {"gpu", "create"} => Len(mounts) = Base
      /\ \A k \in 1..Base : mounts[k] = Asked[k]
  BY <1>1, LenProperties, CVMAssumption DEF IInv, MountInv, CVMAssumption
<1>4. CASE ShiftDevice
  <2>1. /\ owner' = [owner EXCEPT ![Devices[i]] = "root"] /\ step = "shift" /\ step' = "shift"
        /\ i' = i + 1 /\ i \in 1..Len(Devices)
    BY <1>1, <1>4 DEF ShiftDevice, At, Goto
  <2>2. \A k \in 1..Len(Devices) : owner'[Devices[k]] = IF Devices[k] = Devices[i] THEN "root"
                                                        ELSE owner[Devices[k]]
    BY <1>1, <1>2, <2>1
  <2> QED
    BY <1>1, <1>2, <2>1, <2>2 DEF OwnerInv, Created, Running
<1>5. CASE ShiftMount
  <2>1. /\ step = "mounts" /\ step' = "mounts" /\ i' = i + 1 /\ i \in 1..Base /\ mounts[i] = Asked[i]
        /\ owner' = IF isPrivateMount(Asked[i]) THEN owner
                    ELSE [owner EXCEPT ![Asked[i].src] = shiftedOwner(Asked[i].src)]
    <3>1. /\ step = "mounts" /\ step' = "mounts" /\ i' = i + 1 /\ i <= Len(mounts)
          /\ owner' = IF isPrivateMount(mounts[i]) THEN owner
                      ELSE [owner EXCEPT ![mounts[i].src] = shiftedOwner(mounts[i].src)]
      BY <1>5, Zenon DEF ShiftMount, At, Goto
    <3>2. i \in 1..Base
      BY <1>3, <3>1 DEF Before
    <3>3. mounts[i] = Asked[i]
      BY <1>3, <3>2
    <3> QED
      BY <3>1, <3>2, <3>3
  <2>2. \A s \in Sources : owner'[s] = owner[s] \/ owner'[s] = shiftedOwner(s)
    BY <1>2, <2>1
  <2>3. ~isPrivateMount(Asked[i]) => owner'[Asked[i].src] = shiftedOwner(Asked[i].src)
    BY <1>1, <1>2, <2>1
  <2>4. ASSUME NEW k \in 1..Base, k < i + 1, ~isPrivateMount(Asked[k])
        PROVE  owner'[Asked[k].src] = shiftedOwner(Asked[k].src)
    <3>1. CASE k = i
      BY <2>3, <2>4, <3>1
    <3>2. CASE k # i
      <4>1. owner[Asked[k].src] = shiftedOwner(Asked[k].src)
        BY <1>1, <1>2, <2>1, <2>4, <3>2 DEF OwnerInv, Shifted
      <4> QED
        BY <1>1, <2>2, <4>1
    <3> QED
      BY <3>1, <3>2
  <2>5. \A k \in 1..Len(Devices) : owner'[Devices[k]] = "root"
    BY <1>1, <1>2, <2>1, <2>2 DEF OwnerInv
  <2> QED
    BY <1>1, <2>1, <2>4, <2>5 DEF OwnerInv, Shifted, Created, Running
<1>6. CASE owner' = owner /\ ~(ShiftDevice \/ ShiftMount)
  <2> DEFINE Later == {"gpu", "create"} \cup Created \cup Running
  <2>1. /\ step' = "shift" => (step = "devices" /\ i' = 1) \/ (step = "shift" /\ i' = i)
        /\ step' \notin {"devices", "shift"} => step \notin {"devices", "shift"}
                                                \/ (step = "shift" /\ i > Len(Devices))
        /\ step' = "mounts" => (step = "metaExec" /\ i' = 1) \/ (step = "mounts" /\ i' = i)
        /\ step' \in Later => step \in Later \/ (step = "mounts" /\ i > Base)
    <3> USE DEF At, Goto, Return, Before, Created, Running
    <3>1. CASE CreateDevice
      BY <3>1 DEF CreateDevice
    <3>2. CASE DevicesCreated \/ StartPull \/ Pull \/ Pulled
      BY <3>2 DEF DevicesCreated, StartPull, Pull, Pulled
    <3>3. CASE RemountSys \/ TryUnmountProcGPUDrivers \/ MetaCreate \/ MetaStart \/ MetaExec
      BY <3>3 DEF RemountSys, TryUnmountProcGPUDrivers, MetaCreate, MetaStart, MetaExec
    <3>4. CASE MountsShifted
      BY <1>3, <3>4 DEF MountsShifted
    <3>5. CASE AddGPUBind \/ GPUBindsAdded \/ CreateContainer \/ PruneImages \/ ContainerStart
      BY <3>5 DEF AddGPUBind, GPUBindsAdded, CreateContainer, PruneImages, ContainerStart
    <3>6. CASE MakeBootDir \/ SetQuota \/ Bootstrap \/ Retry
      BY <3>6 DEF MakeBootDir, SetQuota, Bootstrap, Retry
    <3>7. CASE Fails \/ UNCHANGED cvmVars
      BY <3>7 DEF Fails, cvmVars
    <3> QED
      BY <1>6, <3>1, <3>2, <3>3, <3>4, <3>5, <3>6, <3>7, Zenon DEF CVMNext, Run
  <2>2. /\ step' = "shift" => \A k \in 1..Len(Devices) : k < i' => owner[Devices[k]] = "root"
        /\ step' \notin {"devices", "shift"} => \A k \in 1..Len(Devices) : owner[Devices[k]] = "root"
    BY <1>1, <1>2, <2>1 DEF OwnerInv
  <2>3. /\ step' = "mounts" => \A k \in 1..Base : k < i' => Shifted(k)
        /\ step' \in {"gpu", "create"} \cup Created \cup Running => \A k \in 1..Base : Shifted(k)
    BY <1>1, <1>2, <2>1 DEF OwnerInv
  <2>4. \A k \in 1..Base : Shifted(k) => Shifted(k)'
    BY <1>1, <1>6 DEF Shifted
  <2> QED
    BY <1>1, <1>6, <2>2, <2>3, <2>4 DEF OwnerInv, Created, Running
<1>7. ShiftDevice \/ ShiftMount \/ owner' = owner
  BY DEF CVMNext, Run, CreateDevice, DevicesCreated, StartPull, Pull, Pulled, RemountSys,
      TryUnmountProcGPUDrivers, MetaCreate, MetaStart, MetaExec, MountsShifted, AddGPUBind,
      GPUBindsAdded, CreateContainer, PruneImages, ContainerStart, MakeBootDir, SetQuota, Bootstrap,
      Retry, Fails, cvmVars, hostVars
<1> QED
  BY <1>4, <1>5, <1>6, <1>7

LEMMA KeepNext == IInv /\ [CVMNext]_cvmVars => KeepInv'
<1> SUFFICES ASSUME IInv, [CVMNext]_cvmVars PROVE KeepInv'
  OBVIOUS
<1>1. KeepInv /\ StepInv
  BY DEF IInv
<1> USE DEF KeepInv, Before, Created, Running, pullVars, hostVars, dockerVars, At, Goto, Return
<1>2. CASE Pull \/ Pulled \/ StartPull
  <2>1. cvm' = "none" /\ meta' = "none" /\ step' \in {"shift", "pull", "sys"}
    BY <1>1, <1>2 DEF Pull, Pulled, StartPull, StepInv
  <2> QED
    BY <2>1
<1>3. CASE PruneImages
  <2>1. cvm = "created" /\ image' = TRUE
    BY <1>1, <1>3 DEF PruneImages, StepInv
  <2> QED
    BY <1>1, <1>3, <2>1 DEF PruneImages
<1>4. CASE Retry
  BY <1>4 DEF Retry
<1>5. CASE CreateDevice \/ DevicesCreated \/ ShiftDevice \/ RemountSys \/ TryUnmountProcGPUDrivers
  BY <1>1, <1>5 DEF CreateDevice, DevicesCreated, ShiftDevice, RemountSys, TryUnmountProcGPUDrivers
<1>6. CASE MetaCreate \/ MetaStart \/ MetaExec
  <2>1. image' = image /\ sysRW' = sysRW /\ cvm' = cvm /\ step \in {"metaCreate", "metaStart", "metaExec"}
    BY <1>6 DEF MetaCreate, MetaStart, MetaExec
  <2>2. MetaCreate => image
    BY Zenon DEF MetaCreate
  <2>3. MetaStart => image
    BY <1>1, Zenon DEF MetaStart
  <2>4. MetaExec => meta' \notin {"created", "running"} /\ step' = "mounts"
    BY DEF MetaExec
  <2> QED
    BY <1>1, <1>6, <2>1, <2>2, <2>3, <2>4
<1>10. CASE ShiftMount \/ MountsShifted \/ AddGPUBind \/ GPUBindsAdded \/ CreateContainer
  <2>1. image' = image /\ sysRW' = sysRW /\ meta' = meta
        /\ step \in {"mounts", "gpu", "create"} /\ step' \in {"mounts", "gpu", "create", "prune"}
    BY <1>10 DEF ShiftMount, MountsShifted, AddGPUBind, GPUBindsAdded, CreateContainer
  <2>2. cvm' = cvm \/ image
    BY <1>10, Zenon DEF ShiftMount, MountsShifted, AddGPUBind, GPUBindsAdded, CreateContainer, dockerVars
  <2> QED
    BY <1>1, <2>1, <2>2
<1>7. CASE ContainerStart \/ MakeBootDir \/ SetQuota \/ Bootstrap
  BY <1>1, <1>7 DEF ContainerStart, MakeBootDir, SetQuota, Bootstrap, StepInv
<1>8. CASE Fails
  BY <1>1, <1>8 DEF Fails
<1>9. CASE UNCHANGED cvmVars
  BY <1>1, <1>9 DEF cvmVars
<1> QED
  BY <1>2, <1>3, <1>4, <1>5, <1>6, <1>7, <1>8, <1>9, <1>10 DEF CVMNext, Run

-----------------------------------------------------------------------------
(* The theorems.                                                           *)

LEMMA InductiveInvariant == CVMSpec => []IInv
<1>1. IInv /\ [CVMNext]_cvmVars => IInv'
  BY FlagsNext, TypesNext, StepNext, MountNext, OwnerNext, KeepNext DEF IInv
<1> QED
  BY <1>1, InitInv, PTL DEF CVMSpec

\* Types, and the positions of every loop, whatever the lists.
THEOREM CVMTypeCorrect == CVMSpec => []CVMTypeOK
<1>1. IInv => CVMTypeOK
  <2> SUFFICES ASSUME IInv PROVE CVMTypeOK
    OBVIOUS
  <2>1. {pruned, image, sysRW} \subseteq BOOLEAN
    BY Zenon DEF IInv, FlagInv
  <2>2. DOMAIN owner = Sources
    BY DEF IInv, TypeInv
  <2>3. i \in 1 .. 1 + Len(mounts) + Len(GPUBinds) + 2
    <3>1. Len(mounts) \in Nat /\ Len(GPUBinds) \in Nat
      BY LenProperties, CVMAssumption DEF CVMAssumption, IInv, MountInv
    <3> QED
      BY <3>1 DEF IInv, TypeInv, StepInv
  <2>4. cvm \in {"none", "created", "running"}
    BY DEF IInv, TypeInv, StepInv
  <2> QED
    BY <2>1, <2>2, <2>3, <2>4 DEF IInv, TypeInv, StepInv, CVMTypeOK
<1> QED
  BY <1>1, InductiveInvariant, PTL

\* Whatever mounts a user asks for, wherever homes are and in a second attempt
\* as in the first, what the inner container is created with has been shifted.
THEOREM HandedOver == CVMSpec => []HandedOverShifted
<1>1. IInv => HandedOverShifted
  <2> SUFFICES ASSUME IInv, cvm # "none" PROVE HandedOverShifted
    BY DEF HandedOverShifted
  <2>1. step \in Created \cup Running
    BY DEF IInv, TypeInv, StepInv
  <2>2. \A k \in 1..Len(Devices) : owner[Devices[k]] = "root"
    BY <2>1 DEF IInv, OwnerInv, Created, Running
  <2>3. ASSUME NEW k \in 1..Base PROVE Shifted(k) /\ binds[k] = Asked[k]
    BY <2>1 DEF IInv, OwnerInv, MountInv
  <2> QED
    BY <2>2, <2>3 DEF HandedOverShifted, Shifted, Base
<1> QED
  BY <1>1, InductiveInvariant, PTL

\* No prune takes the image of a container away, and no container starts on a
\* read-only /sys.
THEOREM ImagesKept == CVMSpec => []ContainersKeepImage
<1>1. IInv => ContainersKeepImage
  <2> SUFFICES ASSUME IInv, cvm # "none" \/ meta \in {"created", "running"}
               PROVE  image /\ sysRW
    BY DEF ContainersKeepImage
  <2>1. step \notin {"devices", "shift", "pull", "sys"}
    BY DEF IInv, StepInv, Before
  <2> QED
    BY <2>1, Zenon DEF IInv, KeepInv
<1> QED
  BY <1>1, InductiveInvariant, PTL

\* Whatever the host's libraries become inside, none is bound over another
\* mount.
THEOREM GPUBindsNew == CVMSpec => []GPUBindsAreNew
<1>1. IInv => GPUBindsAreNew
  <2> SUFFICES ASSUME IInv PROVE GPUBindsAreNew
    OBVIOUS
  <2>1. CASE cvm = "none"
    BY <2>1 DEF IInv, MountInv, GPUBindsAreNew
  <2>2. CASE cvm # "none"
    BY <2>2 DEF IInv, MountInv, GPUBindsAreNew, Base
  <2> QED
    BY <2>1, <2>2
<1> QED
  BY <1>1, InductiveInvariant, PTL

-----------------------------------------------------------------------------
(* Both attempts are finite.                                               *)

Steps == Before \cup Created \cup Running

\* How many positions may still follow this one.
Place(s) ==
    CASE s = "devices"    -> 18 [] s = "shift"     -> 17 [] s = "pull"     -> 16
      [] s = "sys"        -> 15 [] s = "procGPU"   -> 14 [] s = "metaCreate" -> 13
      [] s = "metaStart"  -> 12 [] s = "metaExec"  -> 11 [] s = "mounts"   -> 10
      [] s = "gpu"        -> 9  [] s = "create"    -> 8  [] s = "prune"    -> 7
      [] s = "start"      -> 6  [] s = "mkdir"     -> 5  [] s = "quota"    -> 4
      [] s = "execCreate" -> 3  [] s = "attach"    -> 2  [] s = "feed"     -> 1

StepsLeft == IF result = "none" THEN Place(step) ELSE 0

\* What the loop at this position has left.
LoopLeft ==
    CASE step \in {"devices", "shift"}        -> (Len(Devices) + 1) - i
      [] step = "pull" /\ pull = "first"      -> MaxRetries + 2
      [] step = "pull" /\ pull = "retry"      -> (MaxRetries + 1) - n
      [] step = "mounts"                      -> (Len(mounts) + 1) - i
      [] step = "gpu"                         -> (Len(GPUBinds) + 1) - i
      [] OTHER                                -> 0

RunGoesDown ==
    \/ 2 - attempt' < 2 - attempt
    \/ attempt' = attempt /\ StepsLeft' < StepsLeft
    \/ attempt' = attempt /\ StepsLeft' = StepsLeft /\ LoopLeft' < LoopLeft

\* The loops over the mounts stay within their own list.
LoopInv ==
    /\ step = "mounts" => i <= Len(mounts) + 1
    /\ step = "gpu" => i <= Len(GPUBinds) + 1

LEMMA ListLengths ==
    ASSUME IInv
    PROVE  /\ Len(mounts) \in Nat /\ Len(GPUBinds) \in Nat /\ Len(Devices) \in Nat
           /\ i \in Nat \ {0} /\ attempt \in 1..2 /\ n \in 0..10 /\ step \in Steps
BY CVMAssumption, LenProperties, DeviceList
DEF CVMAssumption, IInv, TypeInv, MountInv, MaxRetries, Steps

LEMMA LoopNext == IInv /\ LoopInv /\ [CVMNext]_cvmVars => LoopInv'
<1> SUFFICES ASSUME IInv, LoopInv, [CVMNext]_cvmVars PROVE LoopInv'
  OBVIOUS
<1> USE ListLengths DEF LoopInv, At, Goto, Return, hostVars, dockerVars
<1>1. CASE MetaExec
  BY <1>1 DEF MetaExec
<1>2. CASE ShiftMount
  BY <1>2 DEF ShiftMount
<1>3. CASE MountsShifted
  BY <1>3 DEF MountsShifted
<1>4. CASE AddGPUBind
  BY <1>4 DEF AddGPUBind
<1>5. CASE Fails \/ Pull \/ UNCHANGED cvmVars
  BY <1>5 DEF Fails, Pull, cvmVars
<1>6. CASE step' \notin {"mounts", "gpu"}
  BY <1>6
<1>7. CASE CreateDevice \/ DevicesCreated \/ ShiftDevice \/ StartPull \/ Pulled \/ RemountSys
           \/ TryUnmountProcGPUDrivers \/ MetaCreate \/ MetaStart
  <2>1. step \notin {"mounts", "gpu"} /\ (step' = step \/ step' \notin {"mounts", "gpu"})
    BY <1>7 DEF CreateDevice, DevicesCreated, ShiftDevice, StartPull, Pulled, RemountSys,
                TryUnmountProcGPUDrivers, MetaCreate, MetaStart
  <2> QED
    BY <1>6, <2>1
<1>8. CASE GPUBindsAdded \/ CreateContainer \/ PruneImages \/ ContainerStart \/ MakeBootDir
           \/ SetQuota \/ Bootstrap \/ Retry
  <2>1. (step' = step /\ step \notin {"mounts", "gpu"}) \/ step' \notin {"mounts", "gpu"}
    BY <1>8 DEF GPUBindsAdded, CreateContainer, PruneImages, ContainerStart, MakeBootDir,
                SetQuota, Bootstrap, Retry
  <2> QED
    BY <1>6, <2>1
<1> QED
  BY <1>1, <1>2, <1>3, <1>4, <1>5, <1>7, <1>8 DEF CVMNext, Run

\* Every position has its number.
LEMMA Places == \A s \in Steps : Place(s) \in 1..18
BY DEF Steps, Before, Created, Running, Place

LEMMA RunNaturals ==
    ASSUME IInv, LoopInv
    PROVE  {2 - attempt, StepsLeft, LoopLeft} \subseteq Nat
<1>1. 2 - attempt \in Nat
  BY ListLengths
<1>2. StepsLeft \in Nat
  BY ListLengths, Places DEF StepsLeft
<1>3. LoopLeft \in Nat
  <2>1. CASE step \in {"devices", "shift"}
    BY <2>1, ListLengths DEF LoopLeft, IInv, StepInv
  <2>2. CASE step = "pull"
    BY <2>2, ListLengths DEF LoopLeft, MaxRetries
  <2>3. CASE step = "mounts" \/ step = "gpu"
    BY <2>3, ListLengths DEF LoopLeft, LoopInv
  <2>4. CASE step \notin {"devices", "shift", "pull", "mounts", "gpu"}
    BY <2>4 DEF LoopLeft
  <2> QED
    BY <2>1, <2>2, <2>3, <2>4
<1> QED
  BY <1>1, <1>2, <1>3

\* Each step goes down.
LEMMA RunDown ==
    ASSUME IInv, IInv', LoopInv, CVMNext
    PROVE  RunGoesDown
<1> USE DEF RunGoesDown
<1>1. ASSUME attempt' = attempt, result = "none", result' # "none" PROVE RunGoesDown
  BY <1>1, ListLengths, Places DEF StepsLeft
<1>2. ASSUME attempt' = attempt, result = "none", result' = "none", Place(step') < Place(step)
      PROVE  RunGoesDown
  BY <1>2 DEF StepsLeft
<1>3. ASSUME attempt' = attempt, result' = result, step' = step, LoopLeft' < LoopLeft
      PROVE  RunGoesDown
  BY <1>3 DEF StepsLeft
<1>4. CASE Fails
  BY <1>1, <1>4 DEF Fails, Return
<1>5. CASE Retry
  BY <1>5 DEF Retry
<1>6. CASE CreateDevice
  <2>1. /\ step = "devices" /\ result = "none" /\ step' = step /\ attempt' = attempt
        /\ flags' = flags
        /\ (i' = i + 1 /\ result' = result) \/ result' = "err"
    BY <1>6 DEF CreateDevice, At, Goto, Return
  <2>2. Devices' = Devices
    BY <2>1 DEF Devices
  <2>3. CASE i' = i + 1 /\ result' = result
    BY <1>3, <2>1, <2>2, <2>3, ListLengths DEF LoopLeft
  <2> QED
    BY <1>1, <2>1, <2>3
<1>7. CASE ShiftDevice
  <2>1. /\ step = "shift" /\ step' = step /\ attempt' = attempt /\ flags' = flags
        /\ i' = i + 1 /\ result' = result
    BY <1>7 DEF ShiftDevice, At, Goto
  <2>2. Devices' = Devices
    BY <2>1 DEF Devices
  <2> QED
    BY <1>3, <2>1, <2>2, ListLengths DEF LoopLeft
<1>8. CASE Pull
  <2>1. step = "pull" /\ step' = step /\ attempt' = attempt /\ result' = result /\ PullStep
    BY <1>8 DEF Pull, At
  <2>2. \/ pull = "first" /\ pull' \in {"done", "retry"} /\ n' = n
        \/ pull = "retry" /\ pull' = "done"
        \/ pull = "retry" /\ pull' = "retry" /\ n' = n + 1
    BY <2>1 DEF PullStep, PullFirst, PullRetry, PullGiveUp
  <2>3. n \in 0..10 /\ n' \in 0..10
    BY ListLengths DEF IInv, TypeInv, MaxRetries
  <2>4. LoopLeft' < LoopLeft
    BY <2>1, <2>2, <2>3 DEF LoopLeft, MaxRetries
  <2> QED
    BY <1>3, <2>1, <2>4
<1>9. CASE Pulled
  BY <1>1, <1>2, <1>9 DEF Pulled, At, Goto, Return, Place
<1>10. CASE ShiftMount
  <2>1. /\ step = "mounts" /\ step' = step /\ attempt' = attempt /\ mounts' = mounts
        /\ i' = i + 1 /\ result' = result
    BY <1>10 DEF ShiftMount, At, Goto
  <2> QED
    BY <1>3, <2>1, ListLengths DEF LoopLeft
<1>11. CASE AddGPUBind
  <2>1. step = "gpu" /\ step' = step /\ attempt' = attempt /\ i' = i + 1 /\ result' = result
    BY <1>11 DEF AddGPUBind, At, Goto
  <2> QED
    BY <1>3, <2>1, ListLengths DEF LoopLeft
<1>12. CASE DevicesCreated \/ StartPull \/ RemountSys \/ TryUnmountProcGPUDrivers
  BY <1>2, <1>12 DEF DevicesCreated, StartPull, RemountSys, TryUnmountProcGPUDrivers, At, Goto, Place
<1>13. CASE MetaCreate \/ MetaStart \/ MetaExec \/ MountsShifted \/ GPUBindsAdded
  BY <1>2, <1>13 DEF MetaCreate, MetaStart, MetaExec, MountsShifted, GPUBindsAdded, At, Goto, Place
<1>14. CASE CreateContainer \/ PruneImages \/ ContainerStart \/ MakeBootDir
  BY <1>2, <1>14 DEF CreateContainer, PruneImages, ContainerStart, MakeBootDir, At, Goto, Place
<1>15. CASE SetQuota \/ Bootstrap
  BY <1>1, <1>2, <1>15 DEF SetQuota, Bootstrap, At, Goto, Return, Place
<1> QED
  BY <1>4, <1>5, <1>6, <1>7, <1>8, <1>9, <1>10, <1>11, <1>12, <1>13, <1>14, <1>15 DEF CVMNext, Run

\* For any list of mounts and of GPU libraries, and whatever fails: each step lowers three
\* naturals, taken in lexicographic order, so runDockerCVM, its pull retries and the
\* second attempt at it come to a result after finitely many calls.
THEOREM RunIsFinite ==
    CVMSpec => /\ []({2 - attempt, StepsLeft, LoopLeft} \subseteq Nat)
               /\ [][RunGoesDown]_cvmVars
<1>1. CVMInit => LoopInv
  BY DEF CVMInit, LoopInv
<1>2. IInv /\ LoopInv => {2 - attempt, StepsLeft, LoopLeft} \subseteq Nat
  BY RunNaturals
<1>3. IInv /\ IInv' /\ LoopInv /\ [CVMNext]_cvmVars => [RunGoesDown]_cvmVars
  BY RunDown
<1> QED
  BY <1>1, <1>2, <1>3, InductiveInvariant, LoopNext, PTL DEF CVMSpec

-----------------------------------------------------------------------------
(* What the first attempt leaves for the second.                           *)

\* The first attempt met a full disk after it had made a device node.
NodeLeft == attempt = 1 /\ result = "nospace" /\ nodes # {}

\* From then on there is a node in the way of one that is still to be made.
Barred ==
    \/ NodeLeft /\ \E k \in 1..Len(Devices) : Devices[k] \in nodes
    \/ /\ attempt = 2 /\ step = "devices" /\ result # "ok"
       /\ \E k \in 1..Len(Devices) : k >= i /\ Devices[k] \in nodes

\* Only devices that were asked for have nodes.
NodesInv == \A d \in nodes : \E k \in 1..Len(Devices) : d = Devices[k]

LEMMA NodesNext == IInv /\ NodesInv /\ [CVMNext]_cvmVars => NodesInv'
<1> SUFFICES ASSUME IInv, NodesInv, [CVMNext]_cvmVars PROVE NodesInv'
  OBVIOUS
<1>1. Devices' = Devices
  BY FlagsStay
<1>2. CASE CreateDevice
  <2>1. i \in 1..Len(Devices) /\ nodes' \subseteq nodes \cup {Devices[i]}
    BY <1>2, ListLengths DEF CreateDevice
  <2> QED
    BY <1>1, <2>1 DEF NodesInv
<1>3. CASE nodes' = nodes
  BY <1>1, <1>3 DEF NodesInv
<1> QED
  BY <1>2, <1>3 DEF CVMNext, Run, DevicesCreated, ShiftDevice, StartPull, Pull, Pulled, RemountSys,
     TryUnmountProcGPUDrivers, MetaCreate, MetaStart, MetaExec, ShiftMount, MountsShifted, AddGPUBind,
     GPUBindsAdded, CreateContainer, PruneImages, ContainerStart, MakeBootDir, SetQuota, Bootstrap,
     Retry, Fails, hostVars, cvmVars

LEMMA BarredNext == IInv /\ Barred /\ [CVMNext]_cvmVars => Barred'
<1> SUFFICES ASSUME IInv, Barred, [CVMNext]_cvmVars PROVE Barred'
  OBVIOUS
<1>1. Devices' = Devices
  BY FlagsStay
<1>2. CASE UNCHANGED cvmVars
  BY <1>1, <1>2 DEF cvmVars, hostVars, Barred, NodeLeft
<1>3. CASE CVMNext /\ NodeLeft
  <2>1. Retry
    BY <1>3 DEF NodeLeft, CVMNext, Run, DevicesCreated, ShiftDevice, StartPull, Pull, Pulled,
       RemountSys, TryUnmountProcGPUDrivers, MetaCreate, MetaStart, MetaExec, ShiftMount,
       MountsShifted, AddGPUBind, GPUBindsAdded, CreateContainer, PruneImages, ContainerStart,
       MakeBootDir, SetQuota, Bootstrap, CreateDevice, Fails, At
  <2> QED
    BY <1>1, <1>3, <2>1 DEF Barred, NodeLeft, Retry, hostVars
<1>4. CASE CVMNext /\ ~NodeLeft
  <2>1. /\ attempt = 2 /\ step = "devices" /\ result # "ok"
        /\ \E k \in 1..Len(Devices) : k >= i /\ Devices[k] \in nodes
    BY <1>4 DEF Barred
  <2>2. CreateDevice \/ DevicesCreated \/ Fails
    BY <1>4, <2>1 DEF CVMNext, Run, ShiftDevice, StartPull, Pull, Pulled,
       RemountSys, TryUnmountProcGPUDrivers, MetaCreate, MetaStart, MetaExec, ShiftMount,
       MountsShifted, AddGPUBind, GPUBindsAdded, CreateContainer, PruneImages, ContainerStart,
       MakeBootDir, SetQuota, Bootstrap, Retry, At
  <2>3. ~DevicesCreated
    BY <2>1, ListLengths DEF DevicesCreated
  <2>4. CASE Fails
    BY <1>1, <2>1, <2>4 DEF Fails, Return, Barred, hostVars
  <2>5. CASE CreateDevice
    <3>1. attempt' = 2 /\ step' = "devices"
      BY <2>1, <2>5 DEF CreateDevice, Goto, Return
    <3>2. \/ Devices[i] \notin nodes /\ nodes' = nodes \cup {Devices[i]} /\ i' = i + 1
             /\ result' = result
          \/ result' = "err" /\ UNCHANGED <<nodes, i>>
      BY <2>5 DEF CreateDevice, Goto, Return
    <3>3. PICK k \in 1..Len(Devices) : k >= i /\ Devices[k] \in nodes
      BY <2>1
    <3>4. CASE result' = "err" /\ UNCHANGED <<nodes, i>>
      BY <1>1, <2>1, <3>1, <3>4 DEF Barred
    <3>5. CASE Devices[i] \notin nodes /\ nodes' = nodes \cup {Devices[i]} /\ i' = i + 1
               /\ result' = result
      <4>1. k # i
        BY <3>3, <3>5
      <4>2. k >= i' /\ Devices'[k] \in nodes'
        BY <1>1, <3>3, <3>5, <4>1, ListLengths
      <4> QED
        BY <1>1, <2>1, <3>1, <3>5, <4>2 DEF Barred
    <3> QED
      BY <3>2, <3>4, <3>5
  <2> QED
    BY <2>2, <2>3, <2>4, <2>5
<1> QED
  BY <1>2, <1>3, <1>4

\* For any configuration with a TUN or FUSE device: an attempt that meets a full disk
\* once a device node is made leaves it behind, and mknod fails on it; the second
\* attempt, which is there for the full disk, never succeeds.
THEOREM LeftNodeBarsRetry == CVMSpec => [](NodeLeft => [](result # "ok"))
<1>1. CVMInit => NodesInv
  BY DEF CVMInit, NodesInv
<1>2. NodesInv /\ NodeLeft => Barred
  BY DEF NodesInv, NodeLeft, Barred
<1>3. Barred => result # "ok"
  BY DEF Barred, NodeLeft
<1> QED
  BY <1>1, <1>2, <1>3, InductiveInvariant, NodesNext, BarredNext, PTL DEF CVMSpec

-----------------------------------------------------------------------------
(* What RunE sees of the two attempts.                                     *)

Ended == IF result = "none" THEN <<>> ELSE <<result>>
Tries == IF attempt = 1 THEN Ended ELSE <<"nospace">> \o Ended
Fed   == exec = "fed"

RunE == INSTANCE Attempts WITH tries <- Tries, script <- flags.script, fed <- Fed

\* The script is fed with the attempt's last call, and only if there is one.
FedInv ==
    /\ exec = "fed" <=> result = "ok" /\ flags.script
    /\ step \in {"execCreate", "attach", "feed"} => flags.script

LEMMA FedNext == FedInv /\ [CVMNext]_cvmVars => FedInv'
<1> SUFFICES ASSUME FedInv, [CVMNext]_cvmVars PROVE FedInv'
  OBVIOUS
<1>1. flags' = flags
  BY FlagsStay
<1> USE <1>1 DEF FedInv, At, Goto, Return, dockerVars
<1>2. CASE SetQuota \/ Bootstrap
  <2>1. result = "none" /\ exec # "fed"
    BY <1>2 DEF SetQuota, Bootstrap
  <2>2. CASE SetQuota
    BY <2>1, <2>2 DEF SetQuota
  <2>3. CASE Bootstrap
    <3>1. flags.script /\ step \in {"execCreate", "attach", "feed"}
      BY <2>3 DEF Bootstrap
    <3>2. \/ exec' \in {"created", "attached"} /\ result' = "none" /\ step' \in {"attach", "feed"}
          \/ exec' = "fed" /\ result' = "ok" /\ step' = step
      BY <2>1, <2>3 DEF Bootstrap
    <3> QED
      BY <3>1, <3>2
  <2> QED
    BY <1>2, <2>2, <2>3
<1>3. CASE Retry
  BY <1>3 DEF Retry
<1>4. CASE Fails \/ CreateDevice \/ Pulled
  <2>1. /\ exec' = exec /\ result = "none" /\ result' # "ok"
        /\ step' = step \/ step' \notin {"execCreate", "attach", "feed"}
    BY <1>4 DEF Fails, CreateDevice, Pulled
  <2> QED
    BY <2>1
<1>5. CASE /\ UNCHANGED <<exec, result>>
           /\ step' = step \/ step' \notin {"execCreate", "attach", "feed"}
  BY <1>5
<1> QED
  BY <1>2, <1>3, <1>4, <1>5 DEF CVMNext, Run, DevicesCreated, ShiftDevice, StartPull, Pull,
     RemountSys, TryUnmountProcGPUDrivers, MetaCreate, MetaStart, MetaExec, ShiftMount,
     MountsShifted, AddGPUBind, GPUBindsAdded, CreateContainer, PruneImages, ContainerStart,
     MakeBootDir, cvmVars

\* runDockerCVM returns a script's exec if there is one.
LEMMA AttemptStep == IInv /\ FedInv /\ FedInv' /\ [CVMNext]_cvmVars => [RunE!AttemptsNext]_(RunE!attemptVars)
<1> SUFFICES ASSUME IInv, FedInv, FedInv', [CVMNext]_cvmVars
             PROVE  RunE!AttemptsNext \/ UNCHANGED RunE!attemptVars
  OBVIOUS
<1>1. flags' = flags /\ attempt \in 1..2 /\ result \in {"none", "ok", "nospace", "err"}
      /\ result' \in {"none", "ok", "nospace", "err"}
  BY FlagsStay, TypesNext DEF IInv, TypeInv
<1>2. CASE UNCHANGED <<attempt, result>>
  <2>1. Tries' = Tries /\ Fed' = Fed
    BY <1>1, <1>2 DEF Tries, Ended, FedInv, Fed
  <2> QED
    BY <1>1, <2>1 DEF RunE!attemptVars
<1>3. CASE attempt' = attempt /\ result = "none" /\ result' # "none"
  <2>1. Tries \in {<<>>, <<"nospace">>} /\ Tries' = Append(Tries, result')
    <3>1. Ended = <<>> /\ Ended' = <<result'>>
      BY <1>3 DEF Ended
    <3>2. \A x : /\ <<"nospace">> \o <<>> = <<"nospace">> /\ Append(<<>>, x) = <<x>>
                /\ <<"nospace">> \o <<x>> = Append(<<"nospace">>, x)
      OBVIOUS
    <3> QED
      BY <1>1, <1>3, <3>1, <3>2 DEF Tries
  <2>2. Fed' = (result' = "ok" /\ flags.script)
    BY <1>1 DEF FedInv, Fed
  <2>3. result' \in RunE!Outcomes
    BY <1>1, <1>3 DEF RunE!Outcomes
  <2> QED
    BY <1>1, <2>1, <2>2, <2>3 DEF RunE!AttemptsNext, RunE!Finish
<1>4. CASE Retry
  <2>1. Tries' = Tries
    BY <1>4 DEF Retry, Tries, Ended
  <2>2. Fed' = Fed
    BY <1>4 DEF Retry, FedInv, Fed
  <2> QED
    BY <1>1, <2>1, <2>2 DEF RunE!attemptVars
<1> QED
  BY <1>2, <1>3, <1>4 DEF CVMNext, Run, CreateDevice, DevicesCreated, ShiftDevice, StartPull, Pull,
     Pulled, RemountSys, TryUnmountProcGPUDrivers, MetaCreate, MetaStart, MetaExec, ShiftMount,
     MountsShifted, AddGPUBind, GPUBindsAdded, CreateContainer, PruneImages, ContainerStart,
     MakeBootDir, SetQuota, Bootstrap, Fails, At, Goto, Return, cvmVars

\* For any mounts, devices and GPU libraries and whatever fails: the calls of the two
\* attempts amount to what Attempts allows, which is what Envbox takes runDockerCVM for.
THEOREM RunImplementsAttempts == CVMSpec => RunE!AttemptsSpec
<1>1. CVMInit => RunE!AttemptsInit /\ FedInv
  <2> SUFFICES ASSUME CVMInit PROVE RunE!AttemptsInit /\ FedInv
    OBVIOUS
  <2>1. flags.script \in BOOLEAN
    BY DEF CVMInit
  <2>2. Tries = <<>> /\ ~Fed /\ FedInv
    BY DEF CVMInit, Tries, Ended, Fed, FedInv
  <2> QED
    BY <2>1, <2>2 DEF RunE!AttemptsInit
<1> QED
  BY <1>1, InductiveInvariant, FedNext, AttemptStep, PTL DEF CVMSpec, RunE!AttemptsSpec
=============================================================================
