--------------------------- MODULE LifetimeProofs ---------------------------
(***************************************************************************)
(* Theorems of Lifetime: its types, how WaitForDaemon fails, which         *)
(* certificates are in place and whose credentials are used.               *)
(***************************************************************************)
EXTENDS Lifetime, TLAPS

-----------------------------------------------------------------------------
(* Types.                                                                  *)

\* A restart of the container resets all but the registry's directory.
LEMMA RestartTypeOK == LifetimeTypeOK /\ Restart => LifetimeTypeOK'
<1> SUFFICES ASSUME LifetimeTypeOK, Restart PROVE LifetimeTypeOK'
  OBVIOUS
<1>1. run' \in 1..MaxRuns /\ now' \in Nat /\ pingEnd' \in Nat /\ errAt' \in Nat
  BY LifetimeAssumption DEF LifetimeAssumption, LifetimeTypeOK, Restart
<1>2. WaitsTypeOK'
  BY <1>1, Zenon DEF WaitsTypeOK, Restart, Answers
<1>3. RegistryTypeOK'
  BY DEF LifetimeTypeOK, RegistryTypeOK, Restart, NoAuth
<1> QED
  BY <1>1, <1>2, <1>3 DEF LifetimeTypeOK

\* The steps of the waits keep the types of the waits.
LEMMA WaitTypeOK == WaitsTypeOK /\ [WaitNext]_waitVars => WaitsTypeOK'
<1> SUFFICES ASSUME WaitsTypeOK, [WaitNext]_waitVars PROVE WaitsTypeOK'
  OBVIOUS
<1> USE WaitsAssumption DEF WaitsAssumption, WaitsTypeOK
<1>1. CASE StatManager
  BY <1>1 DEF StatManager, WaitFails
<1>2. CASE GiveUp
  BY <1>2 DEF GiveUp, WaitFails
<1>3. CASE StartPing
  <2>1. pingEnd' \in Nat
    BY <1>3 DEF StartPing, Sooner
  <2> QED
    BY <2>1, <1>3, Zenon DEF StartPing
<1>4. ASSUME NEW e \in (Answers \ {"hung"}) \cup {"timeout"}, FirstPing(e) \/ Ping(e)
      PROVE  WaitsTypeOK'
  BY <1>4 DEF FirstPing, Ping, WaitFails, Answers
<1>5. CASE Tick
  BY <1>5 DEF Tick
<1>6. CASE Sysbox
  BY <1>6 DEF Sysbox
<1>7. CASE Dockerd
  BY <1>7 DEF Dockerd, Answers
<1>8. CASE UNCHANGED waitVars
  BY <1>8 DEF waitVars
<1> QED
  BY <1>1, <1>2, <1>3, <1>4, <1>5, <1>6, <1>7, <1>8 DEF WaitNext, WaitStep

CertStep == MakeDir \/ StatSource \/ CreateCert \/ CopyCert \/ CertsWritten \/ CertsFail

\* The steps of WriteCertsForRegistry keep the types of the registry.
LEMMA CertTypeOK == RegistryTypeOK /\ CertStep => RegistryTypeOK'
<1> SUFFICES ASSUME RegistryTypeOK, CertStep PROVE RegistryTypeOK'
  OBVIOUS
<1> USE RegistryAssumption DEF RegistryAssumption, RegistryTypeOK
<1>1. CASE MakeDir
  BY <1>1 DEF MakeDir
<1>2. CASE StatSource
  BY <1>2 DEF StatSource, Wanted, Names
<1>3. CASE CreateCert
  BY <1>3 DEF CreateCert
<1>4. CASE CopyCert
  BY <1>4 DEF CopyCert
<1>5. CASE CertsWritten
  BY <1>5 DEF CertsWritten
<1>6. CASE CertsFail
  BY <1>6 DEF CertsFail
<1> QED
  BY <1>1, <1>2, <1>3, <1>4, <1>5, <1>6 DEF CertStep

\* What parseConfig may answer.
LEMMA ParseConfigResults ==
    ASSUME NEW cfg
    PROVE  parseConfig(cfg) \subseteq {"own", "other", "notExist", "error"}
BY DEF parseConfig

\* The choice of the credentials keeps the types of the registry.
LEMMA AuthTypeOK ==
    ASSUME RegistryTypeOK, NEW s \in Secrets \cup {NoConfig}, NEW f \in Secrets \cup {NoConfig},
           Authenticate(s, f)
    PROVE  RegistryTypeOK'
<1>1. FromSecret(s) \subseteq {"nobody", "own", "other", "notExist", "error"}
  BY ParseConfigResults DEF FromSecret
<1>2. parseConfig(f) \cup {"notExist"} \subseteq {"own", "other", "notExist", "error"}
  BY ParseConfigResults
<1> QED
  BY <1>1, <1>2 DEF Authenticate, RegistryTypeOK, certVars

\* Every variable of the startup has its type in every run of the program, for any
\* times, certificates and configs.
THEOREM LifetimeTypeCorrect == Spec => []LifetimeTypeOK
<1>1. Init => LifetimeTypeOK
  <2> SUFFICES ASSUME Init PROVE LifetimeTypeOK
    OBVIOUS
  <2>1. run \in 1..MaxRuns /\ now \in Nat /\ pingEnd \in Nat /\ errAt \in Nat
    BY LifetimeAssumption DEF LifetimeAssumption, Init, WaitsInit
  <2>2. WaitsTypeOK
    BY <2>1, Zenon DEF Init, WaitsInit, WaitsTypeOK, Answers
  <2>3. NoCerts \in [Names -> {"none", "part", "whole"}]
    BY DEF NoCerts
  <2>4. [NoCerts EXCEPT ![0] = "whole"] \in [Names -> {"none", "part", "whole"}]
    BY <2>3
  <2>5. certs \in [Names -> {"none", "part", "whole"}]
    BY <2>3, <2>4 DEF Init, CertsInit
  <2>6. RegistryTypeOK
    BY <2>5 DEF Init, CertsInit, AuthInit, NoAuth, RegistryTypeOK
  <2> QED
    BY <2>1, <2>2, <2>6 DEF LifetimeTypeOK
<1>2. LifetimeTypeOK /\ [Next]_vars => LifetimeTypeOK'
  <2> SUFFICES ASSUME LifetimeTypeOK, [Next]_vars PROVE LifetimeTypeOK'
    OBVIOUS
  <2>1. CASE Waiting
    <3>1. RegistryTypeOK' /\ run' \in 1..MaxRuns
      BY <2>1 DEF Waiting, LifetimeTypeOK, RegistryTypeOK, certVars
    <3> QED
      BY <2>1, <3>1, WaitTypeOK DEF Waiting, LifetimeTypeOK
  <2>2. CASE WriteCertsForRegistry
    <3>1. WaitsTypeOK' /\ run' \in 1..MaxRuns
      BY <2>2 DEF WriteCertsForRegistry, LifetimeTypeOK, WaitsTypeOK, waitVars
    <3> QED
      BY <2>2, <3>1, CertTypeOK DEF WriteCertsForRegistry, CertStep, LifetimeTypeOK
  <2>3. CASE PullCredentials
    <3>1. WaitsTypeOK' /\ run' \in 1..MaxRuns
      BY <2>3 DEF PullCredentials, LifetimeTypeOK, WaitsTypeOK, waitVars
    <3> QED
      BY <2>3, <3>1, AuthTypeOK DEF PullCredentials, LifetimeTypeOK
  <2>4. CASE Restart
    BY <2>4, RestartTypeOK
  <2>5. CASE UNCHANGED vars
    BY <2>5 DEF vars, waitVars, certVars, LifetimeTypeOK, WaitsTypeOK, RegistryTypeOK
  <2> QED
    BY <2>1, <2>2, <2>3, <2>4, <2>5 DEF Next
<1> QED
  BY <1>1, <1>2, PTL DEF Spec

-----------------------------------------------------------------------------
(* WaitForDaemon.  No ping outlasts the five minutes, nor does the select.   *)

DaemonWaitInv ==
    /\ now <= Limit
    /\ at = "first" => pingEnd = Second
    /\ at = "ping" => pingEnd <= Limit
    /\ GivesUpOnTime

\* The steps of the waits.
LEMMA WaitStepsInTime ==
    ASSUME WaitsTypeOK, DaemonWaitInv, WaitNext
    PROVE  DaemonWaitInv'
<1> USE WaitsAssumption DEF WaitsAssumption, DaemonWaitInv, WaitsTypeOK, GivesUpOnTime
<1>1. CASE StatManager
  BY <1>1 DEF StatManager, WaitFails
<1>2. CASE GiveUp
  BY <1>2 DEF GiveUp, WaitFails
<1>3. CASE StartPing
  BY <1>3 DEF StartPing, Sooner
<1>4. ASSUME NEW e \in (Answers \ {"hung"}) \cup {"timeout"}, FirstPing(e)
      PROVE  DaemonWaitInv'
  BY <1>4 DEF FirstPing
<1>5. ASSUME NEW e \in (Answers \ {"hung"}) \cup {"timeout"}, Ping(e)
      PROVE  DaemonWaitInv'
  <2>1. CASE at' = "failed"
    BY <1>5, <2>1 DEF Ping, WaitFails, FirstPingOver, Answers
  <2>2. CASE at' \in {"ready", "select"}
    BY <1>5, <2>2 DEF Ping, FirstPingOver
  <2> QED
    BY <1>5, <2>1, <2>2 DEF Ping, WaitFails
<1>6. CASE Tick
  BY <1>6 DEF Tick
<1>7. CASE Sysbox
  BY <1>7 DEF Sysbox
<1>8. CASE Dockerd
  BY <1>8 DEF Dockerd
<1> QED
  BY <1>1, <1>2, <1>3, <1>4, <1>5, <1>6, <1>7, <1>8 DEF WaitNext, WaitStep

\* So has every reachable state, whichever certificates and credentials come of it.
LEMMA DaemonWaitInvariant == Spec => []DaemonWaitInv
<1>1. Init => DaemonWaitInv
  BY WaitsAssumption DEF WaitsAssumption, Init, WaitsInit, DaemonWaitInv, GivesUpOnTime
<1>2. LifetimeTypeOK /\ DaemonWaitInv /\ [Next]_vars => DaemonWaitInv'
  <2> SUFFICES ASSUME LifetimeTypeOK, DaemonWaitInv, [Next]_vars PROVE DaemonWaitInv'
    OBVIOUS
  <2>1. CASE Waiting
    BY <2>1, WaitStepsInTime DEF Waiting, LifetimeTypeOK
  <2>2. CASE UNCHANGED waitVars
    BY <2>2 DEF waitVars, DaemonWaitInv, GivesUpOnTime
  <2>3. CASE Restart
    BY <2>3, WaitsAssumption DEF WaitsAssumption, Restart, DaemonWaitInv, GivesUpOnTime
  <2> QED
    BY <2>1, <2>2, <2>3 DEF Next, WriteCertsForRegistry, PullCredentials, vars
<1> QED
  BY <1>1, <1>2, LifetimeTypeCorrect, PTL DEF Spec

\* For any length of the ping's timeout and of the wait's, and however long dockerd
\* hangs, WaitForDaemon fails when its time is over, not later, or of a ping before.
THEOREM DaemonWaitBounded == Spec => []GivesUpOnTime
<1>1. DaemonWaitInv => GivesUpOnTime
  BY DEF DaemonWaitInv
<1> QED
  BY <1>1, DaemonWaitInvariant, PTL

\* The wait for dockerd: what is left of its time, and of its steps until the next tick.
\* A tick that waits in the ticker's channel allows one more ping.
DaemonWaits == at \in {"first", "select", "ping"}
TicksLeft   == Limit - now
PingsDue    == IF tick THEN 2 ELSE 0
StepsLeft   ==
    CASE at = "first"  -> 4
      [] at = "select" -> PingsDue + 1
      [] at = "ping"   -> PingsDue + 2
      [] OTHER         -> 0

LEMMA DaemonWaitStep ==
    ASSUME WaitsTypeOK, DaemonWaits, WaitStep
    PROVE  now' = now /\ StepsLeft' < StepsLeft
<1>1. PingsDue \in {0, 2} /\ (tick' = tick => PingsDue' = PingsDue)
  BY DEF PingsDue
<1>2. CASE GiveUp
  BY <1>1, <1>2 DEF GiveUp, WaitFails, StepsLeft
<1>3. CASE StartPing
  <2>1. tick = TRUE /\ tick' = FALSE
    BY <1>3, Zenon DEF StartPing, WaitsTypeOK
  <2>2. PingsDue = 2 /\ PingsDue' = 0
    BY <2>1 DEF PingsDue
  <2> QED
    BY <1>3, <2>2 DEF StartPing, StepsLeft
<1>4. ASSUME NEW e \in (Answers \ {"hung"}) \cup {"timeout"}, FirstPing(e) \/ Ping(e)
      PROVE  now' = now /\ StepsLeft' < StepsLeft
  <2>1. UNCHANGED <<now, tick>>
    BY <1>4 DEF FirstPing, Ping
  <2>2. \/ at = "first" /\ at' \in {"ready", "select"}
        \/ at = "ping" /\ at' \in {"ready", "select", "failed"}
    BY <1>4 DEF FirstPing, Ping, WaitFails
  <2> QED
    BY <1>1, <2>1, <2>2 DEF StepsLeft
<1> QED
  BY <1>2, <1>3, <1>4 DEF WaitStep, StatManager, DaemonWaits

\* For any timeouts and whatever dockerd does: a step of WaitForDaemon lowers a natural,
\* a tick of its clock lowers another, and nobody else but a restart of the container
\* changes either.  It returns if its goroutine runs and the clock does, after at most
\* Limit ticks and four steps for each.
THEOREM DaemonWaitIsFinite ==
    Spec => /\ [](TicksLeft \in 0..Limit /\ StepsLeft \in 0..4)
            /\ [][DaemonWaits =>
                      /\ WaitStep => TicksLeft' = TicksLeft /\ StepsLeft' < StepsLeft
                      /\ Tick => TicksLeft' < TicksLeft
                      /\ \/ WaitStep \/ Tick \/ Restart
                         \/ UNCHANGED <<at, now, tick>>]_vars
<1>1. LifetimeTypeOK /\ DaemonWaitInv => TicksLeft \in 0..Limit /\ StepsLeft \in 0..4
  <2>1. PingsDue \in {0, 2}
    BY DEF PingsDue
  <2>2. LifetimeTypeOK /\ DaemonWaitInv => now \in 0..Limit /\ Limit \in Nat
    BY WaitsAssumption DEF WaitsAssumption, LifetimeTypeOK, WaitsTypeOK, DaemonWaitInv
  <2> QED
    BY <2>1, <2>2 DEF TicksLeft, StepsLeft
<1>2. LifetimeTypeOK /\ DaemonWaitInv /\ [Next]_vars =>
          [DaemonWaits =>
              /\ WaitStep => TicksLeft' = TicksLeft /\ StepsLeft' < StepsLeft
              /\ Tick => TicksLeft' < TicksLeft
              /\ \/ WaitStep \/ Tick \/ Restart
                 \/ UNCHANGED <<at, now, tick>>]_vars
  <2> SUFFICES ASSUME LifetimeTypeOK, DaemonWaitInv, Next, DaemonWaits
               PROVE  /\ WaitStep => TicksLeft' = TicksLeft /\ StepsLeft' < StepsLeft
                      /\ Tick => TicksLeft' < TicksLeft
                      /\ \/ WaitStep \/ Tick \/ Restart
                         \/ UNCHANGED <<at, now, tick>>
    OBVIOUS
  <2>1. WaitStep => TicksLeft' = TicksLeft /\ StepsLeft' < StepsLeft
    BY DaemonWaitStep DEF LifetimeTypeOK, TicksLeft
  <2>2. Tick => TicksLeft' < TicksLeft
    <3>1. now \in Nat /\ Limit \in Nat
      BY WaitsAssumption DEF WaitsAssumption, LifetimeTypeOK, WaitsTypeOK
    <3> QED
      BY <3>1 DEF Tick, TicksLeft
  <2>3. WaitStep \/ Tick \/ Restart \/ UNCHANGED <<at, now, tick>>
    BY DEF Next, Waiting, WaitNext, Sysbox, Dockerd, WriteCertsForRegistry, PullCredentials,
        DaemonWaits, waitVars
  <2> QED
    BY <2>1, <2>2, <2>3
<1> QED
  BY <1>1, <1>2, LifetimeTypeCorrect, DaemonWaitInvariant, PTL DEF Spec

-----------------------------------------------------------------------------
(* The certificates.                                                       *)

\* In a directory envbox made, and never left in the middle, each certificate is
\* whole, or about to be copied.
CertsInv ==
    /\ writer \in {"stat", "open", "copy"} => origin = "envbox"
    /\ origin = "envbox" /\ ~broken /\ source # "unset" /\ writer # "stat" =>
          /\ source # "missing"
          /\ \A n \in Wanted :
                certs[n] = "whole" \/ (n \in left /\ writer \in {"open", "copy"})

\* The steps of WriteCertsForRegistry.
LEMMA CertStepsInv ==
    ASSUME RegistryTypeOK, CertsInv, CertStep
    PROVE  CertsInv'
<1> USE DEF CertsInv, RegistryTypeOK, Wanted, Names
<1>1. CASE MakeDir
  BY <1>1 DEF MakeDir
<1>2. CASE StatSource
  BY <1>2 DEF StatSource
<1>3. CASE CreateCert
  BY <1>3 DEF CreateCert, IsNext
<1>4. CASE CopyCert
  BY <1>4 DEF CopyCert, IsNext
<1>5. CASE CertsWritten
  BY <1>5 DEF CertsWritten
<1>6. CASE CertsFail
  BY <1>6 DEF CertsFail
<1> QED
  BY <1>1, <1>2, <1>3, <1>4, <1>5, <1>6 DEF CertStep

\* For any number of certificates and of restarts, whichever call fails and whenever
\* the program is killed: certificates are missing only if an earlier run ended
\* between the making of the directory and the last copy.
THEOREM CertsComplete == Spec => []MissingCertsTakeFailure
<1>1. Init => CertsInv
  BY DEF Init, CertsInit, CertsInv
<1>2. LifetimeTypeOK /\ CertsInv /\ [Next]_vars => CertsInv'
  <2> SUFFICES ASSUME LifetimeTypeOK, CertsInv, [Next]_vars PROVE CertsInv'
    OBVIOUS
  <2>1. CASE WriteCertsForRegistry
    BY <2>1, CertStepsInv DEF WriteCertsForRegistry, CertStep, LifetimeTypeOK
  <2>2. CASE UNCHANGED certVars
    BY <2>2 DEF certVars, CertsInv, Wanted
  <2>3. CASE Restart
    BY <2>3 DEF Restart, CertsInv, Wanted, LifetimeTypeOK, RegistryTypeOK
  <2> QED
    BY <2>1, <2>2, <2>3 DEF Next, Waiting, PullCredentials, Authenticate, vars
<1>3. CertsInv => MissingCertsTakeFailure
  BY DEF CertsInv, MissingCertsTakeFailure
<1> QED
  BY <1>1, <1>2, <1>3, LifetimeTypeCorrect, PTL DEF Spec

-----------------------------------------------------------------------------
(* The credentials.                                                        *)

\* A config gives one answer, and another registry's only without an entry of its own.
LEMMA ParseConfigOther ==
    ASSUME NEW cfg \in Secrets, "other" \in parseConfig(cfg)
    PROVE  cfg.own = "none"
BY RegistryAssumption DEF RegistryAssumption, parseConfig

LEMMA ParseConfigSingle ==
    ASSUME NEW cfg, NEW r \in parseConfig(cfg), NEW q \in parseConfig(cfg)
    PROVE  r = q
BY DEF parseConfig

\* The credentials that one start of the program chooses.
LEMMA AuthenticateRight ==
    ASSUME NEW s \in Secrets \cup {NoConfig}, NEW f \in Secrets \cup {NoConfig},
           Authenticate(s, f)
    PROVE  RightCredentials'
<1>1. ASSUME f = NoConfig \/ SecretFails(s), NEW r \in FromSecret(s),
             auth' = [from |-> "secret", for |-> r, secret |-> s, file |-> f]
      PROVE  RightCredentials'
  <2>1. CASE s = NoConfig
    <3>1. FromSecret(s) = {"nobody"}
      BY <2>1 DEF FromSecret
    <3>2. f = NoConfig
      BY <3>1, <1>1 DEF SecretFails
    <3> QED
      BY <3>1, <3>2, <1>1 DEF RightCredentials, Authenticated
  <2>2. CASE s # NoConfig
    <3>1. s \in Secrets /\ r \in parseConfig(s)
      BY <2>2, <1>1 DEF FromSecret
    <3>2. r = "other" => s.own = "none"
      BY <3>1, ParseConfigOther
    <3>3. SecretFails(s) => r \in {"error", "notExist"}
      <4> SUFFICES ASSUME SecretFails(s) PROVE r \in {"error", "notExist"}
        OBVIOUS
      <4>1. PICK q \in parseConfig(s) : q \in {"error", "notExist"}
        BY <2>2 DEF SecretFails, FromSecret
      <4> QED
        BY <4>1, <3>1, ParseConfigSingle
    <3> QED
      BY <3>2, <3>3, <1>1 DEF RightCredentials, Authenticated
  <2> QED
    BY <2>1, <2>2
<1>2. ASSUME f # NoConfig, NEW r \in parseConfig(f) \cup {"notExist"},
             auth' = [from |-> "file", for |-> r, secret |-> s, file |-> f]
      PROVE  RightCredentials'
  <2>1. r = "other" => f.own = "none"
    BY <1>2, ParseConfigOther
  <2> QED
    BY <2>1, <1>2 DEF RightCredentials, Authenticated
<1> QED
  BY <1>1, <1>2 DEF Authenticate

\* For any configs: whose credentials are sent, and from which of the two.
THEOREM CredentialsRight == Spec => []RightCredentials
<1>1. Init => RightCredentials
  BY DEF Init, AuthInit, RightCredentials, Authenticated
<1>2. RightCredentials /\ [Next]_vars => RightCredentials'
  <2> SUFFICES ASSUME RightCredentials, [Next]_vars PROVE RightCredentials'
    OBVIOUS
  <2>1. CASE PullCredentials
    BY <2>1, AuthenticateRight DEF PullCredentials
  <2>2. CASE UNCHANGED auth
    BY <2>2 DEF RightCredentials, Authenticated
  <2>3. CASE Restart
    BY <2>3 DEF Restart, RightCredentials, Authenticated
  <2> QED
    BY <2>1, <2>2, <2>3
    DEF Next, Waiting, WriteCertsForRegistry, MakeDir, StatSource, CreateCert, CopyCert,
        CertsWritten, CertsFail, vars
<1> QED
  BY <1>1, <1>2, PTL DEF Spec
=============================================================================
