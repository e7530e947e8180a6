------------------------------ MODULE Lifetime ------------------------------
(***************************************************************************)
(* The startup of cli/docker.go over the life of an outer container: the   *)
(* waits for sysbox-mgr and dockerd, the certificates, the credentials;    *)
(* and again, when the program has failed or was killed and the container  *)
(* is restarted with the files it has.                                     *)
(***************************************************************************)
EXTENDS Waits, Registry

CONSTANT MaxRuns   \* starts of the program

ASSUME LifetimeAssumption == MaxRuns \in Nat \ {0}

VARIABLE run

vars == <<run, waitVars, certVars, auth>>

Init == WaitsInit /\ CertsInit /\ AuthInit /\ run = 1

\* WaitForManager and WaitForDaemon are over before the certificates.
Waiting == WaitNext /\ UNCHANGED <<run, certVars, auth>>

WriteCertsForRegistry ==
    /\ at = "ready"
    /\ MakeDir \/ StatSource \/ CreateCert \/ CopyCert \/ CertsWritten \/ CertsFail
    /\ UNCHANGED <<run, waitVars>>

\* The beginning of runDockerCVM.
PullCredentials ==
    /\ at = "ready" /\ writer = "done"
    /\ \E s, f \in Secrets \cup {NoConfig} : Authenticate(s, f)
    /\ UNCHANGED <<run, waitVars>>

\* The program ends, of an error or because it is killed, and the container is
\* restarted.  Processes and positions are new; the registry's directory is as it
\* was.  Meanwhile the user may have mounted the certificates that were missing.
Restart ==
    /\ run < MaxRuns /\ run' = run + 1
    /\ at' = "manager" /\ socket' = "absent" /\ dockerd' = "refused"
    /\ now' = 0 /\ tick' = FALSE /\ pingEnd' = 0 /\ err' = "nil" /\ errAt' = 0
    /\ source' \in {source} \cup (IF source = "missing" THEN {"file", "dir"} ELSE {})
    /\ broken' = (broken \/ writer \in {"stat", "open", "copy"})
    /\ writer' = "off" /\ left' = {} /\ auth' = NoAuth
    /\ UNCHANGED <<certs, origin>>

Next == Waiting \/ WriteCertsForRegistry \/ PullCredentials \/ Restart

Spec == Init /\ [][Next]_vars

\* RunE's goroutine runs and the clock does; sysbox, dockerd and restarts owe nothing.
LiveSpec ==
    /\ Spec
    /\ WF_vars(WaitStep /\ UNCHANGED <<run, certVars, auth>>)
    /\ WF_vars(Tick /\ UNCHANGED <<run, certVars, auth>>)

-----------------------------------------------------------------------------
(* Properties.                                                             *)

LifetimeTypeOK == WaitsTypeOK /\ RegistryTypeOK /\ run \in 1..MaxRuns

\* A dockerd that is there before the time is up is found, however many pings
\* hung or were refused before, unless the program is killed before that.
DaemonFound ==
    \A r \in 1..MaxRuns :
        run = r /\ dockerd = "nil" /\ at \in {"first", "select", "ping"} /\ now + Second < Limit
            ~> at = "ready" \/ run > r
=============================================================================
