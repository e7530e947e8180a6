------------------------------- MODULE Waits -------------------------------
(***************************************************************************)
(* sysboxutil/manager.go and dockerutil/daemon.go: how RunE waits for      *)
(* sysbox-mgr, which may take any time, and for dockerd, which may take    *)
(* five minutes.                                                           *)
(*                                                                         *)
(* Time is counted in ticks of WaitForDaemon's ticker.  It passes only     *)
(* while the goroutine has nothing to do but wait: a goroutine that can    *)
(* run is taken to run within the tick.                                    *)
(***************************************************************************)
EXTENDS Naturals

CONSTANTS Second,   \* the timeout of a ping, in ticks
          Limit     \* five minutes

ASSUME WaitsAssumption ==
    /\ Second \in Nat \ {0} /\ Limit \in Nat
    /\ Second < Limit

VARIABLES
    at,        \* position of RunE: manager, first, select, ping, ready, failed
    socket,    \* what stat says of sysbox-mgr's socket: absent, present or odd
    dockerd,   \* how dockerd would answer: refused, other, hung or nil
    now,       \* time since WaitForDaemon began
    tick,      \* the ticker's channel holds a tick
    pingEnd,   \* when the context of the ping under way is done
    err,       \* what the wait that failed returned
    errAt      \* and when

waitVars == <<at, socket, dockerd, now, tick, pingEnd, err, errAt>>

Sooner(a, b) == IF a <= b THEN a ELSE b

WaitsInit ==
    /\ at = "manager" /\ socket = "absent" /\ dockerd = "refused"
    /\ now = 0 /\ tick = FALSE /\ pingEnd = 0 /\ err = "nil" /\ errAt = 0

WaitFails(e) == at' = "failed" /\ err' = e /\ errAt' = now

-----------------------------------------------------------------------------
(* WaitForManager.                                                         *)

\* The stat before the loop and those of the loop: the first ignores an error
\* of any kind, the others one that says the file does not exist.
StatManager ==
    /\ at = "manager"
    /\ \/ /\ socket = "present"
          /\ at' = "first" /\ pingEnd' = Second
          /\ UNCHANGED <<err, errAt>>
       \/ socket = "odd" /\ WaitFails("stat") /\ UNCHANGED pingEnd
    /\ UNCHANGED <<socket, dockerd, now, tick>>

-----------------------------------------------------------------------------
(* WaitForDaemon.                                                          *)

\* A ping returns: with what dockerd answers, or because its context is done.
Returns(e) ==
    \/ dockerd = e /\ now < pingEnd
    \/ e = "timeout" /\ now >= pingEnd

\* Mutant of FirstPing: its error is returned.
FirstPingCounts(e) ==
    /\ at = "first" /\ Returns(e)
    /\ IF e = "nil" THEN at' = "ready" /\ UNCHANGED <<err, errAt>> ELSE WaitFails(e)
    /\ UNCHANGED <<socket, dockerd, now, tick, pingEnd>>

\* The ping before the loop.  Only success counts.
FirstPing(e) ==
    /\ at = "first" /\ Returns(e)
    /\ at' = IF e = "nil" THEN "ready" ELSE "select"
    /\ UNCHANGED <<socket, dockerd, now, tick, pingEnd, err, errAt>>

\* The select: five minutes are over, or it is time for the next ping.  When
\* both are the case, either branch may be taken.
GiveUp ==
    /\ at = "select" /\ now >= Limit
    /\ WaitFails("deadline")
    /\ UNCHANGED <<socket, dockerd, now, tick, pingEnd>>

\* Mutant of StartPing: its context is that of the whole program.
StartPingUnbounded ==
    /\ at = "select" /\ tick
    /\ tick' = FALSE
    /\ at' = "ping" /\ pingEnd' = now + Second
    /\ UNCHANGED <<socket, dockerd, now, err, errAt>>

\* Mutant of StartPing: it shares the context of the first ping.
StartPingShared ==
    /\ at = "select" /\ tick
    /\ tick' = FALSE
    /\ at' = "ping" /\ pingEnd' = Second
    /\ UNCHANGED <<socket, dockerd, now, err, errAt>>

StartPing ==
    /\ at = "select" /\ tick
    /\ tick' = FALSE
    /\ at' = "ping" /\ pingEnd' = Sooner(now + Second, Limit)
    /\ UNCHANGED <<socket, dockerd, now, err, errAt>>

\* Which context the loop asks for, by the name the closure shadows: that of
\* the first ping, so "if its something else, we return it" is so for a second only.
FirstPingOver == now >= Second

\* A ping of the loop.  A refused connection is retried, and so is anything
\* once the context of the first ping is done.
Ping(e) ==
    /\ at = "ping" /\ Returns(e)
    /\ \/ e = "nil" /\ at' = "ready" /\ UNCHANGED <<err, errAt>>
       \/ /\ e # "nil" /\ (e = "refused" \/ FirstPingOver)
          /\ at' = "select" /\ UNCHANGED <<err, errAt>>
       \/ e # "nil" /\ e # "refused" /\ ~FirstPingOver /\ WaitFails(e)
    /\ UNCHANGED <<socket, dockerd, now, tick, pingEnd>>

Answers == {"nil", "refused", "other", "hung"}

WaitStep ==
    \/ StatManager \/ GiveUp \/ StartPing
    \/ \E e \in (Answers \ {"hung"}) \cup {"timeout"} : FirstPing(e) \/ Ping(e)

-----------------------------------------------------------------------------
(* The clock, sysbox and dockerd.                                          *)

\* A quarter of a second, spent in a ping that hangs or in the select.  An answer
\* that is slow is that of a dockerd that hung before.
Tick ==
    /\ \/ at \in {"first", "ping"} /\ dockerd = "hung" /\ now < pingEnd
       \/ at = "select" /\ ~tick /\ now < Limit
    /\ now' = now + 1 /\ tick' = TRUE
    /\ UNCHANGED <<at, socket, dockerd, pingEnd, err, errAt>>

Sysbox ==
    /\ at = "manager" /\ socket = "absent"
    /\ socket' \in {"present", "odd"}
    /\ UNCHANGED <<at, dockerd, now, tick, pingEnd, err, errAt>>

\* dockerd starts up: it may hang or refuse requests, and then is there.
Dockerd ==
    /\ at \in {"first", "select", "ping"} /\ dockerd # "nil"
    /\ dockerd' \in Answers \ {dockerd}
    /\ UNCHANGED <<at, socket, now, tick, pingEnd, err, errAt>>

WaitNext == WaitStep \/ Tick \/ Sysbox \/ Dockerd

-----------------------------------------------------------------------------
(* Properties.                                                             *)

WaitsTypeOK ==
    /\ at \in {"manager", "first", "select", "ping", "ready", "failed"}
    /\ socket \in {"absent", "present", "odd"} /\ dockerd \in Answers
    /\ now \in Nat /\ pingEnd \in Nat /\ errAt \in Nat /\ tick \in BOOLEAN
    /\ err \in {"nil", "stat", "deadline", "timeout", "other"}

\* "It waits a max of 5m before giving up": whatever dockerd does, a request that hangs
\* included, WaitForDaemon does not fail later, and it does not run out of time earlier.
\* Which errors of a ping end the wait before that, it does not say.
GivesUpOnTime ==
    at = "failed" /\ err # "stat" => errAt <= Limit /\ (err = "deadline" => errAt = Limit)
=============================================================================
