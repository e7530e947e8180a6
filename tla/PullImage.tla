----------------------------- MODULE PullImage -----------------------------
(***************************************************************************)
(* dockerutil/image.go: PullImage, its retries, and the prune that is to   *)
(* make room for the image.                                                *)
(*                                                                         *)
(* The context of the call is not done before it returns: the only cancel  *)
(* is that of the shutdown goroutine, which starts later (module Envbox).  *)
(***************************************************************************)
EXTENDS Naturals

MaxRetries == 10

\* How a pull may end: the daemon refuses it, or an event carries an error.
PullErrors == {"nospace", "tls", "err"}

VARIABLES
    pull,      \* idle, first, retry or done
    n,         \* rounds of the retry loop
    pruned,
    pullErr,   \* the err all attempts assign
    image      \* dockerd has the inner image

pullVars == <<pull, n, pruned, pullErr, image>>

PullInit ==
    /\ pull = "idle" /\ n = 0 /\ pruned = FALSE /\ pullErr = "nil"
    /\ image \in BOOLEAN              \* from an earlier start of the workspace

PullStart ==
    /\ pull' = "first" /\ n' = 0 /\ pruned' = FALSE /\ pullErr' = "nil"
    /\ UNCHANGED image

\* The first attempt.  A certificate that cannot be verified is final.
PullFirst(e) ==
    /\ pull = "first"
    /\ pullErr' = e
    /\ image' = (image \/ e = "nil")
    /\ pull' = IF e \in {"nil", "tls"} THEN "done" ELSE "retry"
    /\ UNCHANGED <<n, pruned>>

\* Mutant of PullRetry: the rounds are not counted.
PullRetryUncounted(e) ==
    /\ pull = "retry" /\ n < MaxRetries
    /\ pullErr' = e
    /\ image' = (image \/ e = "nil")
    /\ pull' = IF e = "nil" THEN "done" ELSE "retry"
    /\ UNCHANGED <<n, pruned>>

\* Mutant of PullRetry: one round too many.
PullRetryOnceMore(e) ==
    /\ pull = "retry" /\ n <= MaxRetries
    /\ pullErr' = e
    /\ image' = (image \/ e = "nil")
    /\ pull' = IF e \in {"nil", "nospace"} THEN "done" ELSE "retry"
    /\ n' = n + 1
    /\ UNCHANGED pruned

\* A round of the loop.  No space prunes, best effort, and the test that
\* follows, meant for a pull after a prune, ends the loop in the same round.
PullRetry(e) ==
    /\ pull = "retry" /\ n < MaxRetries
    /\ pullErr' = e
    /\ \/ e = "nil" /\ image' = TRUE /\ pull' = "done" /\ UNCHANGED <<n, pruned>>
       \/ /\ e = "nospace"
          /\ image' \in {image, FALSE}
          /\ pruned' = TRUE /\ pull' = "done"
          /\ UNCHANGED n
       \/ e \in {"tls", "err"} /\ n' = n + 1 /\ UNCHANGED <<pull, pruned, image>>

PullGiveUp ==
    /\ pull = "retry" /\ n = MaxRetries
    /\ pull' = "done"
    /\ UNCHANGED <<n, pruned, pullErr, image>>

PullStep ==
    \/ \E e \in PullErrors \cup {"nil"} : PullFirst(e) \/ PullRetry(e)
    \/ PullGiveUp
=============================================================================
