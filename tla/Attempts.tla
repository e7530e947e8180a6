------------------------------ MODULE Attempts ------------------------------
(***************************************************************************)
(* What RunE and runDockerCVM promise each other: an attempt at the inner  *)
(* container ends once, there is a second one only after a full disk, and  *)
(* the bootstrap script is fed exactly if the last attempt succeeds.       *)
(*                                                                         *)
(* RunDockerCVM, where an attempt is the calls it makes, implements this   *)
(* specification; so does Envbox, where it is one step among those of the  *)
(* other goroutines.                                                       *)
(***************************************************************************)
EXTENDS Sequences

Outcomes == {"ok", "nospace", "err"}

VARIABLES
    tries,     \* the outcomes of the attempts that have ended
    script,    \* a bootstrap script is configured
    fed        \* it was fed to the inner container

attemptVars == <<tries, script, fed>>

AttemptsInit == tries = <<>> /\ script \in BOOLEAN /\ fed = FALSE

Finish(r) ==
    /\ tries \in {<<>>, <<"nospace">>}
    /\ tries' = Append(tries, r)
    /\ fed' = (r = "ok" /\ script)
    /\ UNCHANGED script

AttemptsNext == \E r \in Outcomes : Finish(r)

AttemptsSpec == AttemptsInit /\ [][AttemptsNext]_attemptVars
=============================================================================
