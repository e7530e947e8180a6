----------------------------- MODULE MCProcess -----------------------------
(***************************************************************************)
(* Instances of Process: two callers and a restart, so that the goroutine  *)
(* of the replaced process meets the fields of the new one.                *)
(***************************************************************************)
EXTENDS Process

\* What the kernel provides for "d 100": arguments end with NUL.
KernelCmdline == <<"d", "NUL", "1", "0", "0", "NUL">>

\* Besides, a command line equal to binName, which is what New's comment expects
\* there: only then does kill poll more than once.
AnyCmdline == {<<"d">>, KernelCmdline}

OnlyKernel == {KernelCmdline}

Bin == <<"d">>
=============================================================================
