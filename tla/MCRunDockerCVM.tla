--------------------------- MODULE MCRunDockerCVM ---------------------------
(***************************************************************************)
(* Lists of mounts and GPU libraries for TLC.                              *)
(***************************************************************************)
EXTENDS RunDockerCVM

Mount(s, d, r) == [src |-> s, dst |-> d, ro |-> r]

\* A home; a read-only directory and a private mountpoint; one source bound
\* twice, once privately; a mountpoint a GPU library will have.
MCExtraMounts ==
    {<<>>,
     <<Mount("/home/coder", "/home/coder", FALSE)>>,
     <<Mount("/data", "/data", TRUE), Mount("/usr/src", "/usr/src", TRUE)>>,
     <<Mount("/data", "/lib/modules", FALSE), Mount("/data", "/data", FALSE)>>,
     <<Mount("/data", "/usr/lib/libnvidia.so", FALSE)>>}

MCHomeDirs == {"/home/coder"}

\* Two host paths that have one mountpoint inside, and one of its own.
MCGPUBinds ==
    LET Lib(p, d) == [path |-> p, mountpoint |-> d, ro |-> TRUE]
    IN  << Lib("/usr/lib/libnvidia.so", "/usr/lib/libnvidia.so"),
           Lib("/host/usr/lib/libnvidia.so", "/usr/lib/libnvidia.so"),
           Lib("/host/usr/lib/libcuda.so", "/usr/lib/libcuda.so") >>
=============================================================================
