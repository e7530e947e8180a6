------------------------------- MODULE MCGPU -------------------------------
(***************************************************************************)
(* Paths for TLC.  Beside the mount "drv" are three links d1, d2, d3;      *)
(* below usrLibDir a GPU mount "lib", two libraries a and b and another    *)
(* path x; o1, o2 and a device are elsewhere.                              *)
(***************************************************************************)
EXTENDS GPU

Drv == {"drv", "d1", "d2", "d3"}
Lib == {"lib", "a", "b", "x"}
Out == {"dev", "o1", "o2"}

MCPaths == Drv \cup Lib \cup Out
MCDir == [p \in MCPaths |-> IF p \in Drv THEN "nvidia" ELSE IF p \in Lib THEN "usrlib" ELSE "etc"]

Base == [p \in MCPaths |-> CASE p = "d1" -> "drv" [] p = "a" -> "lib" [] p = "o2" -> "o1" [] OTHER -> File]

MCFileSystems ==
    {[Base EXCEPT !["d1"] = t[1], !["d2"] = t[2], !["d3"] = t[3]] :
        t \in {"drv", "d2"} \X {"drv", "d1", "d3", Gone} \X {"drv", "d1", "d2", File}}
    \cup {[Base EXCEPT !["a"] = t[1], !["b"] = t[2], !["x"] = t[3], !["o1"] = t[4]] :
        t \in {"lib", "b", "x", "o1"} \X {"a", "x", "o1", Gone, File} \X {"a", "o1", Gone} \X {"o2", "b"}}

\* Below /proc: a driver mount with another one below it, and one with a mount
\* below it that is none of a driver.
MCProcMounts == {"driver", "driver/gpus/0", "nvidia", "nvidia/fs"}
MCAbove == {<<"driver/gpus/0", "driver">>, <<"nvidia/fs", "nvidia">>}
MCDepth == [m \in MCProcMounts |-> CASE m = "driver/gpus/0" -> 3 [] m = "nvidia/fs" -> 2 [] OTHER -> 1]
=============================================================================
