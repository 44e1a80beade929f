---------------------------- MODULE MCSourcePrep ----------------------------
(* The COMPONENTS table of prepare-sources.sh, with its numbers of mirrors. *)
EXTENDS SourcePrep

MCNames == <<"binutils", "gcc", "newlib", "gdb">>

MCMirrors ==
    [n \in {"binutils", "gcc", "newlib", "gdb"} |->
        CASE n = "gcc" -> 1 [] n = "newlib" -> 3 [] OTHER -> 2]
=============================================================================
