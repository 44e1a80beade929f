----------------------------- MODULE MCHostDeps -----------------------------
(* The libraries of the two scripts, in their order, and the --with-gmp,    *)
(* --with-gmp-prefix and --with-mpfr options of their configure commands.   *)
EXTENDS HostDeps

LibsOfScripts ==
    [host  |-> <<"gmp", "mpfr", "mpc", "isl", "zlib", "expat", "ncurses">>,
     mingw |-> <<"gmp", "mpfr", "mpc", "zlib", "expat", "ncurses">>]

WithOptions ==
    [l \in Lib |-> CASE l = "mpfr" -> {"gmp"}
                     [] l = "mpc"  -> {"gmp", "mpfr"}
                     [] l = "isl"  -> {"gmp"}
                     [] OTHER      -> {}]
=============================================================================
