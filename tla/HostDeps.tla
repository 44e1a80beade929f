------------------------------ MODULE HostDeps ------------------------------
(***************************************************************************)
(* build/prepare-host-deps.sh and build/prepare-mingw-deps.sh: the         *)
(* libraries the toolchain is linked with are fetched, built and installed *)
(* one after the other into a prefix that later runs find again.  The two  *)
(* scripts differ in how they recognise a prefix that is ready: the first  *)
(* looks for the marker .complete and starts over in an empty prefix       *)
(* without it, the second looks for the library archives in the cross      *)
(* compiler's sysroot, which it cannot empty.                              *)
(*                                                                         *)
(* The versions of the libraries come from the environment of each run;   *)
(* neither script records which ones it installed.                         *)
(*                                                                         *)
(* fetch_source is one step here: module FetchSource shows that it is.     *)
(***************************************************************************)
EXTENDS Naturals, Sequences

CONSTANTS
    LibsOf,       \* LibsOf[s]: the libraries of script s, in its order
    DependsOn,    \* DependsOn[l]: the libraries l is configured with
    Versions      \* the settings of GMP_VER, MPFR_VER, ... that runs are made with

Scripts == {"host", "mingw"}    \* prepare-host-deps.sh, prepare-mingw-deps.sh

Lib == UNION {{LibsOf[s][n] : n \in 1 .. Len(LibsOf[s])} : s \in Scripts}

ASSUME LibsAssumption ==
    /\ DOMAIN LibsOf = Scripts
    /\ \A s \in Scripts : LibsOf[s] \in Seq(Lib) /\ LibsOf[s] # << >>
    /\ DependsOn \in [Lib -> SUBSET Lib]
    /\ {"absent", "torn"} \cap Versions = {}

\* A script prepares a library once, after the libraries it depends on.
ASSUME OrderAssumption ==
    \A s \in Scripts : \A n \in 1 .. Len(LibsOf[s]) :
        /\ \A m \in 1 .. n - 1 : LibsOf[s][m] # LibsOf[s][n]
        /\ DependsOn[LibsOf[s][n]] \subseteq {LibsOf[s][m] : m \in 1 .. n - 1}

Parts == {"archive", "headers"}    \* lib*.a, and everything else

VARIABLES
    script,      \* whose prefix this is
    ver,         \* the versions in the environment of the present run
    installed,   \* installed[l][p]: part p of library l in the prefix: a version,
                 \* "absent" or "torn"
    marker,      \* .complete
    k,           \* the library being prepared
    done,        \* the parts `make install' has finished
    pc,          \* "off", "wipe", "fetch", "build"
    result       \* "none", "ok" (the prefix is printed) or "error"

vars == <<script, ver, installed, marker, k, done, pc, result>>

Nothing == [p \in Parts |-> "absent"]
Entire(v) == [p \in Parts |-> v]

Libs == LibsOf[script]

UsesMarker == script = "host"

TypeOK ==
    /\ script \in Scripts
    /\ ver \in Versions
    /\ installed \in [Lib -> [Parts -> Versions \cup {"absent", "torn"}]]
    /\ marker \in BOOLEAN
    /\ k \in 1 .. Len(Libs) + 1
    /\ done \subseteq Parts
    /\ pc \in {"off", "wipe", "fetch", "build"}
    /\ result \in {"none", "ok", "error"}

Init ==
    /\ script \in Scripts
    /\ ver \in Versions
    /\ installed = [l \in Lib |-> Nothing]
    /\ marker = FALSE
    /\ k = 1 /\ done = {}
    /\ pc = "off" /\ result = "none"

\* Faulty variant: a prefix that holds something is taken for a finished one.
Prepared_NotEmpty == \E n \in 1 .. Len(Libs) : installed[Libs[n]] # Nothing

\* The test at the head of the script.
Prepared ==
    IF UsesMarker THEN marker
                  ELSE \A n \in 1 .. Len(Libs) : installed[Libs[n]]["archive"] # "absent"

Accept ==
    /\ pc = "off" /\ Prepared
    /\ ver' \in Versions
    /\ result' = "ok"
    /\ UNCHANGED <<script, installed, marker, k, done, pc>>

\* Faulty variant: the loop goes on where the last run stopped.
Begin_Resumes ==
    /\ pc = "off" /\ ~Prepared
    /\ ver' \in Versions
    /\ result' = "none"
    /\ done' = {}
    /\ pc' = IF UsesMarker THEN "wipe" ELSE "fetch"
    /\ UNCHANGED <<script, installed, marker, k>>

Begin ==
    /\ pc = "off" /\ ~Prepared
    /\ ver' \in Versions
    /\ result' = "none"
    /\ k' = 1 /\ done' = {}
    /\ pc' = IF UsesMarker THEN "wipe" ELSE "fetch"
    /\ UNCHANGED <<script, installed, marker>>

\* rm -rf "$B" "$PREFIX", file by file, .complete included.
Wipe ==
    /\ pc = "wipe"
    /\ \/ /\ \E l \in Lib : installed[l] # Nothing /\ installed' = [installed EXCEPT ![l] = Nothing]
          /\ UNCHANGED pc
       \/ /\ \A l \in Lib : installed[l] = Nothing
          /\ pc' = "fetch"
          /\ UNCHANGED installed
    /\ marker' = FALSE
    /\ UNCHANGED <<script, ver, k, done, result>>

\* fetch_source, tar, configure, make
Build ==
    /\ pc = "fetch" /\ k <= Len(Libs)
    /\ pc' = "build"
    /\ UNCHANGED <<script, ver, installed, marker, k, done, result>>

\* make install writes one part; an existing file is overwritten.
BeginPart(p) ==
    /\ pc = "build" /\ p \notin done
    /\ installed[Libs[k]][p] # "torn"
    /\ installed' = [installed EXCEPT ![Libs[k]][p] = "torn"]
    /\ UNCHANGED <<script, ver, marker, k, done, pc, result>>

EndPart(p) ==
    /\ pc = "build" /\ p \notin done
    /\ installed[Libs[k]][p] = "torn"
    /\ installed' = [installed EXCEPT ![Libs[k]][p] = ver]
    /\ done' = done \cup {p}
    /\ UNCHANGED <<script, ver, marker, k, pc, result>>

\* Faulty variant: a library is passed over.
NextLib_Twice ==
    /\ pc = "build" /\ done = Parts
    /\ k' = k + 2 /\ done' = {}
    /\ pc' = "fetch"
    /\ UNCHANGED <<script, ver, installed, marker, result>>

NextLib ==
    /\ pc = "build" /\ done = Parts
    /\ k' = k + 1 /\ done' = {}
    /\ pc' = "fetch"
    /\ UNCHANGED <<script, ver, installed, marker, result>>

\* touch .complete, in the script that has it, and the prefix is printed.
Finish ==
    /\ pc = "fetch" /\ k > Len(Libs)
    /\ marker' = UsesMarker
    /\ pc' = "off" /\ result' = "ok"
    /\ UNCHANGED <<script, ver, installed, k, done>>

\* A command fails (set -e), or the script is killed.
Stop ==
    /\ pc # "off"
    /\ pc' = "off" /\ result' = "error"
    /\ UNCHANGED <<script, ver, installed, marker, k, done>>

Next ==
    \/ Accept \/ Begin \/ Wipe \/ Build
    \/ \E p \in Parts : BeginPart(p) \/ EndPart(p)
    \/ NextLib \/ Finish \/ Stop

Spec == Init /\ [][Next]_vars

-----------------------------------------------------------------------------
(* Properties                                                              *)

\* prepare-host-deps.sh prints its prefix only when every library in it is
\* whole and all were built with the versions of one run, however many earlier
\* runs, with these or other versions, failed or were killed in an installation.
PrintedIsWhole ==
    (result = "ok" /\ UsesMarker) =>
        \E v \in Versions : \A n \in 1 .. Len(Libs) : installed[Libs[n]] = Entire(v)

\* prepare-mingw-deps.sh, which looks for the archives only and never empties
\* the sysroot, owes to the order of its libraries that nothing but the last
\* of them can be unfinished when it prints the sysroot, and that the others
\* are never of two runs.
OnlyLastUnfinished ==
    result = "ok" =>
        \E v \in Versions : \A n \in 1 .. Len(Libs) - 1 : installed[Libs[n]] = Entire(v)

\* A library is configured and built only against whole libraries of the
\* versions of the same run, what an interrupted run left never among them.
BuildsOnWhole ==
    pc = "build" => \A l \in DependsOn[Libs[k]] : installed[l] = Entire(ver)
=============================================================================
