-------------------------- MODULE ToolchainGraphs ---------------------------
(***************************************************************************)
(* The toolchains of Makefile.in as tables of rules: for every stamp its   *)
(* prerequisites, the source directories among them, the components its    *)
(* recipe writes and the ones its commands run, link or copy.              *)
(***************************************************************************)
EXTENDS Naturals, TLC

\* how \subseteq {"keeps", "downloads", "locks"}: the recipe does not begin
\* with rm -rf $@; runs contrib/download_prerequisites first; installs under
\* flock $(SYSROOT)/.lock.
Rule(deps, src, writes, uses, how) ==
    [deps |-> deps, src |-> src, writes |-> writes, uses |-> uses, how |-> how]

-----------------------------------------------------------------------------
(* From a table of rules to the parameters of StampBuild                   *)

DepsOf(R)   == [t \in DOMAIN R |-> R[t].deps]
SrcOf(R)    == [t \in DOMAIN R |-> R[t].src]
WritesOf(R) == [t \in DOMAIN R |-> R[t].writes]
UsesOf(R)   == [t \in DOMAIN R |-> R[t].uses]
With(R, h)  == {t \in DOMAIN R : h \in R[t].how}

SourcesOf(R)    == UNION {R[t].src : t \in DOMAIN R}
ComponentsOf(R) == UNION {R[t].writes : t \in DOMAIN R}

\* Everything a target depends on, directly or not.
AncOf(R) ==
    LET anc[t \in DOMAIN R] == R[t].deps \cup UNION {anc[d] : d \in R[t].deps}
    IN  anc

\* The targets a product is made from: those before it that write what it uses.
ReadsOf(R) ==
    LET anc == AncOf(R)
    IN  [t \in DOMAIN R |-> {a \in anc[t] : R[a].writes \cap R[t].uses # {}}]

\* In $(builddir), not in the prefix: install-newlib-nano, install-host-gcc.
LocalOf(R) == ComponentsOf(R) \cap {"nano-prefix", "host-gcc"}

\* merge: `for ml in `gcc --print-multi-lib`' loops over nothing when gcc
\* fails, and the copy of newlib.h is followed by `;' without set -e.
\* LLVM_BUILD_OPENMP: one if-statement of commands joined by `;', whose status
\* is that of the last, the install of the static library.
MaskedLossOf(R) ==
    [t \in DOMAIN R |->
        CASE t = "merge" -> {{"nano-libs", "crt0"}, {"nano-header"},
                             {"nano-libs", "crt0", "nano-header"}}
          [] "openmp-shared" \in R[t].writes -> {{"openmp-shared"}}
          [] OTHER -> {}]

-----------------------------------------------------------------------------
(* What several toolchains have in common                                  *)

Preparation == "check-write-permission" :> Rule({}, {}, {}, {}, {"keeps"})

Binutils == "binutils" :> Rule({"check-write-permission"}, {"BINUTILS_SRCDIR"}, {"binutils"}, {}, {})

Gdb == "gdb" :> Rule({"check-write-permission"}, {"GDB_SRCDIR"}, {"gdb"}, {}, {})

\* cp -a linux-headers/include $(SYSROOT)/usr/
LinuxHeaders == "linux-headers" :> Rule({}, {}, {"kernel-headers"}, {}, {"keeps"})

\* Stage 1 of the toolchains for Linux.
LinuxStage1 ==
    "stage1" :> Rule({"binutils", "linux-headers"}, {"GCC_SRCDIR"}, {"gcc"},
                     {"binutils", "kernel-headers"}, {"downloads"})

\* clang and its run-time libraries, the latter compiled by the new clang
\* with gcc's libraries and the C library in the sysroot.
LinuxLlvm(libc) ==
    "llvm" :> Rule({"stage2"}, {"LLVM_SRCDIR", "BINUTILS_SRCDIR"},
                   {"llvm", "sysroot-gcc-link", "openmp-shared", "openmp-static", "libc++"},
                   {"gcc", "target-libs", "kernel-headers"} \cup libc, {})

-----------------------------------------------------------------------------
(* make newlib.  gcc is built by the host's compiler, its target libraries *)
(* by the gcc in its own build directory; the C libraries are compiled,    *)
(* and the multilibs to merge listed, by the gcc installed in the prefix.  *)

NewlibRules ==
    Preparation @@ Binutils @@ Gdb @@
    "stage1" :> Rule({"binutils"}, {"GCC_SRCDIR"}, {"gcc"}, {"binutils"}, {"downloads"}) @@
    "newlib" :> Rule({"stage1"}, {"NEWLIB_SRCDIR"}, {"libc", "crt0"}, {"binutils", "gcc"}, {}) @@
    "newlib-nano" :> Rule({"stage1"}, {"NEWLIB_SRCDIR"}, {"nano-prefix"}, {"binutils", "gcc"}, {}) @@
    "merge"  :> Rule({"newlib-nano", "newlib"}, {}, {"nano-libs", "crt0", "nano-header"},
                     {"gcc", "nano-prefix"}, {"keeps"}) @@
    "stage2" :> Rule({"newlib", "merge"}, {"GCC_SRCDIR"}, {"gcc", "target-libs"},
                     {"binutils", "libc", "crt0"}, {})

\* build-sim with any simulator, the test driver and LLVM on top of newlib.
SimRules ==
    NewlibRules @@
    "spike"   :> Rule({"check-write-permission"}, {"SPIKE_SRCDIR"}, {"spike"}, {}, {}) @@
    "pk32"    :> Rule({"stage2"}, {"PK_SRCDIR"}, {"pk32"}, {"binutils", "gcc", "libc", "target-libs"}, {}) @@
    "pk64"    :> Rule({"stage2"}, {"PK_SRCDIR"}, {"pk64"}, {"binutils", "gcc", "libc", "target-libs"}, {}) @@
    "qemu"    :> Rule({"check-write-permission"}, {"QEMU_SRCDIR"}, {"qemu"}, {}, {}) @@
    "dejagnu" :> Rule({"check-write-permission"}, {"DEJAGNU_SRCDIR"}, {"dejagnu"}, {}, {}) @@
    "llvm"    :> Rule({"stage2"}, {"LLVM_SRCDIR", "BINUTILS_SRCDIR"}, {"llvm"}, {}, {})

\* --enable-host-gcc: everything is compiled by a gcc built first, from the
\* same source directory.
HostGccRules ==
    "host-gcc" :> Rule({}, {"GCC_SRCDIR"}, {"host-gcc"}, {}, {"downloads"}) @@
    [t \in DOMAIN NewlibRules |->
        [NewlibRules[t] EXCEPT
            !.deps = IF t \in {"binutils", "gdb"} THEN @ \cup {"host-gcc"} ELSE @,
            !.uses = IF t \in {"binutils", "gdb", "stage1", "stage2"} THEN @ \cup {"host-gcc"} ELSE @]]

-----------------------------------------------------------------------------
(* make linux: SYSROOT/usr/include is filled by the headers target and     *)
(* again, as part of the C library, by every multilib, under the lock.     *)

GlibcRules(multilibs) ==
    [t \in multilibs |->
        Rule({"stage1"}, {"GLIBC_SRCDIR"}, {"sysroot-headers", t},
             {"binutils", "gcc", "kernel-headers"}, {"locks"})]

LinuxRules(multilibs) ==
    Preparation @@ LinuxHeaders @@ Binutils @@ LinuxStage1 @@ GlibcRules(multilibs) @@
    "glibc-headers" :> Rule({"stage1"}, {"GLIBC_SRCDIR"}, {"sysroot-headers"},
                            {"binutils", "gcc", "kernel-headers"}, {}) @@
    "stage2" :> Rule(multilibs \cup {"glibc-headers"}, {"GCC_SRCDIR"},
                     {"gcc", "target-libs", "sysroot-target-libs"},
                     {"binutils", "kernel-headers", "sysroot-headers"} \cup multilibs, {})

\* With gdb and LLVM, which excludes multilibs.
LinuxLlvmRules == LinuxRules({"glibc"}) @@ Gdb @@ LinuxLlvm({"glibc", "sysroot-headers"})

\* make linux-native: binutils and gcc that run on RISC-V, compiled by the
\* cross compiler; gcc's recipe copies its libraries into the sysroot again.
NativeRules ==
    LET tools == {"binutils", "gcc", "target-libs", "kernel-headers", "sysroot-headers", "glibc"}
    IN  LinuxRules({"glibc"}) @@
        "binutils-native" :> Rule({"stage2", "check-write-permission"}, {"BINUTILS_SRCDIR"},
                                  {"native-binutils"}, tools, {}) @@
        "gcc-native" :> Rule({"stage2", "binutils-native"}, {"GCC_SRCDIR"},
                             {"native-gcc", "sysroot-target-libs"}, tools, {"downloads"})

-----------------------------------------------------------------------------
(* make musl, make uclibc                                                  *)

MuslRules ==
    Preparation @@ LinuxHeaders @@ Binutils @@ Gdb @@ LinuxStage1 @@
    "musl-headers" :> Rule({"stage1"}, {"MUSL_SRCDIR"}, {"usr-headers"}, {"binutils", "gcc"}, {}) @@
    "musl"   :> Rule({"stage1"}, {"MUSL_SRCDIR"}, {"musl-libc"}, {"binutils", "gcc"}, {"locks"}) @@
    "stage2" :> Rule({"musl", "musl-headers"}, {"GCC_SRCDIR"},
                     {"gcc", "target-libs", "sysroot-target-libs"},
                     {"binutils", "kernel-headers", "usr-headers", "musl-libc"}, {}) @@
    LinuxLlvm({"usr-headers", "musl-libc"})

UclibcRules ==
    Preparation @@ LinuxHeaders @@ Binutils @@ LinuxStage1 @@
    "uclibc" :> Rule({"stage1"}, {"UCLIBC_SRCDIR"}, {"uclibc-libc"}, {"binutils", "gcc"}, {}) @@
    "stage2" :> Rule({"uclibc"}, {"GCC_SRCDIR"}, {"gcc", "target-libs", "sysroot-target-libs"},
                     {"binutils", "kernel-headers", "uclibc-libc"}, {})

=============================================================================
