--------------------------- MODULE MCTestReports ---------------------------
(* Two boards, one with two long extensions; allowlists that excuse a       *)
(* result for one library, one base or one extension only, and one that     *)
(* excuses another result of the same test.                                 *)
EXTENDS TestReports

RV32 == [arch |-> [base |-> "rv32", chars |-> <<"i", "m">>], abi |-> "ilp32"]
RV64 == [arch |-> [base |-> "rv64", chars |-> <<"g", "_", "z", "b", "_", "z", "c">>],
         abi |-> "lp64d"]

Result(status, more) == [status |-> status, test |-> "gcov-1.C", more |-> more]

RunBoards  == {RV32, RV64}
RunResults == {Result("FAIL", <<"-", "O", "2">>)}
RunLists ==
    [gcc |-> << <<"newlib">>, <<"rv32">> >>   :> {Result("FAIL", << >>)}
          @@ << <<"z", "b">>, <<"lp64d">> >>  :> {Result("FAIL", <<"-", "O">>)}
          @@ << <<"common">> >>               :> {Result("XPASS", << >>)},
     binutils |-> << <<"newlib">> >> :> {Result("FAIL", <<"-", "O", "2">>)}
          @@ << <<"common">> >>      :> {Result("FAIL", << >>)}]

RunSimStamp == [qemu |-> {"qemu"}, qemu_riscv_exp |-> {"qemu"}, gdb |-> {}]

\* The parser of architectures and the list of file names agree with the rule
\* of the allowlists on every string of up to six characters over one of each
\* kind.
ASSUME ParserAgrees ==
    \A cs \in BoundedSeq({"g", "i", "z", "x", "_"}, 6) :
        LET arch == [base |-> "rv64", chars |-> cs]
        IN  /\ Exts(arch) = ReferenceExts(arch)
            /\ WhiteListFiles("newlib", arch, "lp64") = ReferenceFiles("newlib", arch, "lp64")
=============================================================================
