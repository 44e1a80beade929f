--------------------------- MODULE HostDepsProofs ---------------------------
(***************************************************************************)
(* For any list of libraries in an order that respects their dependencies, *)
(* any versions and any number of failed or killed runs: what the two      *)
(* scripts print, and that a library is built against whole libraries of   *)
(* its own run.                                                            *)
(***************************************************************************)
EXTENDS HostDeps, TLAPS

InRun == pc \in {"fetch", "build"}

\* What the run has passed is whole and of its versions, and so are the
\* parts of the present library that it has finished.
RunInv ==
    /\ InRun => \A n \in 1 .. k - 1 : installed[Libs[n]] = Entire(ver)
    /\ pc = "build" => k <= Len(Libs) /\ \A p \in done : installed[Libs[k]][p] = ver
    /\ pc \in {"wipe", "fetch"} => done = {}
    /\ pc = "wipe" => UsesMarker /\ k = 1
    /\ result = "ok" => pc = "off"

\* The marker is there only while no run is, over libraries of one run.
MarkerInv ==
    /\ marker => /\ pc = "off" /\ UsesMarker
                 /\ \E v \in Versions : \A n \in 1 .. Len(Libs) : installed[Libs[n]] = Entire(v)
    /\ (result = "ok" /\ UsesMarker) => marker

LastStarted == installed[Libs[Len(Libs)]]["archive"] # "absent"

OthersWhole == \E v \in Versions : \A n \in 1 .. Len(Libs) - 1 : installed[Libs[n]] = Entire(v)

\* In the sysroot, the archive of the last library appears when the others
\* are whole, and then no further run begins.
SysrootInv ==
    ~UsesMarker => /\ LastStarted => OthersWhole
                   /\ (InRun /\ k < Len(Libs)) => ~LastStarted
                   /\ result = "ok" => OthersWhole

\* The inductive invariant.
DepsInv == TypeOK /\ RunInv /\ MarkerInv /\ SysrootInv

-----------------------------------------------------------------------------

\* Facts about the present script's list.
LEMMA ListFacts ==
  ASSUME script \in Scripts
  PROVE  /\ Len(Libs) \in Nat \ {0}
         /\ \A n \in 1 .. Len(Libs) : Libs[n] \in Lib
         /\ \A n \in 1 .. Len(Libs) : \A m \in 1 .. n - 1 : Libs[m] # Libs[n]
         /\ \A n \in 1 .. Len(Libs) : DependsOn[Libs[n]] \subseteq {Libs[m] : m \in 1 .. n - 1}
<1>1. Libs \in Seq(Lib) /\ Libs # << >>
  BY LibsAssumption DEF Libs
<1>2. Len(Libs) \in Nat \ {0} /\ \A n \in 1 .. Len(Libs) : Libs[n] \in Lib
  BY <1>1
<1>3. QED BY <1>2, OrderAssumption DEF Libs

\* An empty prefix.
LEMMA InitDeps == Init => DepsInv
<1> SUFFICES ASSUME Init PROVE DepsInv
  OBVIOUS
<1>1. script \in Scripts /\ ver \in Versions /\ k = 1 /\ done = {} /\ pc = "off" /\ result = "none"
  BY DEF Init
<1>2. Len(Libs) \in Nat \ {0} /\ \A n \in 1 .. Len(Libs) : Libs[n] \in Lib
  BY <1>1, ListFacts
<1>3. ~marker /\ marker \in BOOLEAN
  BY Zenon DEF Init
<1>4. /\ installed \in [Lib -> [Parts -> Versions \cup {"absent", "torn"}]]
      /\ \A l \in Lib : installed[l]["archive"] = "absent"
  BY DEF Init, Nothing, Parts
<1>5. TypeOK
  BY <1>1, <1>2, <1>3, <1>4 DEF TypeOK
<1>6. ~LastStarted
  BY <1>2, <1>4 DEF LastStarted
<1>7. QED BY <1>1, <1>3, <1>5, <1>6 DEF DepsInv, RunInv, MarkerInv, SysrootInv, InRun

\* Every step keeps the types.
LEMMA TypeStep == TypeOK /\ RunInv /\ [Next]_vars => TypeOK'
<1> SUFFICES ASSUME TypeOK, RunInv, [Next]_vars PROVE TypeOK'
  OBVIOUS
<1> USE DEF TypeOK
<1>1. script' = script /\ Libs' = Libs /\ Len(Libs) \in Nat
  BY ListFacts DEF Next, vars, Accept, Begin, Wipe, Build, BeginPart, EndPart, NextLib, Finish,
                   Stop, Libs
<1>2. marker' \in BOOLEAN
  <2>1. marker' = marker \/ marker' = FALSE \/ marker' = UsesMarker
    BY DEF Next, vars, Accept, Begin, Wipe, Build, BeginPart, EndPart, NextLib, Finish, Stop
  <2>2. QED BY <2>1 DEF UsesMarker
<1>3. installed' \in [Lib -> [Parts -> Versions \cup {"absent", "torn"}]]
  <2>1. CASE Wipe
    BY <2>1 DEF Wipe, Nothing
  <2>2. CASE \E p \in Parts : BeginPart(p) \/ EndPart(p)
    <3>1. \E l \in Lib, p \in Parts, x \in {"torn", ver} : installed' = [installed EXCEPT ![l][p] = x]
      BY <2>2, ListFacts DEF BeginPart, EndPart, RunInv
    <3>2. QED BY <3>1
  <2>3. CASE installed' = installed
    BY <2>3
  <2>4. QED BY <2>1, <2>2, <2>3 DEF Next, vars, Accept, Begin, Build, NextLib, Finish, Stop
<1>4. k' \in 1 .. Len(Libs') + 1
  <2>1. k' = k \/ k' = 1 \/ (k <= Len(Libs) /\ k' = k + 1)
    BY DEF Next, vars, Accept, Begin, Wipe, Build, BeginPart, EndPart, NextLib, Finish, Stop, RunInv
  <2>2. QED BY <1>1, <2>1
<1>5. /\ ver' \in Versions /\ done' \subseteq Parts
      /\ pc' \in {"off", "wipe", "fetch", "build"} /\ result' \in {"none", "ok", "error"}
  BY DEF Next, vars, Accept, Begin, Wipe, Build, BeginPart, EndPart, NextLib, Finish, Stop
<1>6. QED BY <1>1, <1>2, <1>3, <1>4, <1>5

\* make install changes nothing but the part it writes of the present library.
LEMMA PartFacts ==
  ASSUME TypeOK, RunInv, NEW p \in Parts, BeginPart(p) \/ EndPart(p)
  PROVE  /\ pc = "build" /\ p \notin done /\ k \in 1 .. Len(Libs)
         /\ UNCHANGED <<script, ver, marker, k, pc, result>> /\ Libs' = Libs
         /\ \A n \in 1 .. Len(Libs) : n # k => installed'[Libs[n]] = installed[Libs[n]]
         /\ \A q \in Parts : q # p => installed'[Libs[k]][q] = installed[Libs[k]][q]
         /\ EndPart(p) => installed'[Libs[k]][p] = ver /\ done' = done \cup {p}
         /\ BeginPart(p) => done' = done
<1> USE DEF TypeOK
<1>1. /\ pc = "build" /\ p \notin done /\ UNCHANGED <<script, ver, marker, k, pc, result>>
      /\ Libs' = Libs
  BY DEF BeginPart, EndPart, Libs
<1>2. k \in 1 .. Len(Libs) /\ Len(Libs) \in Nat
  BY <1>1, ListFacts DEF RunInv
<1>3. PICK x \in {"torn", ver} : /\ installed' = [installed EXCEPT ![Libs[k]][p] = x]
                                 /\ EndPart(p) => x = ver
  BY DEF BeginPart, EndPart
<1>4. \A n \in 1 .. Len(Libs) : n # k => Libs[n] # Libs[k] /\ Libs[n] \in Lib
  <2> SUFFICES ASSUME NEW n \in 1 .. Len(Libs), n # k PROVE Libs[n] # Libs[k] /\ Libs[n] \in Lib
    OBVIOUS
  <2>1. n \in 1 .. k - 1 \/ k \in 1 .. n - 1
    BY <1>2
  <2>2. QED BY <1>2, <2>1, ListFacts
<1>5. Libs[k] \in Lib
  BY <1>2, ListFacts
<1>6. \A n \in 1 .. Len(Libs) : n # k => installed'[Libs[n]] = installed[Libs[n]]
  BY <1>3, <1>4
<1>7. /\ \A q \in Parts : q # p => installed'[Libs[k]][q] = installed[Libs[k]][q]
      /\ installed'[Libs[k]][p] = x
  BY <1>3, <1>5
<1>8. QED BY <1>1, <1>2, <1>3, <1>6, <1>7 DEF BeginPart, EndPart

\* The run: passed libraries stay whole.
LEMMA RunStep == TypeOK /\ RunInv /\ [Next]_vars => RunInv'
<1> SUFFICES ASSUME TypeOK, RunInv, [Next]_vars PROVE RunInv'
  OBVIOUS
<1> USE DEF RunInv, InRun
<1>1. Len(Libs) \in Nat \ {0} /\ k \in 1 .. Len(Libs) + 1
  BY ListFacts DEF TypeOK
<1>2. CASE Accept \/ Finish \/ Stop
  <2>1. pc' = "off"
    BY <1>2 DEF Accept, Finish, Stop
  <2>2. QED BY <2>1
<1>3. CASE Begin
  BY <1>3 DEF Begin, UsesMarker
<1>4. CASE Wipe
  BY <1>4 DEF Wipe, UsesMarker
<1>5. CASE Build
  <2>1. pc' = "build" /\ pc = "fetch" /\ UNCHANGED <<ver, installed, k, done, result>> /\ Libs' = Libs
        /\ k <= Len(Libs) /\ done = {}
    BY <1>5 DEF Build, Libs
  <2>2. QED BY <2>1 DEF Entire
<1>6. ASSUME NEW p \in Parts, BeginPart(p) \/ EndPart(p) PROVE RunInv'
  <2> USE <1>6, PartFacts
  <2>1. \A n \in 1 .. k' - 1 : installed'[Libs'[n]] = Entire(ver')
    BY <1>1 DEF Entire
  <2>2. \A q \in done' : installed'[Libs'[k']][q] = ver'
    BY DEF TypeOK
  <2>3. QED BY <2>1, <2>2
<1>7. CASE NextLib
  <2>1. /\ pc = "build" /\ pc' = "fetch" /\ k' = k + 1 /\ done = Parts /\ done' = {}
        /\ UNCHANGED <<script, ver, installed, result>> /\ Libs' = Libs
    BY <1>7 DEF NextLib, Libs
  <2>2. installed[Libs[k]] = Entire(ver)
    <3>1. Libs[k] \in Lib
      BY <1>1, <2>1, ListFacts DEF TypeOK
    <3>2. installed[Libs[k]] \in [Parts -> Versions \cup {"absent", "torn"}]
      BY <3>1 DEF TypeOK
    <3>3. QED BY <2>1, <3>2 DEF Entire
  <2>3. \A n \in 1 .. k' - 1 : n \in 1 .. k - 1 \/ n = k
    BY <1>1, <2>1
  <2>4. \A n \in 1 .. k' - 1 : installed'[Libs'[n]] = Entire(ver)
    BY <2>1, <2>2, <2>3
  <2>5. ver' = ver
    BY <2>1
  <2>6. QED BY <2>1, <2>4, <2>5
<1>8. CASE UNCHANGED vars
  BY <1>8 DEF vars, Libs, UsesMarker, Entire
<1>9. QED BY <1>2, <1>3, <1>4, <1>5, <1>6, <1>7, <1>8 DEF Next

\* The marker is made over whole libraries and no run begins over it.
LEMMA MarkerStep == TypeOK /\ RunInv /\ MarkerInv /\ [Next]_vars => MarkerInv'
<1> SUFFICES ASSUME TypeOK, RunInv, MarkerInv, [Next]_vars PROVE MarkerInv'
  OBVIOUS
<1> USE DEF MarkerInv
<1>0. UsesMarker' = UsesMarker /\ Libs' = Libs
  BY DEF Next, vars, Accept, Begin, Wipe, Build, BeginPart, EndPart, NextLib, Finish, Stop,
         UsesMarker, Libs
<1>1. CASE Accept
  <2>1. UNCHANGED <<installed, marker, pc>> /\ (UsesMarker => marker)
    BY <1>1 DEF Accept, Prepared
  <2>2. QED BY <1>0, <2>1 DEF Entire
<1>2. CASE Finish
  <2>1. /\ pc = "fetch" /\ pc' = "off" /\ k > Len(Libs) /\ marker' = UsesMarker
        /\ installed' = installed /\ ver \in Versions
    BY <1>2 DEF Finish, TypeOK
  <2>2. \A n \in 1 .. Len(Libs) : installed[Libs[n]] = Entire(ver)
    <3>1. \A n \in 1 .. Len(Libs) : n \in 1 .. k - 1
      BY <2>1, ListFacts DEF TypeOK
    <3>2. QED BY <2>1, <3>1 DEF RunInv, InRun
  <2>3. QED BY <1>0, <2>1, <2>2 DEF Entire
<1>3. CASE Begin
  <2>1. ~marker
    BY <1>3 DEF Begin, Prepared
  <2>2. marker' = marker /\ result' = "none"
    BY <1>3 DEF Begin
  <2>3. QED BY <2>1, <2>2
<1>4. CASE Wipe \/ Build \/ NextLib \/ Stop \/ \E p \in Parts : BeginPart(p) \/ EndPart(p)
  <2>1. pc # "off" /\ (marker' = marker \/ marker' = FALSE) /\ (result' = result \/ result' = "error")
    BY <1>4 DEF Wipe, Build, NextLib, Stop, BeginPart, EndPart
  <2>2. ~marker' /\ result' # "ok"
    BY <2>1 DEF RunInv
  <2>3. QED BY <2>2
<1>5. CASE UNCHANGED vars
  BY <1>0, <1>5 DEF vars, Entire
<1>6. QED BY <1>1, <1>2, <1>3, <1>4, <1>5 DEF Next

\* The sysroot: while the archive of the last library is missing runs begin
\* anew, and once it is there none does.
LEMMA SysrootStep == DepsInv /\ [Next]_vars => SysrootInv'
<1> SUFFICES ASSUME DepsInv, [Next]_vars PROVE SysrootInv'
  OBVIOUS
<1> SUFFICES ASSUME ~UsesMarker
             PROVE  /\ (LastStarted => OthersWhole)'
                    /\ ((InRun /\ k < Len(Libs)) => ~LastStarted)'
                    /\ (result = "ok" => OthersWhole)'
  <2>1. UsesMarker' = UsesMarker
    BY DEF Next, vars, Accept, Begin, Wipe, Build, BeginPart, EndPart, NextLib, Finish, Stop,
           UsesMarker
  <2>2. QED BY <2>1 DEF SysrootInv
<1> USE DEF DepsInv
<1>0. /\ Libs' = Libs /\ Len(Libs) \in Nat \ {0} /\ k \in 1 .. Len(Libs) + 1
      /\ \A n \in 1 .. Len(Libs) : Libs[n] \in Lib
  BY ListFacts DEF TypeOK, Next, vars, Accept, Begin, Wipe, Build, BeginPart, EndPart, NextLib,
         Finish, Stop, Libs
<1>1. /\ LastStarted => OthersWhole
      /\ (InRun /\ k < Len(Libs)) => ~LastStarted
      /\ result = "ok" => OthersWhole
  BY DEF SysrootInv
<1>a. ASSUME installed' = installed PROVE LastStarted' = LastStarted /\ OthersWhole' = OthersWhole
  BY <1>0, <1>a DEF LastStarted, OthersWhole, Entire
<1>2. CASE Accept
  <2>1. installed' = installed /\ ~InRun' /\ LastStarted
    BY <1>0, <1>2 DEF Accept, Prepared, LastStarted, InRun
  <2>2. QED BY <1>1, <1>a, <2>1
<1>3. CASE Begin
  <2>1. installed' = installed /\ result' = "none"
    BY <1>3 DEF Begin
  <2>2. PICK n \in 1 .. Len(Libs) : installed[Libs[n]]["archive"] = "absent"
    BY <1>3 DEF Begin, Prepared
  <2>3. ASSUME LastStarted PROVE FALSE
    <3>1. PICK v \in Versions : \A m \in 1 .. Len(Libs) - 1 : installed[Libs[m]] = Entire(v)
      BY <1>1, <2>3 DEF OthersWhole
    <3>2. n \in 1 .. Len(Libs) - 1
      BY <1>0, <2>2, <2>3 DEF LastStarted
    <3>3. installed[Libs[n]]["archive"] = v
      BY <3>1, <3>2 DEF Entire, Parts
    <3>4. QED BY <2>2, <3>3, LibsAssumption
  <2>4. QED BY <1>a, <2>1, <2>3
<1>4. CASE Wipe
  BY <1>4 DEF Wipe, RunInv
<1>5. ASSUME NEW p \in Parts, BeginPart(p) \/ EndPart(p)
      PROVE  /\ (LastStarted => OthersWhole)'
             /\ ((InRun /\ k < Len(Libs)) => ~LastStarted)'
             /\ (result = "ok" => OthersWhole)'
  <2>1. /\ pc = "build" /\ k \in 1 .. Len(Libs)
        /\ UNCHANGED <<k, pc, result>>
        /\ \A n \in 1 .. Len(Libs) : n # k => installed'[Libs[n]] = installed[Libs[n]]
    BY <1>5, PartFacts
  <2>2. result' # "ok"
    BY <2>1 DEF RunInv
  <2>3. CASE k < Len(Libs)
    <3>1. installed'[Libs[Len(Libs)]] = installed[Libs[Len(Libs)]]
      BY <1>0, <2>1, <2>3
    <3>2. ~LastStarted'
      BY <1>0, <1>1, <2>1, <2>3, <3>1 DEF LastStarted, InRun
    <3>3. QED BY <2>2, <3>2
  <2>4. CASE k = Len(Libs)
    <3>1. \A n \in 1 .. Len(Libs) - 1 : installed'[Libs[n]] = Entire(ver)
      BY <1>0, <2>1, <2>4 DEF RunInv, InRun
    <3>2. OthersWhole'
      <4>1. ver \in Versions
        BY DEF TypeOK
      <4>2. QED BY <1>0, <3>1, <4>1 DEF OthersWhole, Entire
    <3>3. ~(k < Len(Libs))'
      BY <1>0, <2>1, <2>4
    <3>4. QED BY <3>2, <3>3
  <2>5. QED BY <1>0, <2>1, <2>3, <2>4
<1>6. CASE Finish
  <2>1. pc = "fetch" /\ pc' = "off" /\ k > Len(Libs) /\ installed' = installed /\ ver \in Versions
    BY <1>6 DEF Finish, TypeOK
  <2>2. \A n \in 1 .. Len(Libs) - 1 : n \in 1 .. k - 1
    BY <1>0, <2>1
  <2>3. OthersWhole
    BY <2>1, <2>2 DEF RunInv, InRun, OthersWhole
  <2>4. QED BY <1>a, <2>1, <2>3 DEF InRun
<1>7. CASE Build \/ NextLib \/ Stop
  <2>1. /\ installed' = installed /\ result' # "ok"
        /\ InRun' => InRun /\ k' \in {k, k + 1}
    BY <1>7 DEF Build, NextLib, Stop, RunInv, InRun
  <2>2. (InRun /\ k < Len(Libs))' => k < Len(Libs)
    BY <1>0, <2>1
  <2>3. QED BY <1>1, <1>a, <2>1, <2>2
<1>8. CASE UNCHANGED vars
  BY <1>0, <1>1, <1>a, <1>8 DEF vars, InRun
<1>9. QED BY <1>2, <1>3, <1>4, <1>5, <1>6, <1>7, <1>8 DEF Next

\* The inductive invariant holds in every reachable state.
THEOREM DepsInductive == Spec => []DepsInv
<1>1. DepsInv /\ [Next]_vars => DepsInv'
  BY TypeStep, RunStep, MarkerStep, SysrootStep DEF DepsInv
<1>2. QED BY InitDeps, <1>1, PTL DEF Spec

\* The library loops of both scripts stay within their lists.
THEOREM TypeCorrect == Spec => []TypeOK
BY DepsInductive, PTL DEF DepsInv

\* prepare-host-deps.sh prints its prefix only when all its libraries are
\* whole and of one run.
THEOREM PrefixIsWhole == Spec => []PrintedIsWhole
<1>1. DepsInv => PrintedIsWhole
  BY DEF DepsInv, MarkerInv, PrintedIsWhole
<1>2. QED BY DepsInductive, <1>1, PTL

\* In the sysroot that prepare-mingw-deps.sh prints nothing but the last
\* library can be unfinished or of another run.
THEOREM SysrootIsWhole == Spec => []OnlyLastUnfinished
<1>1. DepsInv => OnlyLastUnfinished
  <2> SUFFICES ASSUME DepsInv, result = "ok"
               PROVE  \E v \in Versions : \A n \in 1 .. Len(Libs) - 1 : installed[Libs[n]] = Entire(v)
    BY DEF OnlyLastUnfinished
  <2>1. CASE UsesMarker
    <3>1. PICK v \in Versions : \A n \in 1 .. Len(Libs) : installed[Libs[n]] = Entire(v)
      BY <2>1 DEF DepsInv, MarkerInv
    <3>2. \A n \in 1 .. Len(Libs) - 1 : n \in 1 .. Len(Libs)
      BY ListFacts DEF DepsInv, TypeOK
    <3>3. QED BY <3>1, <3>2
  <2>2. CASE ~UsesMarker
    BY <2>2 DEF DepsInv, SysrootInv, OthersWhole
  <2>3. QED BY <2>1, <2>2
<1>2. QED BY DepsInductive, <1>1, PTL

\* A library is built only against whole libraries of the same run.
THEOREM DependenciesWhole == Spec => []BuildsOnWhole
<1>1. DepsInv => BuildsOnWhole
  <2> SUFFICES ASSUME DepsInv, pc = "build", NEW l \in DependsOn[Libs[k]]
               PROVE  installed[l] = Entire(ver)
    BY DEF BuildsOnWhole
  <2>1. k \in 1 .. Len(Libs) /\ script \in Scripts
    BY ListFacts DEF DepsInv, RunInv, TypeOK
  <2>2. PICK m \in 1 .. k - 1 : l = Libs[m]
    BY <2>1, ListFacts
  <2>3. QED BY <2>2 DEF DepsInv, RunInv, InRun
<1>2. QED BY DepsInductive, <1>1, PTL
=============================================================================
