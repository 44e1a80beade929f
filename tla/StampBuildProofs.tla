-------------------------- MODULE StampBuildProofs --------------------------
(***************************************************************************)
(* For every dependency graph that satisfies the assumptions of            *)
(* StampBuild, and any number of faults, updates and cleans: stamps can be *)
(* trusted (StampSound), a successful make leaves everything up to date    *)
(* (ExitOkSound), no recipe installs over what another is using            *)
(* (NoTornReads), recipes that share a component and are ordered or        *)
(* locked install it one after the other (InstallsExclude), and a recipe   *)
(* finds what it uses whole, also after a kill (InputsNeverTorn).          *)
(***************************************************************************)
EXTENDS StampBuild, TLAPS

\* What make knows while it runs: a target it has finished is valid and so is
\* all it depends on; a recipe runs only for an invalid target, when all it
\* depends on is finished.
RunInv ==
    /\ ~up => \A t \in Targets : pc[t] = "todo"
    /\ outcome = "ok" => ~up
    /\ \A t \in Targets :
          /\ pc[t] = "done" => Valid(t)
          /\ Running(t) => ~Valid(t)
          /\ (Running(t) \/ pc[t] = "done") => \A a \in Anc[t] : pc[a] = "done"

\* t's product is in place.
Made(t) ==
    /\ good[t]
    /\ \A c \in Components :
          (LastWriter(t, c) /\ (masked = 0 \/ c \notin UNION MaskedLoss[t]))
              => content[c] = t

\* Between the install and the touch the product is already in place.
StampInv == \A t \in Targets : (UpToDate(t) \/ pc[t] = "stamp") => Made(t)

\* The inductive invariant.
IInv == TypeOK /\ RunInv /\ StampInv /\ ExitOkSound

-----------------------------------------------------------------------------

\* The initial state is well typed.
LEMMA TypeInit == Init => TypeOK
<1> SUFFICES ASSUME Init PROVE TypeOK
  OBVIOUS
<1>1. faults \in Nat /\ masked \in Nat /\ updates \in Nat
  BY DEF Init
<1>2. /\ stamp \in [Targets -> BOOLEAN]
      /\ stale \in [Targets -> BOOLEAN]
      /\ good \in [Targets -> BOOLEAN]
      /\ up \in BOOLEAN
  BY Zenon DEF Init
<1>3. /\ content \in [Components -> Targets \cup {None, Torn}]
      /\ pc \in [Targets -> Phase]
      /\ outcome \in {"none", "ok", "error"}
  BY DEF Init, Phase
<1>w. \A c \in Components : content[c] \notin Targets
  BY InstallAssumption DEF Init
<1>4. QED BY <1>1, <1>2, <1>3, <1>w DEF TypeOK

\* Every step of make, its recipes and its environment keeps the types.
LEMMA TypeStep == TypeOK /\ [Next]_vars => TypeOK'
<1> SUFFICES ASSUME TypeOK, [Next]_vars PROVE TypeOK'
  OBVIOUS
<1> USE DEF TypeOK, Phase, disk, count
<1>1. CASE StartMake \/ ExitOk \/ ExitError \/ Kill
  <2>1. /\ pc' \in [Targets -> Phase]
        /\ outcome' \in {"none", "ok", "error"}
        /\ faults' \in Nat
        /\ UNCHANGED <<disk, masked, updates, good>>
    BY <1>1 DEF StartMake, ExitOk, ExitError, Kill
  <2>2. up' \in BOOLEAN
    BY <1>1, Zenon DEF StartMake, ExitOk, ExitError, Kill
  <2>3. QED BY <2>1, <2>2
<1>c. CASE Clean
  <2>1. /\ stamp' \in [Targets -> BOOLEAN]
        /\ stale' \in [Targets -> BOOLEAN]
    BY <1>c, Zenon DEF Clean
  <2>2. /\ good' \in [Targets -> BOOLEAN]
        /\ content' \in [Components -> Targets \cup {None, Torn}]
        /\ outcome' \in {"none", "ok", "error"}
    BY <1>c DEF Clean
  <2>w. \A c \in Components : content'[c] \in Targets => c \in Writes[content'[c]]
    BY <1>c, InstallAssumption DEF Clean
  <2>3. UNCHANGED <<pc, up, faults, masked, updates>>
    BY <1>c DEF Clean
  <2>4. QED BY <2>1, <2>2, <2>3, <2>w
<1>2. ASSUME NEW t \in Targets, Recipe(t) PROVE TypeOK'
  <2>1. CASE Skip(t) \/ Clear(t) \/ FailOnTornInput(t)
    BY <2>1 DEF Skip, Clear, FailOnTornInput
  <2>2. CASE Download(t)
    BY <2>2 DEF Download, Outdate
  <2>3. CASE Touch(t)
    BY <2>3 DEF Touch
  <2>b. CASE BeginInstall(t)
    <3>1. \A c \in Components : content'[c] \in Targets => c \in Writes[content'[c]]
      BY <2>b, InstallAssumption DEF BeginInstall
    <3>2. content' \in [Components -> Targets \cup {None, Torn}] /\ good' \in [Targets -> BOOLEAN]
      BY <2>b DEF BeginInstall
    <3>3. pc' \in [Targets -> Phase] /\ UNCHANGED <<stamp, stale, up, outcome, count>>
      BY <2>b DEF BeginInstall
    <3>4. QED BY <3>1, <3>2, <3>3
  <2>4. CASE EndInstall(t)
    BY <2>4 DEF EndInstall
  <2>5. QED BY <1>2, <2>1, <2>2, <2>3, <2>b, <2>4 DEF Recipe
<1>3. ASSUME NEW t \in Targets, Fault(t) PROVE TypeOK'
  <2>1. CASE Fail(t)
    BY <2>1 DEF Fail
  <2>2. CASE InstallMasked(t)
    <3>1. content' \in [Components -> Targets \cup {None, Torn}]
      BY <2>2 DEF InstallMasked
    <3>2. good' \in [Targets -> BOOLEAN]
      BY <2>2 DEF InstallMasked
    <3>3. masked' \in Nat /\ pc' \in [Targets -> Phase]
      BY <2>2 DEF InstallMasked
    <3>4. UNCHANGED <<stamp, stale, up, outcome, faults, updates>>
      BY <2>2 DEF InstallMasked
    <3>w. \A c \in Components : content'[c] \in Targets => c \in Writes[content'[c]]
      BY <2>2 DEF InstallMasked
    <3>5. QED BY <3>1, <3>2, <3>3, <3>4, <3>w
  <2>3. QED BY <1>3, <2>1, <2>2 DEF Fault
<1>4. ASSUME NEW s \in Sources, UpdateSource(s) PROVE TypeOK'
  BY <1>4 DEF UpdateSource, Outdate
<1>5. CASE UNCHANGED vars
  BY <1>5 DEF vars
<1>6. QED BY <1>1, <1>c, <1>2, <1>3, <1>4, <1>5 DEF Next

\* The variables keep their types, for any graph.
THEOREM TypeCorrect == Spec => []TypeOK
BY TypeInit, TypeStep, PTL DEF Spec

-----------------------------------------------------------------------------

\* When the prerequisites of a target are finished, so is all it depends on.
LEMMA ReadyAnc ==
  ASSUME TypeOK, RunInv, NEW t \in Targets, Ready(t)
  PROVE  \A a \in Anc[t] : pc[a] = "done"
<1> SUFFICES ASSUME NEW a \in Anc[t] PROVE pc[a] = "done"
  OBVIOUS
<1>1. CASE a \in Deps[t]
  BY <1>1 DEF Ready
<1>2. CASE \E d \in Deps[t] : a \in Anc[d]
  <2>1. PICK d \in Deps[t] : a \in Anc[d]
    BY <1>2
  <2>2. d \in Targets /\ pc[d] = "done"
    BY <2>1, GraphAssumption DEF Ready
  <2>3. QED BY <2>1, <2>2 DEF RunInv
<1>3. QED BY <1>1, <1>2, GraphAssumption

\* Nothing that is up to date depends on a target whose recipe runs.
LEMMA RunningInvalidates ==
  ASSUME RunInv, NEW t \in Targets, Running(t),
         NEW u \in Targets, UpToDate(u) \/ pc[u] = "stamp", u # t
  PROVE  t \notin Anc[u]
<1>1. CASE UpToDate(u)
  BY <1>1 DEF UpToDate, RunInv
<1>2. CASE pc[u] = "stamp"
  BY <1>2 DEF RunInv, Running
<1>3. QED BY <1>1, <1>2

\* What a finished or running target depends on is up to date.
LEMMA AncUpToDate ==
  ASSUME RunInv, NEW t \in Targets, Running(t) \/ pc[t] = "done", NEW a \in Anc[t]
  PROVE  UpToDate(a)
<1>1. a \in Targets /\ Anc[a] \subseteq Anc[t] /\ Anc[t] \subseteq Targets
  BY GraphAssumption
<1>2. \A b \in Anc[t] : Valid(b)
  BY <1>1 DEF RunInv
<1>3. QED BY <1>1, <1>2 DEF UpToDate

\* An empty build directory satisfies the inductive invariant.
LEMMA InitIInv == Init => IInv
<1> SUFFICES ASSUME Init PROVE RunInv /\ StampInv /\ ExitOkSound
  BY TypeInit DEF IInv
<1>1. \A t \in Targets : pc[t] = "todo" /\ ~stamp[t]
  BY DEF Init
<1>2. ~up /\ outcome = "none"
  BY DEF Init
<1>3. QED BY <1>1, <1>2 DEF RunInv, StampInv, ExitOkSound, UpToDate, Valid, Running

\* The control of make: finished targets stay valid while others run.
LEMMA RunStep == TypeOK /\ RunInv /\ [Next]_vars => RunInv'
<1> SUFFICES ASSUME TypeOK, RunInv, [Next]_vars PROVE RunInv'
  OBVIOUS
<1> USE DEF RunInv, Running, Valid
<1>1. CASE StartMake \/ ExitOk \/ ExitError \/ Kill \/ Clean
  <2>1. \A t \in Targets : pc'[t] = "todo"
    BY <1>1 DEF StartMake, ExitOk, ExitError, Kill, Clean
  <2>2. outcome' = "ok" => ~up'
    BY <1>1 DEF StartMake, ExitOk, ExitError, Kill, Clean
  <2>3. QED BY <2>1, <2>2
<1>2. ASSUME NEW s \in Sources, UpdateSource(s) PROVE RunInv'
  <2>1. \A t \in Targets : pc'[t] = "todo"
    BY <1>2 DEF UpdateSource
  <2>2. outcome' = "ok" => ~up'
    BY <1>2 DEF UpdateSource
  <2>3. QED BY <2>1, <2>2
<1>3. ASSUME NEW t \in Targets, Recipe(t) \/ Fault(t) PROVE RunInv'
  <2> USE DEF TypeOK
  <2>0. up /\ up' /\ outcome' = outcome
    BY <1>3 DEF Recipe, Fault, Skip, Download, Clear, BeginInstall, EndInstall, Touch,
                FailOnTornInput, Fail, InstallMasked, Ready
  <2>1. CASE Skip(t)
    <3>1. \A a \in Anc[t] : pc[a] = "done"
      BY <2>1, ReadyAnc DEF Skip
    <3>2. QED BY <2>0, <2>1, <3>1, GraphAssumption DEF Skip, disk
  <2>2. CASE Download(t)
    <3>1. \A a \in Anc[t] : pc[a] = "done"
      BY <2>2, ReadyAnc DEF Download
    <3>2. /\ pc' = [pc EXCEPT ![t] = "clear"] /\ pc[t] = "todo" /\ stamp' = stamp
          /\ ~Valid(t) /\ t \in Downloads
      BY <2>2 DEF Download, Ready
    <3>3. \A u \in Targets : stale[u] => stale'[u]
      BY <2>2 DEF Download, Outdate
    <3>4. ASSUME NEW u \in Targets, pc[u] = "done" PROVE stale'[u] = stale[u]
      <4>1. u # t /\ t \notin Anc[u]
        BY <3>2, <3>4
      <4>2. Src[u] \cap Src[t] = {}
        BY <3>2, <4>1, DownloadAssumption
      <4>3. QED BY <2>2, <4>2 DEF Download, Outdate
    <3>5. QED BY <2>0, <3>1, <3>2, <3>3, <3>4, GraphAssumption
  <2>3. CASE Clear(t)
    <3>1. \A a \in Anc[t] : pc[a] = "done"
      BY <2>3, ReadyAnc DEF Clear
    <3>2. /\ pc' = [pc EXCEPT ![t] = "build"] /\ pc[t] \in {"todo", "clear"} /\ stale' = stale
          /\ ~Valid(t)
      BY <2>3 DEF Clear, Ready
    <3>3. stamp' = stamp \/ stamp' = [stamp EXCEPT ![t] = FALSE]
      BY <2>3 DEF Clear
    <3>4. QED BY <2>0, <3>1, <3>2, <3>3, GraphAssumption
  <2>4. CASE BeginInstall(t) \/ EndInstall(t) \/ InstallMasked(t)
    <3>1. /\ pc[t] \in {"build", "install"} /\ stamp' = stamp /\ stale' = stale
          /\ \E p \in {"install", "stamp"} : pc' = [pc EXCEPT ![t] = p]
      BY <2>4 DEF BeginInstall, EndInstall, InstallMasked
    <3>2. QED BY <2>0, <3>1, GraphAssumption
  <2>5. CASE Touch(t)
    <3>1. /\ pc[t] = "stamp" /\ pc' = [pc EXCEPT ![t] = "done"]
          /\ stamp' = [stamp EXCEPT ![t] = TRUE]
          /\ stale' = [u \in Targets |-> u # t /\ (stale[u] \/ t \in Deps[u])]
      BY <2>5 DEF Touch
    <3>2. ASSUME NEW u \in Targets, pc[u] = "done" PROVE t \notin Deps[u]
      BY <3>1, <3>2, GraphAssumption
    <3>3. ASSUME NEW u \in Targets, pc'[u] = "done" PROVE Valid(u)'
      <4>1. CASE u = t
        BY <3>1, <4>1
      <4>2. CASE u # t
        BY <3>1, <3>2, <3>3, <4>2
      <4>3. QED BY <4>1, <4>2
    <3>4. ASSUME NEW u \in Targets, Running(u)' PROVE ~Valid(u)'
      BY <3>1, <3>4
    <3>5. ASSUME NEW u \in Targets, Running(u)' \/ pc'[u] = "done"
          PROVE  \A a \in Anc[u] : pc'[a] = "done"
      BY <3>1, <3>5, GraphAssumption
    <3>6. QED BY <2>0, <3>3, <3>4, <3>5
  <2>6. CASE Fail(t) \/ FailOnTornInput(t)
    <3>1. /\ pc[t] # "done" /\ pc' = [pc EXCEPT ![t] = "failed"]
          /\ stamp' = stamp /\ stale' = stale
      BY <2>6 DEF Fail, FailOnTornInput, disk
    <3>2. QED BY <2>0, <3>1, GraphAssumption
  <2>7. QED BY <1>3, <2>1, <2>2, <2>3, <2>4, <2>5, <2>6 DEF Recipe, Fault
<1>4. CASE UNCHANGED vars
  BY <1>4 DEF vars
<1>5. QED BY <1>1, <1>2, <1>3, <1>4 DEF Next
\* A step that changes no product keeps Made for every target.
LEMMA MadeUnchanged ==
  ASSUME UNCHANGED <<content, good, masked>>, NEW t \in Targets, Made(t)
  PROVE  Made(t)'
BY DEF Made, LastWriter

\* Installing t disturbs only t and what depends on it.
LEMMA MadeElsewhere ==
  ASSUME TypeOK, TypeOK', NEW t \in Targets, NEW u \in Targets, u # t, t \notin Anc[u], Made(u),
         masked' = masked \/ masked' = masked + 1,
         \A c \in Components : c \notin Writes[t] => content'[c] = content[c],
         good[u] => (good'[u] \/ t \in Reads[u])
  PROVE  Made(u)'
<1>1. good'[u]
  BY GraphAssumption DEF Made
<1>2. ASSUME NEW c \in Components, LastWriter(u, c), masked' = 0 \/ c \notin UNION MaskedLoss[u]
      PROVE  content'[c] = u
  <2>1. c \notin Writes[t]
    BY <1>2 DEF LastWriter
  <2>2. masked = 0 \/ c \notin UNION MaskedLoss[u]
    BY <1>2 DEF TypeOK
  <2>3. QED BY <1>2, <2>1, <2>2 DEF Made
<1>3. QED BY <1>1, <1>2 DEF Made, LastWriter

\* A product stays in place until its target is no longer up to date.
LEMMA StampStep == IInv /\ TypeOK' /\ [Next]_vars => StampInv'
<1> SUFFICES ASSUME IInv, TypeOK', [Next]_vars,
                    NEW u \in Targets, UpToDate(u)' \/ pc'[u] = "stamp"
             PROVE  Made(u)'
  BY DEF StampInv
<1> USE DEF IInv
<1>1. CASE StartMake \/ ExitOk \/ ExitError \/ Kill
  <2>1. /\ UNCHANGED <<stamp, stale, content, good, masked>>
        /\ pc'[u] = "todo"
    BY <1>1 DEF StartMake, ExitOk, ExitError, Kill, disk, count
  <2>2. UpToDate(u)
    BY <2>1 DEF UpToDate, Valid
  <2>3. QED BY <2>1, <2>2, MadeUnchanged DEF StampInv
<1>2. CASE Clean
  <2>1. pc'[u] = "todo"
    BY <1>2 DEF Clean, RunInv
  <2>2. ~UpToDate(u)'
    BY <1>2 DEF Clean, UpToDate, Valid
  <2>3. QED BY <2>1, <2>2
<1>3. ASSUME NEW s \in Sources, UpdateSource(s) PROVE Made(u)'
  <2>1. pc'[u] = "todo"
    BY <1>3 DEF UpdateSource, RunInv
  <2>2. UpToDate(u) /\ s \notin Src[u]
    BY <1>3, <2>1, GraphAssumption DEF UpdateSource, Outdate, UpToDate, Valid
  <2>3. Made(u)
    BY <2>2 DEF StampInv
  <2>4. QED BY <1>3, <2>2, <2>3 DEF UpdateSource, Made, LastWriter
<1>4. ASSUME NEW t \in Targets, Recipe(t) \/ Fault(t) PROVE Made(u)'
  <2>1. CASE Skip(t) \/ Download(t) \/ Clear(t) \/ Fail(t) \/ FailOnTornInput(t)
    <3>1. UNCHANGED <<content, good, masked>>
      BY <2>1 DEF Skip, Download, Clear, Fail, FailOnTornInput, disk, count
    <3>2. \A v \in Targets : (stamp'[v] => stamp[v]) /\ (stale[v] => stale'[v])
      BY <2>1 DEF Skip, Download, Clear, Fail, FailOnTornInput, disk, Outdate, TypeOK
    <3>3. pc'[u] = "stamp" => pc[u] = "stamp"
      BY <2>1 DEF Skip, Download, Clear, Fail, FailOnTornInput, TypeOK
    <3>4. UpToDate(u) \/ pc[u] = "stamp"
      <4>1. \A v \in Targets : Valid(v)' => Valid(v)
        <5> SUFFICES ASSUME NEW v \in Targets, stamp'[v], ~stale'[v]
                     PROVE  stamp[v] /\ ~stale[v]
          BY DEF Valid
        <5> QED BY <3>2
      <4>2. Anc[u] \subseteq Targets
        BY GraphAssumption
      <4>3. QED BY <3>3, <4>1, <4>2 DEF UpToDate
    <3>5. QED BY <3>1, <3>4, MadeUnchanged DEF StampInv
  <2>2. CASE BeginInstall(t) \/ EndInstall(t) \/ InstallMasked(t)
    <3>1. /\ UNCHANGED <<stamp, stale>> /\ Running(t)
          /\ masked' = masked \/ masked' = masked + 1
          /\ \A v \in Targets : v # t => pc'[v] = pc[v]
      BY <2>2 DEF BeginInstall, EndInstall, InstallMasked, Running, count, TypeOK
    <3>2. CASE u # t
      <4>1. UpToDate(u) \/ pc[u] = "stamp"
        BY <3>1, <3>2 DEF UpToDate, Valid
      <4>2. t \notin Anc[u]
        BY <3>1, <3>2, <4>1, RunningInvalidates
      <4>3. \A c \in Components : c \notin Writes[t] => content'[c] = content[c]
        BY <2>2 DEF BeginInstall, EndInstall, InstallMasked
      <4>4. good[u] => (good'[u] \/ t \in Reads[u])
        BY <2>2, <3>2 DEF BeginInstall, EndInstall, InstallMasked, TypeOK
      <4>5. QED BY <3>1, <3>2, <4>1, <4>2, <4>3, <4>4, MadeElsewhere DEF StampInv
    <3>3. CASE u = t
      <4>1. ~UpToDate(t)'
        BY <3>1 DEF RunInv, UpToDate, Valid
      <4>2. EndInstall(t) \/ InstallMasked(t)
        BY <2>2, <3>3, <4>1 DEF BeginInstall, TypeOK
      <4>3. \A r \in Reads[t] : good[r]
        <5> SUFFICES ASSUME NEW r \in Reads[t] PROVE good[r]
          OBVIOUS
        <5>1. r \in Anc[t] /\ r \in Targets
          BY GraphAssumption
        <5>2. UpToDate(r)
          BY <3>1, <5>1, AncUpToDate
        <5>3. QED BY <5>1, <5>2 DEF StampInv, Made
      <4>4. good'[t]
        BY <4>2, <4>3 DEF EndInstall, InstallMasked, TypeOK
      <4>5. ASSUME NEW c \in Components, LastWriter(t, c),
                   masked' = 0 \/ c \notin UNION MaskedLoss[t]
            PROVE  content'[c] = t
        <5>1. CASE EndInstall(t)
          <6>1. \A v \in Targets : (v # t /\ c \in Writes[v]) => pc[v] # "install"
            BY <3>1, <4>5 DEF LastWriter, RunInv
          <6>2. QED BY <4>5, <5>1, <6>1 DEF EndInstall, LastWriter
        <5>2. CASE InstallMasked(t)
          <6>1. masked' # 0
            BY <5>2 DEF InstallMasked, TypeOK
          <6>2. QED BY <4>5, <5>2, <6>1 DEF InstallMasked, LastWriter
        <5>3. QED BY <4>2, <5>1, <5>2
      <4>6. QED BY <3>3, <4>4, <4>5 DEF Made, LastWriter
    <3>4. QED BY <3>2, <3>3
  <2>3. CASE Touch(t)
    <3>1. /\ UNCHANGED <<content, good, masked>>
          /\ pc[t] = "stamp" /\ pc' = [pc EXCEPT ![t] = "done"]
          /\ stamp' = [stamp EXCEPT ![t] = TRUE]
          /\ stale' = [v \in Targets |-> v # t /\ (stale[v] \/ t \in Deps[v])]
      BY <2>3 DEF Touch, count
    <3>2. CASE u = t
      BY <3>1, <3>2, MadeUnchanged DEF StampInv
    <3>3. CASE u # t /\ t \in Anc[u] /\ UpToDate(u)'
      <4>1. PICK x \in Anc[u] \cup {u} : t \in Deps[x]
        BY <3>3, GraphAssumption
      <4>2. x \in Targets /\ x # t
        BY <4>1, GraphAssumption
      <4>3. stale'[x]
        BY <3>1, <4>1, <4>2
      <4>4. QED BY <3>3, <4>1, <4>3 DEF UpToDate, Valid
    <3>4. CASE u # t /\ t \notin Anc[u] /\ UpToDate(u)'
      <4>1. UpToDate(u)
        <5>1. \A v \in Targets : v # t => (stamp'[v] = stamp[v] /\ (stale[v] => stale'[v]))
          BY <3>1 DEF TypeOK
        <5>2. \A v \in Targets : (v # t /\ Valid(v)') => Valid(v)
          BY <5>1, Zenon DEF Valid
        <5>3. Anc[u] \subseteq Targets
          BY GraphAssumption
        <5>4. QED BY <3>4, <5>2, <5>3 DEF UpToDate
      <4>2. QED BY <3>1, <4>1, MadeUnchanged DEF StampInv
    <3>5. CASE u # t /\ pc'[u] = "stamp"
      <4>1. pc[u] = "stamp"
        BY <3>1, <3>5 DEF TypeOK
      <4>2. QED BY <3>1, <4>1, MadeUnchanged DEF StampInv
    <3>6. QED BY <3>2, <3>3, <3>4, <3>5
  <2>4. QED BY <1>4, <2>1, <2>2, <2>3 DEF Recipe, Fault
<1>5. CASE UNCHANGED vars
  <2>1. UNCHANGED <<content, good, masked>> /\ (UpToDate(u) \/ pc[u] = "stamp")
    BY <1>5 DEF vars, UpToDate, Valid
  <2>2. QED BY <2>1, MadeUnchanged DEF StampInv
<1>6. QED BY <1>1, <1>2, <1>3, <1>4, <1>5 DEF Next

\* Success is reported only when every target is finished, hence valid.
LEMMA ExitStep == IInv /\ [Next]_vars => ExitOkSound'
<1> SUFFICES ASSUME IInv, [Next]_vars, outcome' = "ok", NEW u \in Targets
             PROVE  UpToDate(u)'
  BY DEF ExitOkSound
<1> USE DEF IInv
<1>1. CASE ExitOk
  <2>1. \A t \in Targets : Valid(t)
    BY <1>1 DEF ExitOk, RunInv
  <2>2. UpToDate(u)
    BY <2>1, GraphAssumption DEF UpToDate
  <2>3. QED BY <1>1, <2>2 DEF ExitOk, disk, UpToDate, Valid
<1>2. CASE StartMake \/ ExitError \/ Kill \/ Clean
  BY <1>2 DEF StartMake, ExitError, Kill, Clean
<1>3. ASSUME NEW s \in Sources, UpdateSource(s) PROVE UpToDate(u)'
  BY <1>3 DEF UpdateSource
<1>4. ASSUME NEW t \in Targets, Recipe(t) \/ Fault(t) PROVE UpToDate(u)'
  <2>1. up /\ outcome' = outcome
    BY <1>4 DEF Recipe, Fault, Skip, Download, Clear, BeginInstall, EndInstall, Touch,
                FailOnTornInput, Fail, InstallMasked, Ready, RunInv, Running
  <2>2. QED BY <2>1 DEF RunInv
<1>5. CASE UNCHANGED vars
  BY <1>5 DEF vars, ExitOkSound, UpToDate, Valid
<1>6. QED BY <1>1, <1>2, <1>3, <1>4, <1>5 DEF Next

\* The inductive invariant holds in every reachable state.
THEOREM Inductive == Spec => []IInv
<1>1. IInv /\ [Next]_vars => IInv'
  BY TypeStep, RunStep, StampStep, ExitStep DEF IInv
<1>2. QED BY InitIInv, <1>1, PTL DEF Spec

\* Stamps can be trusted, on every graph: whatever was killed, failed, updated
\* or cleaned, a target that make would skip, with all it depends on, was
\* built from what is installed now and its components are whole.
THEOREM StampsAreSound == Spec => []StampSound
<1>1. IInv => StampSound
  BY DEF IInv, StampInv, Made, StampSound
<1>2. QED BY Inductive, <1>1, PTL

\* A make that exits with success leaves nothing for the next one to do.
THEOREM SuccessIsComplete == Spec => []ExitOkSound
<1>1. IInv => ExitOkSound
  BY DEF IInv
<1>2. QED BY Inductive, <1>1, PTL

\* No recipe installs over a component that a recipe beside it is using.
THEOREM ReadersUndisturbed == Spec => []NoTornReads
<1>1. IInv => NoTornReads
  <2> SUFFICES ASSUME IInv, NEW t \in Targets, NEW u \in Targets, t # u,
                      pc[t] \in {"build", "install"}, pc[u] = "install",
                      Writes[u] \cap Uses[t] # {}
               PROVE  FALSE
    BY DEF NoTornReads
  <2>1. Running(t) /\ Running(u)
    BY DEF Running
  <2>2. u \in Anc[t] \/ t \in Anc[u]
    BY InstallAssumption
  <2>3. QED BY <2>1, <2>2 DEF IInv, RunInv
<1>2. QED BY Inductive, <1>1, PTL

-----------------------------------------------------------------------------
(* The lock, and what recipes find when they run again after a kill        *)

\* At most one target installs under the lock.
LockInv ==
    \A t, u \in Locked : t # u => ~(pc[t] = "install" /\ pc[u] = "install")

\* Only the flock of the install step keeps two multilibs apart.
LEMMA LockStep == TypeOK /\ LockInv /\ [Next]_vars => LockInv'
<1> SUFFICES ASSUME TypeOK, LockInv, [Next]_vars PROVE LockInv'
  OBVIOUS
<1> USE DEF LockInv
<1>0. Locked \subseteq Targets
  BY InstallAssumption
<1>1. CASE StartMake \/ ExitOk \/ ExitError \/ Kill
  BY <1>0, <1>1 DEF StartMake, ExitOk, ExitError, Kill
<1>2. CASE Clean \/ (\E s \in Sources : UpdateSource(s)) \/ UNCHANGED vars
  BY <1>2 DEF Clean, UpdateSource, vars
<1>3. ASSUME NEW t \in Targets, Recipe(t) \/ Fault(t) PROVE LockInv'
  <2>1. CASE BeginInstall(t)
    <3>1. pc' = [pc EXCEPT ![t] = "install"] /\ LockFree(t)
      BY <2>1 DEF BeginInstall
    <3>2. QED BY <1>0, <3>1 DEF LockFree, TypeOK
  <2>2. CASE ~BeginInstall(t)
    <3>1. \E p \in Phase \ {"install"} : pc' = [pc EXCEPT ![t] = p]
      BY <1>3, <2>2 DEF Recipe, Fault, Skip, Download, Clear, EndInstall, Touch,
                        FailOnTornInput, Fail, InstallMasked, Phase
    <3>2. QED BY <1>0, <3>1 DEF TypeOK
  <2>3. QED BY <2>1, <2>2
<1>4. QED BY <1>1, <1>2, <1>3 DEF Next

\* Two recipes that install the same component never do so at the same time
\* if the graph orders them or both take the sysroot lock.
THEOREM InstallersExclude == Spec => []InstallsExclude
<1>1. Init => LockInv
  BY InstallAssumption DEF Init, LockInv
<1>2. Spec => []LockInv
  BY <1>1, LockStep, Inductive, PTL DEF Spec, IInv
<1>3. IInv /\ LockInv => InstallsExclude
  <2> SUFFICES ASSUME IInv, LockInv, NEW t \in Targets, NEW u \in Targets, t # u,
                      t \in Anc[u] \/ u \in Anc[t] \/ {t, u} \subseteq Locked,
                      pc[t] = "install", pc[u] = "install"
               PROVE  FALSE
    BY DEF InstallsExclude
  <2>1. CASE t \in Anc[u] \/ u \in Anc[t]
    BY <2>1 DEF IInv, RunInv, Running
  <2>2. CASE {t, u} \subseteq Locked
    BY <2>2 DEF LockInv
  <2>3. QED BY <2>1, <2>2
<1>4. QED BY Inductive, <1>2, <1>3, PTL

\* t's install is over and its product is still the one in place.
Settled(t) == UpToDate(t) \/ pc[t] = "stamp"

\* Everyone before t who writes c has settled.
WritersSettled(t, c) == \A a \in Anc[t] : c \in Writes[a] => Settled(a)

\* A component is torn only while one of the targets that must be rebuilt
\* before its reader will write it again; or its reader is up to date, as newlib
\* is when the install of gcc stage 2 is killed, and will not run.
WholeInv ==
    (updates = 0 /\ masked = 0) =>
        \A t \in Targets : \A c \in Uses[t] :
            (WritersSettled(t, c) /\ ~UpToDate(t)) => content[c] \notin {None, Torn}

\* Without a source update, nothing but `make clean' outdates a target: make
\* neither clears, nor touches, nor downloads under what is up to date.
LEMMA StaysUpToDate ==
  ASSUME TypeOK, RunInv, NEW t \in Targets, Recipe(t) \/ Fault(t),
         NEW u \in Targets, UpToDate(u)
  PROVE  UpToDate(u)'
<1> DEFINE Up == Anc[u] \cup {u}
<1>1. Up \subseteq Targets /\ \A v \in Up : Valid(v) /\ Anc[v] \subseteq Up
  BY GraphAssumption DEF UpToDate
<1>2. SUFFICES \A v \in Up : Valid(v)'
  BY DEF UpToDate
<1>3. CASE Skip(t) \/ BeginInstall(t) \/ EndInstall(t) \/ FailOnTornInput(t) \/ Fault(t)
  BY <1>3, <1>1 DEF Skip, BeginInstall, EndInstall, FailOnTornInput, Fault, Fail, InstallMasked,
              disk, Valid
<1>4. CASE Download(t)
  <2>1. t \notin Up /\ t \in Downloads /\ stamp' = stamp
    BY <1>1, <1>4 DEF Download
  <2>2. ASSUME NEW v \in Up PROVE stale'[v] = stale[v]
    <3>1. v \in Targets /\ v # t /\ t \notin Anc[v]
      BY <1>1, <2>1
    <3>2. Src[v] \cap Src[t] = {}
      BY <2>1, <3>1, DownloadAssumption
    <3>3. QED BY <1>4, <3>1, <3>2 DEF Download, Outdate, TypeOK
  <2>3. QED BY <1>1, <2>1, <2>2 DEF Valid
<1>5. CASE Clear(t)
  <2>1. ~Valid(t)
    BY <1>5 DEF Clear, RunInv, Running
  <2>2. t \notin Up
    BY <1>1, <2>1
  <2>3. stale' = stale /\ (stamp' = stamp \/ stamp' = [stamp EXCEPT ![t] = FALSE])
    BY <1>5 DEF Clear
  <2>4. \A v \in Up : stamp'[v] = stamp[v]
    BY <1>1, <2>2, <2>3 DEF TypeOK
  <2>5. QED BY <1>1, <2>3, <2>4 DEF Valid
<1>6. CASE Touch(t)
  <2>1. ~Valid(t)
    BY <1>6 DEF Touch, RunInv, Running
  <2>2. t \notin Up
    BY <1>1, <2>1
  <2>3. /\ stamp' = [stamp EXCEPT ![t] = TRUE]
        /\ stale' = [v \in Targets |-> v # t /\ (stale[v] \/ t \in Deps[v])]
    BY <1>6 DEF Touch
  <2>4. ASSUME NEW v \in Up PROVE Valid(v)'
    <3>1. v \in Targets /\ v # t /\ t \notin Deps[v]
      BY <1>1, <2>2, GraphAssumption
    <3>2. stamp[v] /\ ~stale[v]
      BY <1>1 DEF Valid
    <3>3. stamp'[v]
      BY <2>3, <3>1, <3>2 DEF TypeOK
    <3>4. ~stale'[v]
      BY <2>3, <3>1, <3>2
    <3>5. QED BY <3>3, <3>4 DEF Valid
  <2>5. QED BY <2>4
<1>7. QED BY <1>3, <1>4, <1>5, <1>6 DEF Recipe

\* Only the touch at the end of its recipe makes a target up to date.
LEMMA BecomesUpToDate ==
  ASSUME TypeOK, RunInv, NEW t \in Targets, Recipe(t) \/ Fault(t),
         NEW u \in Targets, UpToDate(u)'
  PROVE  UpToDate(u) \/ (u = t /\ pc[u] = "stamp")
<1> DEFINE Up == Anc[u] \cup {u}
<1>1. Up \subseteq Targets /\ \A v \in Up : Valid(v)'
  BY GraphAssumption DEF UpToDate
<1>2. CASE Touch(t)
  <2>1. /\ pc[t] = "stamp"
        /\ stamp' = [stamp EXCEPT ![t] = TRUE]
        /\ stale' = [v \in Targets |-> v # t /\ (stale[v] \/ t \in Deps[v])]
    BY <1>2 DEF Touch
  <2>2. CASE u = t
    BY <2>1, <2>2
  <2>3. CASE u # t /\ t \in Anc[u]
    <3>1. PICK x \in Anc[u] \cup {u} : t \in Deps[x]
      BY <2>3, GraphAssumption
    <3>2. x \in Targets /\ x # t
      BY <3>1, GraphAssumption
    <3>3. stale'[x]
      BY <2>1, <3>1, <3>2
    <3>4. QED BY <1>1, <3>1, <3>3 DEF Valid
  <2>4. CASE u # t /\ t \notin Anc[u]
    <3>1. \A v \in Targets : v # t => (stamp'[v] = stamp[v] /\ (stale[v] => stale'[v]))
      BY <2>1 DEF TypeOK
    <3>2. \A v \in Targets : (v # t /\ Valid(v)') => Valid(v)
      BY <3>1, Zenon DEF Valid
    <3>3. QED BY <1>1, <2>4, <3>2 DEF UpToDate
  <2>5. QED BY <2>2, <2>3, <2>4
<1>3. CASE ~Touch(t)
  <2>1. \A v \in Targets : (stamp'[v] => stamp[v]) /\ (stale[v] => stale'[v])
    BY <1>3 DEF Recipe, Fault, Skip, Download, Clear, BeginInstall, EndInstall, FailOnTornInput,
                Fail, InstallMasked, disk, Outdate, TypeOK
  <2>2. \A v \in Targets : Valid(v)' => Valid(v)
    BY <2>1, Zenon DEF Valid
  <2>3. QED BY <1>1, <2>2 DEF UpToDate
<1>4. QED BY <1>2, <1>3

\* What the writers of c before t leave in c, nobody tears under t.
LEMMA WholeStep == IInv /\ WholeInv /\ TypeOK' /\ [Next]_vars => WholeInv'
<1> SUFFICES ASSUME IInv, WholeInv, TypeOK', [Next]_vars, updates' = 0, masked' = 0,
                    NEW t \in Targets, NEW c \in Uses[t],
                    WritersSettled(t, c)', ~UpToDate(t)'
             PROVE  content'[c] \notin {None, Torn}
  BY DEF WholeInv
<1> USE DEF IInv
<1>0. /\ c \in Components /\ c \notin Writes[t]
      /\ Anc[t] \subseteq Targets
  BY UsesAssumption, GraphAssumption
<1>1. PICK a \in Anc[t] : c \in Writes[a]
  BY UsesAssumption
<1>2. a \in Targets /\ Settled(a)'
  BY <1>0, <1>1 DEF WritersSettled
<1>3. CASE StartMake \/ ExitOk \/ ExitError \/ Kill
  <2>1. UNCHANGED <<stamp, stale, content, masked, updates>> /\ \A u \in Targets : pc'[u] = "todo"
    BY <1>3 DEF StartMake, ExitOk, ExitError, Kill, disk, count
  <2>2. WritersSettled(t, c) /\ ~UpToDate(t)
    BY <1>0, <2>1 DEF WritersSettled, Settled, UpToDate, Valid
  <2>3. QED BY <2>1, <2>2 DEF WholeInv
<1>4. CASE Clean
  <2>1. ~stamp'[a] /\ pc'[a] = "todo"
    BY <1>2, <1>4 DEF Clean, RunInv
  <2>2. QED BY <1>2, <2>1 DEF Settled, UpToDate, Valid
<1>5. CASE \E s \in Sources : UpdateSource(s)
  BY <1>5 DEF UpdateSource, TypeOK
<1>6. ASSUME NEW r \in Targets, Recipe(r) \/ Fault(r) PROVE content'[c] \notin {None, Torn}
  <2>1. updates = 0 /\ masked = 0 /\ ~InstallMasked(r)
    <3>1. ~InstallMasked(r)
      <4>1. masked \in Nat /\ (InstallMasked(r) => masked' = masked + 1)
        BY DEF InstallMasked, TypeOK
      <4>2. QED BY <4>1
    <3>2. UNCHANGED <<masked, updates>>
      BY <1>6, <3>1 DEF Recipe, Fault, Skip, Download, Clear, BeginInstall, EndInstall, Touch,
                FailOnTornInput, Fail, count
    <3>3. QED BY <3>1, <3>2
  <2>2. ~UpToDate(t)
    BY <1>6, StaysUpToDate
  <2>3. \A v \in Targets : v # r => pc'[v] = pc[v]
    BY <1>6 DEF Recipe, Fault, Skip, Download, Clear, BeginInstall, EndInstall, Touch,
                FailOnTornInput, Fail, InstallMasked, TypeOK
  <2>4. CASE EndInstall(r) /\ c \in Writes[r]
    <3>1. r # t /\ Running(r) /\ pc[r] = "install"
      BY <1>0, <2>4 DEF EndInstall, Running
    <3>2. r \in Anc[t]
      <4>1. t \notin Anc[r]
        BY <2>2, <3>1, AncUpToDate
      <4>2. QED BY <2>4, <3>1, <4>1, InstallAssumption
    <3>3. ASSUME NEW v \in Targets, v # r, c \in Writes[v], pc[v] = "install" PROVE FALSE
      <4>1. v # t
        BY <1>0, <3>3
      <4>2. CASE t \in Anc[v]
        BY <2>2, <3>3, <4>2, AncUpToDate DEF Running
      <4>3. CASE v \in Anc[t]
        <5>1. Settled(v)' /\ pc'[v] = "install" /\ UNCHANGED <<stamp, stale>>
          BY <2>3, <2>4, <3>3, <4>3 DEF WritersSettled, EndInstall
        <5>2. UpToDate(v)
          BY <5>1 DEF Settled, UpToDate, Valid
        <5>3. QED BY <3>3, <5>2 DEF RunInv, Running, UpToDate
      <4>4. QED BY <3>3, <4>1, <4>2, <4>3, InstallAssumption
    <3>4. content'[c] = r
      BY <1>0, <2>4, <3>3 DEF EndInstall
    <3>5. QED BY <3>4, InstallAssumption
  <2>5. CASE BeginInstall(r) /\ c \in Writes[r]
    <3>1. /\ r # t /\ Running(r) /\ pc'[r] = "install" /\ UNCHANGED <<stamp, stale>>
      BY <1>0, <2>5 DEF BeginInstall, Running, TypeOK
    <3>2. r \in Anc[t]
      <4>1. t \notin Anc[r]
        BY <2>2, <3>1, AncUpToDate
      <4>2. QED BY <2>5, <3>1, <4>1, InstallAssumption
    <3>3. Settled(r)'
      BY <2>5, <3>2 DEF WritersSettled
    <3>4. UpToDate(r)
      BY <3>1, <3>3 DEF Settled, UpToDate, Valid
    <3>5. QED BY <3>1, <3>4 DEF RunInv, UpToDate
  <2>6. CASE c \notin Writes[r] \/ ~(BeginInstall(r) \/ EndInstall(r))
    <3>1. content'[c] = content[c]
      BY <1>0, <1>6, <2>1, <2>6 DEF Recipe, Fault, Skip, Download, Clear, BeginInstall, EndInstall,
                Touch, FailOnTornInput, Fail, disk, TypeOK
    <3>2. ASSUME NEW b \in Anc[t], c \in Writes[b] PROVE Settled(b)
      <4>1. b \in Targets /\ Settled(b)'
        BY <1>0, <3>2 DEF WritersSettled
      <4>2. CASE pc'[b] = "stamp"
        <5>1. b # r \/ ~EndInstall(r)
          BY <2>6, <3>2
        <5>2. b # r
          BY <1>6, <2>1, <4>2, <5>1 DEF Recipe, Fault, Skip, Download, Clear, BeginInstall,
                Touch, FailOnTornInput, Fail, TypeOK
        <5>3. QED BY <2>3, <4>1, <4>2, <5>2 DEF Settled
      <4>3. CASE UpToDate(b)'
        BY <1>6, <4>1, <4>3, BecomesUpToDate DEF Settled
      <4>4. QED BY <4>1, <4>2, <4>3 DEF Settled
    <3>3. QED BY <2>1, <2>2, <3>1, <3>2 DEF WholeInv, WritersSettled
  <2>7. QED BY <2>4, <2>5, <2>6
<1>7. CASE UNCHANGED vars
  BY <1>7 DEF vars, WholeInv, WritersSettled, Settled, UpToDate, Valid
<1>8. QED BY <1>3, <1>4, <1>5, <1>6, <1>7 DEF Next

\* As long as no source tree is updated and no failure masked, a recipe that
\* runs finds every component it uses whole: what a kill tore is reinstalled
\* before anyone reads it.
THEOREM InputsAreWhole == Spec => []InputsNeverTorn
<1>1. Init => WholeInv
  <2> SUFFICES ASSUME Init, NEW t \in Targets, NEW c \in Uses[t], WritersSettled(t, c) PROVE FALSE
    BY DEF WholeInv
  <2>1. PICK a \in Anc[t] : c \in Writes[a]
    BY UsesAssumption
  <2>2. a \in Targets
    BY <2>1, GraphAssumption
  <2>3. QED BY <2>1, <2>2 DEF Init, WritersSettled, Settled, UpToDate, Valid
<1>2. Spec => []WholeInv
  BY <1>1, WholeStep, TypeStep, Inductive, PTL DEF Spec, IInv
<1>3. IInv /\ WholeInv => InputsNeverTorn
  <2> SUFFICES ASSUME IInv, WholeInv, updates = 0, masked = 0,
                      NEW t \in Targets, pc[t] = "build", NEW c \in Uses[t]
               PROVE  content[c] \notin {None, Torn}
    BY DEF InputsNeverTorn, InputsWhole
  <2>1. Running(t) /\ ~UpToDate(t)
    BY DEF Running, IInv, RunInv, UpToDate
  <2>2. WritersSettled(t, c)
    BY <2>1, AncUpToDate DEF IInv, WritersSettled, Settled
  <2>3. QED BY <2>1, <2>2 DEF WholeInv
<1>4. QED BY Inductive, <1>2, <1>3, PTL
=============================================================================
