---------------------------- MODULE StepRunner_proofs ----------------------------
(***************************************************************************)
(* Proofs about StepRunner for any steps, any number of deliveries, and    *)
(* any bounds: the types, the pointer of the shared page, and what the     *)
(* files, rows and links of a command say of each other.                   *)
(***************************************************************************)
EXTENDS StepRunner, SequenceTheorems, TLAPS

--------------------------------------------------------------------------------
(* Types *)

\* What the constants are.
LEMMA Constants ==
  /\ MaxSteps \in Nat /\ PlanLimit \in Nat /\ RunCap \in Nat
  /\ StateParts \in Nat \ {0} /\ Deliveries \in Nat \ {0}
  /\ \A s \in Step : s \in StepType
  /\ SafeName \in [Name \cup Label -> Base] /\ PlanName \in Base
BY StepAssumption

\* The files of the model are files.
LEMMA Files ==
  /\ PlanFile \in File
  /\ StateFiles \in Seq(File)
  /\ \A s \in Step, i \in 1 .. MaxSteps : ShotFile(s, i) \in File /\ SnapFile(s, i) \in File
<1>1. PlanFile \in File
  BY DEF File
<1>2. \A k \in 1 .. StateParts : StateFiles[k] \in File
  BY DEF File, Range, StateFiles
<1>3. StateFiles \in [1 .. StateParts -> File]
  BY <1>2 DEF StateFiles
<1>4. StateFiles \in Seq(File)
  BY <1>3, Constants, SeqDef
<1>5. ASSUME NEW s \in Step, NEW i \in 1 .. MaxSteps
      PROVE  ShotFile(s, i) \in File /\ SnapFile(s, i) \in File
  <2>1. s.name \in Name \cup {NoName} /\ s.kind \in Kind /\ s.format \in Extension
    BY Constants DEF StepType, Extension
  <2>2. FileName(s, i) \in Name \cup Label
    BY <2>1 DEF FileName, Label
  <2>3. QED
    BY <2>1, <2>2 DEF ShotFile, SnapFile, File, Extension
<1>6. QED
  BY <1>1, <1>4, <1>5

\* Where the files go: the page state keeps to itself, and nothing else of a kind
\* is known but its extension.
LEMMA Paths ==
  /\ \A f \in File : PathOf(f) \in Path
  /\ \A f \in Range(StateFiles) : PathOf(f) = f /\ f[1] = "state"
  /\ PathOf(PlanFile)[1] = "json"
  /\ \A s \in Step, i \in 1 .. MaxSteps :
       PathOf(ShotFile(s, i))[1] = "png" /\ PathOf(SnapFile(s, i))[1] \in {"html", "json"}
<1>1. \A f \in Range(StateFiles) : PathOf(f) = f /\ f[1] = "state"
  BY DEF PathOf, Range, StateFiles
<1>2. PlanFile \notin Range(StateFiles) /\ PathOf(PlanFile) = <<"json", PlanName>>
  BY DEF PlanFile, PathOf, Range, StateFiles
<1>3. ASSUME NEW e \in Extension, NEW n \in Name \cup Label
      PROVE  PathOf(<<e, n>>) = <<e, SafeName[n]>> /\ <<e, SafeName[n]>> \in Path
  <2>1. <<e, n>> # PlanFile /\ <<e, n>> \notin Range(StateFiles)
    BY DEF PlanFile, Range, StateFiles, Extension
  <2>2. SafeName[n] \in Base
    BY Constants
  <2>3. QED
    BY <2>1, <2>2 DEF PathOf, Path
<1>4. \A f \in File : PathOf(f) \in Path
  <2>1. <<"json", PlanName>> \in Path
    BY Constants DEF Path, Extension
  <2>2. ASSUME NEW f \in Extension \X (Name \cup Label) PROVE PathOf(f) \in Path
    <3>1. PICK e \in Extension, n \in Name \cup Label : f = <<e, n>>
      OBVIOUS
    <3>2. QED
      BY <1>3, <3>1
  <2>3. \A f \in Range(StateFiles) : PathOf(f) \in Path
    BY <1>1 DEF Path
  <2>4. QED
    BY <1>2, <2>1, <2>2, <2>3 DEF File
<1>5. ASSUME NEW s \in Step, NEW i \in 1 .. MaxSteps
      PROVE  PathOf(ShotFile(s, i))[1] = "png" /\ PathOf(SnapFile(s, i))[1] \in {"html", "json"}
  <2>1. s.name \in Name \cup {NoName} /\ s.kind \in Kind /\ s.format \in {"html", "json"}
    BY Constants DEF StepType
  <2>2. FileName(s, i) \in Name \cup Label
    BY <2>1 DEF FileName, Label
  <2>3. /\ PathOf(<<"png", FileName(s, i)>>) = <<"png", SafeName[FileName(s, i)]>>
        /\ PathOf(<<s.format, FileName(s, i)>>) = <<s.format, SafeName[FileName(s, i)]>>
    BY <1>3, <2>1, <2>2 DEF Extension
  <2>4. QED
    BY <2>1, <2>3 DEF ShotFile, SnapFile
<1>6. QED
  BY <1>1, <1>2, <1>4, <1>5

\* A script, and what max_steps leaves of it, is a sequence of steps.
LEMMA Scripts ==
  ASSUME NEW p \in Script \cup {<<>>}
  PROVE  /\ p \in Seq(Step)
         /\ Len(p) <= MaxSteps
         /\ \A n \in Nat : n < Len(p) => SubSeq(p, 1, n) \in Script \cup {<<>>}
<1>1. CASE p = <<>>
  BY <1>1, Constants
<1>2. ASSUME NEW m \in 1 .. MaxSteps, p \in [1 .. m -> Step]
      PROVE  /\ p \in Seq(Step)
             /\ Len(p) <= MaxSteps
             /\ \A n \in Nat : n < Len(p) => SubSeq(p, 1, n) \in Script \cup {<<>>}
  <2>1. m \in Nat /\ MaxSteps \in Nat
    BY Constants
  <2>2. p \in Seq(Step) /\ Len(p) = m
    BY <1>2, <2>1, SeqDef
  <2>3. ASSUME NEW n \in Nat, n < Len(p)
        PROVE  SubSeq(p, 1, n) \in Script \cup {<<>>}
    <3>1. SubSeq(p, 1, n) \in Seq(Step) /\ Len(SubSeq(p, 1, n)) = n
      BY <2>1, <2>2, <2>3, SubSeqProperties
    <3>2. CASE n = 0
      BY <3>1, <3>2, EmptySeq
    <3>3. CASE n # 0
      <4>1. SubSeq(p, 1, n) \in [1 .. n -> Step]
        BY <3>1, LenProperties
      <4>2. m <= MaxSteps /\ n < m
        BY <2>2, <2>3
      <4>3. n \in 1 .. MaxSteps
        BY <2>1, <3>3, <4>2
      <4>4. QED
        BY <4>1, <4>3 DEF Script
    <3>4. QED
      BY <3>2, <3>3
  <2>4. QED
    BY <2>1, <2>2, <2>3
<1>3. QED
  BY <1>1, <1>2 DEF Script

\* Where a run may be while it looks at a step.
Walking == {"step", "act", "draw", "shot", "snap"}

\* While a run is inside a step, its position is that of a step of its plan.
PosInv == \A r \in Run :
  /\ pc[r] \in Walking => pos[r] >= 1
  /\ pc[r] \in Walking \ {"step"} => pos[r] <= Len(plan[r])
  /\ pc[r] = "draw" => Current(r).kind = "draw"

TypeInv == TypeOK /\ PosInv

\* What a run inside a step may rely on.
LEMMA InStep ==
  ASSUME TypeInv, NEW r \in Run, pc[r] \in Walking, pos[r] <= Len(plan[r])
  PROVE  /\ pos[r] \in 1 .. Len(plan[r])
         /\ pos[r] \in 1 .. MaxSteps
         /\ Current(r) \in Step
         /\ Current(r).kind \in Kind /\ Current(r).tries \in Nat
<1>1. plan[r] \in Script \cup {<<>>} /\ pos[r] \in Nat
  BY DEF TypeInv, TypeOK
<1>2. plan[r] \in Seq(Step) /\ Len(plan[r]) <= MaxSteps
  BY <1>1, Scripts
<1>3. pos[r] \in 1 .. Len(plan[r]) /\ pos[r] \in 1 .. MaxSteps
  BY <1>1, <1>2, Constants DEF TypeInv, PosInv
<1>4. Current(r) \in Step
  BY <1>2, <1>3, ElementOfSeq DEF Current
<1>5. QED
  BY <1>3, <1>4, Constants DEF StepType

\* Writing files puts them on disk and in the queue of the run.
LEMMA WriteTypes ==
  ASSUME TypeInv, NEW r \in Run, NEW files \in Seq(File), Write(r, files)
  PROVE  /\ content' \in [Path -> Nat]
         /\ todo' \in [Run -> Seq(File)]
         /\ UNCHANGED <<rows, ids>>
BY DEF TypeInv, TypeOK, Write

\* A run that has a plan is at its first step.
LEMMA Begins ==
  ASSUME TypeInv, NEW r \in Run, NEW p \in Script \cup {<<>>}, NEW b \in BOOLEAN,
         pc' = [pc EXCEPT ![r] = "step"], plan' = [plan EXCEPT ![r] = p],
         shots' = [shots EXCEPT ![r] = b], pos' = [pos EXCEPT ![r] = 1]
  PROVE  /\ pc' \in [Run -> PC] /\ plan' \in [Run -> Script \cup {<<>>}]
         /\ shots' \in [Run -> BOOLEAN] /\ pos' \in [Run -> Nat]
         /\ \A q \in Run : pos'[q] <= Len(plan'[q]) + 1
         /\ PosInv'
<1>1. Len(p) \in Nat
  BY Scripts
<1>2. /\ pc' \in [Run -> PC] /\ plan' \in [Run -> Script \cup {<<>>}]
      /\ shots' \in [Run -> BOOLEAN] /\ pos' \in [Run -> Nat]
  BY DEF TypeInv, TypeOK, PC
<1>3. ASSUME NEW q \in Run, q # r
      PROVE  pc'[q] = pc[q] /\ plan'[q] = plan[q] /\ pos'[q] = pos[q]
  BY <1>3 DEF TypeInv, TypeOK
<1>4. pc'[r] = "step" /\ plan'[r] = p /\ pos'[r] = 1
  BY DEF TypeInv, TypeOK
<1>5. \A q \in Run : pos'[q] <= Len(plan'[q]) + 1
  BY <1>1, <1>3, <1>4 DEF TypeInv, TypeOK
<1>6. PosInv'
  BY <1>3, <1>4 DEF TypeInv, PosInv, Walking, Current
<1>7. QED
  BY <1>2, <1>5, <1>6

\* The start of a run gives it a plan and its first step.
LEMMA TypesStart ==
  ASSUME TypeInv, NEW r \in Run,
         Deliver(r) \/ Attach(r) \/ CaptureState(r) \/ PlanSteps(r)
  PROVE  TypeInv'
<1> USE DEF TypeInv, TypeOK, PosInv, Walking, Current, PC, Why, Goto, Raise, At
<1>1. CASE Deliver(r)
  BY <1>1 DEF Deliver, planVars, stepVars, artifactVars
<1>2. CASE Attach(r)
  <2>1. request.steps \in Script \cup {<<>>} /\ request.shots \in BOOLEAN
    BY DEF Request
  <2>2. request.steps \in Seq(Step) /\ Len(request.steps) \in Nat
    BY <2>1, Scripts
  <2>3. UNCHANGED <<request, artifactVars, links, pressed>>
    BY <1>2 DEF Attach
  <2>4. CASE Raise(r, "attach") /\ UNCHANGED <<planVars, stepVars>>
    BY <2>3, <2>4 DEF planVars, stepVars, artifactVars
  <2>5. CASE /\ Goto(r, IF request.capture THEN "capture" ELSE "plan")
             /\ UNCHANGED <<planVars, stepVars>>
    BY <2>3, <2>5 DEF planVars, stepVars, artifactVars
  <2>6. CASE /\ Goto(r, "step")
             /\ plan' = [plan EXCEPT ![r] = request.steps]
             /\ shots' = [shots EXCEPT ![r] = request.shots]
             /\ pos' = [pos EXCEPT ![r] = 1]
             /\ UNCHANGED <<tried, acted, late>>
    BY <2>1, <2>3, <2>6, Begins DEF artifactVars
  <2>7. QED
    BY <1>2, <2>4, <2>5, <2>6 DEF Attach
<1>3. CASE CaptureState(r)
  BY <1>3, Files, WriteTypes DEF CaptureState, CapturePage, planVars, stepVars, artifactVars
<1>4. CASE PlanSteps(r)
  <2>1. ASSUME NEW p \in Script \cup {<<>>}, NEW b \in BOOLEAN, Adopt(r, p, b),
               UNCHANGED <<request, links, pressed>>, pc[r] = "plan"
        PROVE  TypeInv'
    <3>1. p \in Seq(Step) /\ Len(p) \in Nat
      BY <2>1, Scripts
    <3>2. <<PlanFile>> \in Seq(File)
      BY Files
    <3>3. content' \in [Path -> Nat] /\ todo' \in [Run -> Seq(File)] /\ UNCHANGED <<rows, ids>>
      BY <2>1, <3>2, WriteTypes DEF Adopt
    <3>4. QED
      BY <2>1, <3>1, <3>3, Begins DEF Adopt
  <2>2. ASSUME PlanFails(r), UNCHANGED <<request, links, pressed>> PROVE TypeInv'
    BY <2>2 DEF PlanFails, planVars, stepVars, artifactVars
  <2>3. request.steps \in Script \cup {<<>>} /\ request.shots \in BOOLEAN
    BY DEF Request
  <2>4. CASE FallBack(r)
    BY <1>4, <2>1, <2>2, <2>3, <2>4 DEF FallBack, PlanSteps
  <2>5. ASSUME NEW p \in Script \cup {<<>>}, NEW b \in BOOLEAN, UseAnswer(r, p, b)
        PROVE  TypeInv'
    <3>1. PlanLimit \in Nat /\ Len(p) \in Nat
      BY Constants, Scripts
    <3>2. (IF Len(p) <= PlanLimit THEN p ELSE SubSeq(p, 1, PlanLimit)) \in Script \cup {<<>>}
      <4>1. CASE Len(p) <= PlanLimit
        BY <4>1
      <4>2. CASE ~(Len(p) <= PlanLimit)
        <5>1. PlanLimit < Len(p)
          BY <3>1, <4>2
        <5>2. SubSeq(p, 1, PlanLimit) \in Script \cup {<<>>}
          BY <3>1, <5>1, Scripts
        <5>3. QED
          BY <4>2, <5>2
      <4>3. QED
        BY <4>1, <4>2
    <3>3. (b \/ request.shots) \in BOOLEAN
      BY <2>3
    <3>4. QED
      BY <1>4, <2>1, <2>2, <2>5, <3>2, <3>3 DEF UseAnswer, PlanSteps
  <2>6. QED
    BY <1>4, <2>2, <2>4, <2>5 DEF PlanSteps
<1>5. QED
  BY <1>1, <1>2, <1>3, <1>4

\* The rows without a checksum: at most one of each run, that of the first file it
\* has written and not yet registered; and what a run has written exists.
QueueInv == \A r \in Run :
  /\ \A k \in OpenRows(r) :
       /\ todo[r] # <<>> /\ rows[k].file = Head(todo[r])
       /\ \A j \in OpenRows(r) : j = k
  /\ \A f \in Range(todo[r]) : content[PathOf(f)] > 0

RowType == [file : File, sum : Nat, by : Run]

\* A row with another checksum is a row.
LEMMA ChecksumTypes ==
  ASSUME rows \in Seq(RowType), NEW k \in 1 .. Len(rows), NEW n \in Nat,
         rows' = [rows EXCEPT ![k].sum = n]
  PROVE  /\ rows' \in Seq(RowType) /\ Len(rows') = Len(rows)
         /\ rows'[k].sum = n /\ rows'[k].file = rows[k].file /\ rows'[k].by = rows[k].by
         /\ \A j \in 1 .. Len(rows) : j # k => rows'[j] = rows[j]
<1>1. rows \in [1 .. Len(rows) -> RowType] /\ Len(rows) \in Nat
  BY LenProperties
<1>2. rows[k] \in RowType
  BY <1>1
<1>3. [rows[k] EXCEPT !.sum = n] \in RowType
  BY <1>2 DEF RowType
<1>4. rows' = [rows EXCEPT ![k] = [rows[k] EXCEPT !.sum = n]]
  OBVIOUS
<1>5. rows' \in [1 .. Len(rows) -> RowType]
  BY <1>1, <1>3, <1>4
<1>6. rows' \in Seq(RowType) /\ Len(rows') = Len(rows)
  BY <1>1, <1>5, SeqDef
<1>7. rows'[k] = [rows[k] EXCEPT !.sum = n] /\ \A j \in 1 .. Len(rows) : j # k => rows'[j] = rows[j]
  BY <1>1, <1>4
<1>8. QED
  BY <1>2, <1>6, <1>7 DEF RowType

\* Registering adds a row to the end, and a checksum to a row.
LEMMA TypesRegister ==
  ASSUME TypeInv, QueueInv, NEW r \in Run,
         Register(r) \/ Checksum(r) \/ RegisterFails(r)
  PROVE  TypeInv'
<1> USE DEF TypeInv, TypeOK
<1>1. /\ pc' = pc \/ pc' = [pc EXCEPT ![r] = "raised"]
      /\ UNCHANGED <<request, planVars, stepVars, content, links, pressed>>
      /\ failure' \in [Run -> Why]
  BY DEF Register, Checksum, RegisterFails, Raise, Why, artifactVars
<1>2. PosInv' /\ pc' \in [Run -> PC]
  BY <1>1 DEF PosInv, Walking, Current, PC, planVars, stepVars
<1>3. todo[r] \in Seq(File)
  OBVIOUS
<1>4. CASE Register(r)
  <2>1. Head(todo[r]) \in File /\ Tail(todo[r]) \in Seq(File)
    BY <1>3, <1>4 DEF Register
  <2>2. [file |-> Head(todo[r]), sum |-> 0, by |-> r] \in [file : File, sum : Nat, by : Run]
    BY <2>1
  <2>3. /\ rows' \in Seq([file : File, sum : Nat, by : Run]) /\ Len(rows') >= Len(rows)
        /\ todo' \in [Run -> Seq(File)] /\ UNCHANGED ids
    <3>0. Len(rows) \in Nat /\ UNCHANGED ids
      BY <1>4 DEF Register
    <3>1. CASE todo' = [todo EXCEPT ![r] = Tail(@)] /\ UNCHANGED rows
      BY <2>1, <3>0, <3>1
    <3>2. CASE rows' = Append(rows, [file |-> Head(todo[r]), sum |-> 0, by |-> r]) /\ UNCHANGED todo
      BY <1>4, <2>2, <3>2 DEF Register
    <3>3. QED
      BY <1>4, <3>1, <3>2 DEF Register
  <2>4. Len(rows) \in Nat /\ Len(rows') \in Nat
    BY <2>3
  <2>5. ids' \in [Run -> SUBSET (1 .. Len(rows'))]
    BY <2>3, <2>4, SMTT(30)
  <2>6. links' \subseteq (1 .. Len(rows')) \X (1 .. Len(rows'))
    <3>1. 1 .. Len(rows) \subseteq 1 .. Len(rows')
      BY <2>3, <2>4
    <3>2. QED
      BY <1>1, <3>1
  <2>7. QED
    BY <1>1, <1>2, <2>3, <2>5, <2>6 DEF planVars, stepVars
<1>5. CASE Checksum(r)
  <2>1. PICK k \in OpenRows(r) :
          /\ rows' = [rows EXCEPT ![k].sum = content[PathOf(rows[k].file)]]
          /\ ids' = [ids EXCEPT ![r] = @ \cup {k}]
    BY <1>5 DEF Checksum
  <2>2. k \in 1 .. Len(rows)
    BY DEF OpenRows
  <2>3. rows[k] \in [file : File, sum : Nat, by : Run]
    BY <2>2, ElementOfSeq
  <2>4. rows' \in Seq([file : File, sum : Nat, by : Run]) /\ Len(rows') = Len(rows)
    <3>1. rows \in Seq(RowType) /\ content[PathOf(rows[k].file)] \in Nat
      BY <2>3, Paths DEF RowType
    <3>2. rows' \in Seq(RowType) /\ Len(rows') = Len(rows)
      BY <2>1, <2>2, <3>1, ChecksumTypes
    <3>3. QED
      BY <3>2 DEF RowType
  <2>5. ids' \in [Run -> SUBSET (1 .. Len(rows'))]
    BY <2>1, <2>2, <2>4
  <2>6. todo[r] # <<>> /\ todo' = [todo EXCEPT ![r] = Tail(@)]
    BY <1>5 DEF Checksum, QueueInv
  <2>7. todo' \in [Run -> Seq(File)]
    BY <1>3, <2>6
  <2>8. QED
    BY <1>1, <1>2, <2>4, <2>5, <2>7 DEF planVars, stepVars
<1>6. CASE RegisterFails(r)
  BY <1>1, <1>2, <1>6, ZenonT(40) DEF RegisterFails, planVars, stepVars, artifactVars
<1>7. QED
  BY <1>4, <1>5, <1>6

\* The counters of a step stay numbers.
LEMMA CountTypes ==
  ASSUME TypeInv, NEW r \in Run,
         \/ NextStep(r)
         \/ /\ tried' \in {tried, [tried EXCEPT ![r] = @ + 1]}
            /\ acted' \in {acted, [acted EXCEPT ![r] = @ + 1]}
            /\ late' \in {late, [late EXCEPT ![r] = @ + 1]}
  PROVE  {tried', acted', late'} \subseteq [Run -> Nat]
<1>1. tried \in [Run -> Nat] /\ acted \in [Run -> Nat] /\ late \in [Run -> Nat]
  BY DEF TypeInv, TypeOK
<1>2. tried' \in [Run -> Nat]
  BY <1>1 DEF NextStep
<1>3. acted' \in [Run -> Nat]
  BY <1>1 DEF NextStep
<1>4. late' \in [Run -> Nat]
  BY <1>1 DEF NextStep
<1>5. QED
  BY <1>2, <1>3, <1>4

\* A step that is skipped, tried, given up or drawn.
LEMMA TypesTry ==
  ASSUME TypeInv, NEW r \in Run,
         \/ BeginStep(r) \/ ScopeFails(r) \/ TryLocator(r) \/ TryRaises(r)
         \/ GiveUp(r) \/ ActPlain(r) \/ Press(r) \/ Release(r) \/ DrawRaises(r)
  PROVE  TypeInv'
<1> USE DEF TypeInv, TypeOK, PosInv, Walking, Current, PC, Why, Goto, Raise, At, AtStep
<1>1. CASE BeginStep(r)
  <2>1. Len(plan[r]) \in Nat /\ pos[r] <= Len(plan[r]) /\ pos[r] >= 1 /\ pos[r] \in Nat
    BY <1>1, Scripts DEF BeginStep
  <2>2. CASE NextStep(r)
    <3>1. {tried', acted', late'} \subseteq [Run -> Nat]
      BY <2>2, CountTypes
    <3>2. pos' = [pos EXCEPT ![r] = @ + 1] /\ pc[r] = "step"
      BY <1>1, <2>2 DEF BeginStep, NextStep
    <3>4. UNCHANGED <<request, plan, shots, content, rows, todo, ids, links, pressed>>
      BY <1>1 DEF BeginStep, planVars, artifactVars
    <3>5. failure' \in [Run -> Why]
      BY <1>1 DEF BeginStep
    <3>6. pc' = pc
      BY <1>1, <2>1, <3>2 DEF BeginStep, stepVars
    <3>7. PosInv' /\ pos' \in [Run -> Nat] /\ \A q \in Run : pos'[q] <= Len(plan'[q]) + 1
      <4>1. pos'[r] = pos[r] + 1 /\ \A q \in Run : q # r => pos'[q] = pos[q]
        BY <3>2
      <4>2. pos' \in [Run -> Nat]
        BY <2>1, <3>2
      <4>3. \A q \in Run : pos'[q] <= Len(plan'[q]) + 1
        <5>1. plan' = plan /\ \A q \in Run : pos[q] <= Len(plan[q]) + 1
          BY <3>4
        <5>2. pos[r] + 1 <= Len(plan[r]) + 1
          BY <2>1
        <5>3. QED
          BY <4>1, <5>1, <5>2
      <4>4. PosInv'
        BY <2>1, <3>2, <3>4, <3>6, <4>1
      <4>5. QED
        BY <4>2, <4>3, <4>4
    <3>8. QED
      BY <3>1, <3>4, <3>5, <3>6, <3>7
  <2>3. CASE UNCHANGED stepVars
    BY <1>1, <2>1, <2>3 DEF BeginStep, planVars, stepVars, artifactVars
  <2>4. QED
    BY <1>1, <2>2, <2>3 DEF BeginStep
<1>2. CASE ScopeFails(r)
  BY <1>2 DEF ScopeFails, planVars, stepVars, artifactVars
<1>3. CASE TryLocator(r)
  <2>1. {tried', acted', late'} \subseteq [Run -> Nat]
    BY <1>3, CountTypes DEF TryLocator
  <2>2. QED
    BY <1>3, <2>1 DEF TryLocator, planVars, artifactVars
<1>4. CASE TryRaises(r)
  <2>1. {tried', acted', late'} \subseteq [Run -> Nat]
    BY <1>4, CountTypes DEF TryRaises
  <2>2. QED
    BY <1>4, <2>1 DEF TryRaises, planVars, artifactVars
<1>5. CASE GiveUp(r)
  BY <1>5 DEF GiveUp, planVars, stepVars, artifactVars
<1>6. CASE ActPlain(r)
  <2>1. {tried', acted', late'} \subseteq [Run -> Nat]
    BY <1>6, CountTypes DEF ActPlain
  <2>2. QED
    BY <1>6, <2>1, ZenonT(40) DEF ActPlain, planVars, artifactVars
<1>7. CASE Press(r)
  BY <1>7 DEF Press, planVars, stepVars, artifactVars
<1>8. CASE Release(r)
  <2>1. {tried', acted', late'} \subseteq [Run -> Nat]
    BY <1>8, CountTypes DEF Release
  <2>2. QED
    BY <1>8, <2>1 DEF Release, planVars, artifactVars
<1>9. CASE DrawRaises(r)
  BY <1>9 DEF DrawRaises, planVars, stepVars, artifactVars
<1>10. QED
  BY <1>1, <1>2, <1>3, <1>4, <1>5, <1>6, <1>7, <1>8, <1>9

\* A step that writes files, and the end of a step.
LEMMA TypesWrite ==
  ASSUME TypeInv, NEW r \in Run, ActPageState(r) \/ Screenshot(r) \/ Snapshot(r)
  PROVE  TypeInv'
<1> USE DEF TypeInv, TypeOK, PosInv, Walking, Current, PC, Why, Goto, Raise, At, AtStep
<1>1. CASE ActPageState(r)
  BY <1>1, Files, WriteTypes DEF ActPageState, CapturePage, planVars, stepVars, artifactVars
<1>2. ASSUME pc[r] \in {"shot", "snap"}
      PROVE  /\ <<ShotFile(Current(r), pos[r])>> \in Seq(File)
             /\ <<SnapFile(Current(r), pos[r])>> \in Seq(File)
             /\ pos[r] \in 1 .. Len(plan[r]) /\ Len(plan[r]) \in Nat
  <2>1. pos[r] <= Len(plan[r])
    BY <1>2
  <2>2. /\ pos[r] \in 1 .. Len(plan[r]) /\ pos[r] \in 1 .. MaxSteps /\ Current(r) \in Step
    BY <1>2, <2>1, InStep
  <2>3. /\ ShotFile(Current(r), pos[r]) \in File
        /\ SnapFile(Current(r), pos[r]) \in File
    BY <2>2, Files
  <2>4. Len(plan[r]) \in Nat
    BY Scripts
  <2>5. QED
    BY <2>2, <2>3, <2>4
<1>3. CASE Screenshot(r)
  <2>1. CASE UNCHANGED artifactVars
    BY <1>3, <2>1 DEF Screenshot, planVars, stepVars, artifactVars
  <2>2. CASE /\ Goto(r, "snap")
             /\ Write(r, <<ShotFile(Current(r), pos[r])>>)
    <3>1. content' \in [Path -> Nat] /\ todo' \in [Run -> Seq(File)] /\ UNCHANGED <<rows, ids>>
      BY <1>2, <1>3, <2>2, WriteTypes DEF Screenshot
    <3>2. QED
      BY <1>3, <2>2, <3>1 DEF Screenshot, planVars, stepVars
  <2>3. QED
    BY <1>3, <2>1, <2>2 DEF Screenshot
<1>4. CASE Snapshot(r)
  <2>0. pos[r] \in 1 .. Len(plan[r]) /\ Len(plan[r]) \in Nat
    BY <1>2, <1>4 DEF Snapshot
  <2>1. CASE Raise(r, "page") /\ UNCHANGED <<stepVars, artifactVars>>
    BY <1>4, <2>1 DEF Snapshot, planVars, stepVars, artifactVars
  <2>2. ASSUME Goto(r, "step"), NextStep(r) PROVE PosInv' /\ pos' \in [Run -> Nat]
                  /\ pc' \in [Run -> PC] /\ \A q \in Run : pos'[q] <= Len(plan'[q]) + 1
    BY <1>4, <2>0, <2>2, SMTT(30) DEF Snapshot, NextStep, planVars
  <2>3. CASE /\ Write(r, <<SnapFile(Current(r), pos[r])>>)
             /\ Goto(r, "step") /\ NextStep(r)
    <3>1. content' \in [Path -> Nat] /\ todo' \in [Run -> Seq(File)] /\ UNCHANGED <<rows, ids>>
      BY <1>2, <1>4, <2>3, WriteTypes DEF Snapshot
    <3>2. QED
      BY <1>4, <2>2, <2>3, <3>1, CountTypes DEF Snapshot, planVars
  <2>4. CASE Goto(r, "step") /\ NextStep(r) /\ UNCHANGED artifactVars
    BY <1>4, <2>2, <2>4, CountTypes DEF Snapshot, planVars, artifactVars
  <2>5. QED
    BY <1>4, <2>1, <2>3, <2>4 DEF Snapshot
<1>5. QED
  BY <1>1, <1>3, <1>4

\* The end of a run, and the death of the worker.
LEMMA TypesEnd ==
  ASSUME TypeInv,
         (\E r \in Run : Finish(r) \/ Link(r) \/ LinkFails(r)) \/ Crash \/ UNCHANGED vars
  PROVE  TypeInv'
<1> USE DEF TypeInv, TypeOK, PosInv, Walking, Current, PC, Why, Goto, Raise, At, Live
<1>1. ASSUME NEW r \in Run, Finish(r) PROVE TypeInv'
  BY <1>1 DEF Finish, planVars, stepVars, artifactVars
<1>2. ASSUME NEW r \in Run, Link(r) PROVE TypeInv'
  <2>1. PlanRow(r) \subseteq 1 .. Len(rows) /\ ids[r] \subseteq 1 .. Len(rows)
    BY DEF PlanRow
  <2>2. links' \subseteq (1 .. Len(rows)) \X (1 .. Len(rows))
    BY <1>2, <2>1 DEF Link
  <2>3. QED
    BY <1>2, <2>2 DEF Link, planVars, stepVars, artifactVars
<1>3. ASSUME NEW r \in Run, LinkFails(r) PROVE TypeInv'
  BY <1>3 DEF LinkFails, planVars, stepVars, artifactVars
<1>4. CASE Crash
  BY <1>4 DEF Crash, planVars, stepVars, artifactVars
<1>5. CASE UNCHANGED vars
  BY <1>5 DEF vars, planVars, stepVars, artifactVars
<1>6. QED
  BY <1>1, <1>2, <1>3, <1>4, <1>5

\* Every step keeps the types.
LEMMA StepTypes ==
  ASSUME TypeInv, QueueInv, [Next]_vars
  PROVE  TypeInv'
BY TypesStart, TypesRegister, TypesTry, TypesWrite, TypesEnd DEF Next, RunStep

--------------------------------------------------------------------------------
(* Files, rows and links *)

\* What a run reports is what has its checksum.
IdsInv == \A r \in Run : ids[r] = {k \in 1 .. Len(rows) : rows[k].by = r /\ rows[k].sum > 0}

\* Nothing is left to register at the end of a run that completes.
EndInv == \A r \in Run : pc[r] \in {"link", "returned"} => todo[r] = <<>>

\* A link joins the plan of a run that is over to another artifact.
LinkInv == \A l \in links :
  /\ rows[l[1]].file = PlanFile /\ rows[l[2]].file # PlanFile
  /\ pc[rows[l[2]].by] = "returned"

ArtInv ==
  TypeOK /\ QueueInv /\ IdsInv /\ EndInv /\ LinkInv /\ FileHasItsRow /\ CompletedIsLinked

\* The kinds of step, as far as files, rows and links can tell: a run that only
\* moves on, one that writes files, and one that registers, sums or links.
MovesOn(r) ==
  /\ UNCHANGED <<artifactVars, links>>
  /\ pc[r] \notin Ended
  /\ \E p \in PC :
       /\ pc' = [pc EXCEPT ![r] = p]
       /\ p \in {"link", "returned"} => todo[r] = <<>>
       /\ p = "returned" => ~request.agent \/ ids[r] = {}

Writing(r) ==
  /\ todo[r] = <<>> /\ pc[r] \notin Ended
  /\ \E files \in Seq(File) : Write(r, files)
  /\ UNCHANGED links
  /\ \E p \in PC \ {"link", "returned"} : pc' = [pc EXCEPT ![r] = p]

\* Every step of a run is of one of these kinds.
LEMMA Shapes ==
  ASSUME TypeInv, NEW r \in Run, Deliver(r) \/ RunStep(r)
  PROVE  /\ UNCHANGED request
         /\ MovesOn(r) \/ Writing(r) \/ Register(r) \/ Checksum(r) \/ Link(r)
<1> USE DEF At, AtStep, Goto, Raise, PC, Ended, MovesOn
<1>0. pc \in [Run -> PC]
  BY DEF TypeInv, TypeOK
<1>1. CASE Deliver(r)
  BY <1>1 DEF Deliver
<1>2. CASE Attach(r)
  <2>1. UNCHANGED <<request, artifactVars, links>> /\ pc[r] = "begin"
    BY <1>2 DEF Attach
  <2>2. \E p \in {"raised", "capture", "plan", "step"} : pc' = [pc EXCEPT ![r] = p]
    BY <1>2 DEF Attach
  <2>3. QED
    BY <2>1, <2>2
<1>3. CASE CaptureState(r)
  BY <1>3, Files DEF CaptureState, CapturePage, Writing
<1>4. CASE PlanSteps(r)
  <2>1. <<PlanFile>> \in Seq(File)
    BY Files
  <2>2. ASSUME NEW p, NEW b, Adopt(r, p, b), UNCHANGED <<request, links>>,
               pc[r] = "plan", todo[r] = <<>>
        PROVE  Writing(r) /\ UNCHANGED request
    BY <2>1, <2>2 DEF Adopt, Writing
  <2>3. ASSUME PlanFails(r), UNCHANGED <<request, links>>, pc[r] = "plan"
        PROVE  MovesOn(r) /\ UNCHANGED request
    BY <2>3 DEF PlanFails
  <2>4. UNCHANGED <<request, links>> /\ pc[r] = "plan" /\ todo[r] = <<>>
    BY <1>4 DEF PlanSteps
  <2>5. QED
    BY <1>4, <2>2, <2>3, <2>4 DEF PlanSteps, FallBack, UseAnswer
<1>5. CASE RegisterFails(r)
  BY <1>5 DEF RegisterFails, Live
<1>6. CASE BeginStep(r)
  <2>1. UNCHANGED <<request, artifactVars, links>> /\ pc[r] = "step"
    BY <1>6 DEF BeginStep
  <2>2. \E p \in {"step", "raised", "shot", "act"} : pc' = [pc EXCEPT ![r] = p]
    <3>1. pc = [pc EXCEPT ![r] = "step"]
      BY <1>0, <2>1
    <3>2. QED
      BY <1>6, <3>1 DEF BeginStep
  <2>3. QED
    BY <2>1, <2>2
<1>7. CASE ScopeFails(r) \/ TryLocator(r) \/ GiveUp(r) \/ ActPlain(r)
  BY <1>7 DEF ScopeFails, TryLocator, GiveUp, ActPlain
<1>8. CASE TryRaises(r)
  <2>1. pc = [pc EXCEPT ![r] = "act"]
    BY <1>0, <1>8 DEF TryRaises
  <2>2. QED
    BY <1>8, <2>1 DEF TryRaises
<1>9. CASE Press(r) \/ Release(r) \/ DrawRaises(r)
  BY <1>9 DEF Press, Release, DrawRaises
<1>10. CASE ActPageState(r)
  BY <1>10, Files DEF ActPageState, CapturePage, Writing
<1>11. ASSUME pc[r] \in {"shot", "snap"}
       PROVE  /\ <<ShotFile(Current(r), pos[r])>> \in Seq(File)
              /\ <<SnapFile(Current(r), pos[r])>> \in Seq(File)
  <2>1. pos[r] <= Len(plan[r])
    BY <1>11 DEF TypeInv, PosInv, Walking
  <2>2. /\ pos[r] \in 1 .. MaxSteps /\ Current(r) \in Step
    BY <1>11, <2>1, InStep DEF Walking
  <2>3. QED
    BY <2>2, Files
<1>12. CASE Screenshot(r)
  BY <1>11, <1>12 DEF Screenshot, Writing
<1>13. CASE Snapshot(r)
  BY <1>11, <1>13 DEF Snapshot, Writing
<1>14. CASE Finish(r)
  BY <1>14 DEF Finish
<1>15. CASE LinkFails(r)
  BY <1>15 DEF LinkFails
<1>16. CASE Register(r) \/ Checksum(r) \/ Link(r)
  BY <1>16 DEF Register, Checksum, Link
<1>17. QED
  BY <1>1, <1>2, <1>3, <1>4, <1>5, <1>6, <1>7, <1>8, <1>9, <1>10, <1>12, <1>13,
     <1>14, <1>15, <1>16 DEF RunStep

\* The rows are a sequence of rows.
LEMMA Rows ==
  ASSUME TypeOK
  PROVE  /\ rows \in Seq(RowType) /\ Len(rows) \in Nat /\ DOMAIN rows = 1 .. Len(rows)
         /\ \A k \in 1 .. Len(rows) :
              rows[k].file \in File /\ rows[k].sum \in Nat /\ rows[k].by \in Run
<1>1. rows \in Seq(RowType)
  BY DEF TypeOK, RowType
<1>2. \A k \in 1 .. Len(rows) : rows[k] \in RowType
  BY <1>1, ElementOfSeq
<1>3. QED
  BY <1>1, <1>2, LenProperties DEF RowType

\* A file a run has written is either the next one to register or a later one.
LEMMA Queued ==
  ASSUME NEW q \in Seq(File), q # <<>>
  PROVE  /\ Head(q) \in Range(q)
         /\ Tail(q) \in Seq(File)
         /\ Range(Tail(q)) \subseteq Range(q)
         /\ Range(q) \subseteq {Head(q)} \cup Range(Tail(q))
<1>1. Len(q) \in Nat /\ DOMAIN q = 1 .. Len(q) /\ Len(q) # 0 /\ Head(q) = q[1]
  BY LenProperties
<1>2. /\ Tail(q) \in Seq(File) /\ DOMAIN Tail(q) = 1 .. Len(q) - 1
      /\ \A i \in 1 .. Len(q) - 1 : Tail(q)[i] = q[i + 1]
  BY <1>1, HeadTailProperties, LenProperties
<1>3. \A i \in 2 .. Len(q) : i - 1 \in 1 .. Len(q) - 1 /\ q[i] = Tail(q)[i - 1]
  BY <1>1, <1>2
<1>4. \A i \in 1 .. Len(q) : i = 1 \/ i \in 2 .. Len(q)
  BY <1>1
<1>5. \A i \in 1 .. Len(q) - 1 : i + 1 \in 1 .. Len(q)
  BY <1>1
<1>6. 1 \in 1 .. Len(q)
  BY <1>1
<1>7. Head(q) \in Range(q)
  BY <1>1, <1>6 DEF Range
<1>8. Range(Tail(q)) \subseteq Range(q)
  BY <1>1, <1>2, <1>5 DEF Range
<1>9. Range(q) \subseteq {Head(q)} \cup Range(Tail(q))
  <2>1. ASSUME NEW i \in 1 .. Len(q) PROVE q[i] \in {Head(q)} \cup Range(Tail(q))
    <3>1. CASE i = 1
      BY <1>1, <3>1
    <3>2. CASE i \in 2 .. Len(q)
      BY <1>2, <1>3, <3>2 DEF Range
    <3>3. QED
      BY <1>4, <3>1, <3>2
  <2>2. QED
    BY <1>1, <2>1 DEF Range
<1>10. QED
  BY <1>2, <1>7, <1>8, <1>9

\* Moving on, dying and stuttering touch no file, row or link; a run completes
\* only when nothing is left to register.
LEMMA ArtMoves ==
  ASSUME ArtInv, TypeOK', UNCHANGED <<request, artifactVars, links>>,
         \A r \in Run :
           \/ pc'[r] = pc[r]
           \/ /\ pc[r] \notin Ended
              /\ pc'[r] \in {"link", "returned"} => todo[r] = <<>>
              /\ pc'[r] = "returned" => ~request.agent \/ ids[r] = {}
  PROVE  ArtInv'
<1> USE DEF ArtInv, artifactVars
<1>1. QueueInv' /\ IdsInv'
  BY DEF QueueInv, OpenRows, IdsInv
<1>2. EndInv'
  BY DEF EndInv
<1>3. LinkInv'
  <2>1. \A l \in links : l[2] \in 1 .. Len(rows)
    BY DEF TypeOK
  <2>2. \A l \in links : rows[l[2]].by \in Run
    BY <2>1, Rows
  <2>3. QED
    BY <2>2 DEF LinkInv, Ended
<1>4. FileHasItsRow'
  BY DEF FileHasItsRow, AtCap
<1>5. CompletedIsLinked'
  BY DEF CompletedIsLinked, PlanRow, Ended
<1>6. QED
  BY <1>1, <1>2, <1>3, <1>4, <1>5

\* What a run writes exists, and is in its queue until it has a row.
LEMMA ArtWrites ==
  ASSUME ArtInv, TypeOK', NEW r \in Run, Writing(r), UNCHANGED request
  PROVE  ArtInv'
<1> USE DEF ArtInv, Ended
<1>1. PICK files \in Seq(File) : Write(r, files)
  BY DEF Writing
<1>2. PICK p \in PC \ {"link", "returned"} : pc' = [pc EXCEPT ![r] = p]
  BY DEF Writing
<1>3. /\ UNCHANGED <<rows, ids, links, request>>
      /\ \A q \in Run : todo'[q] = IF q = r THEN files ELSE todo[q]
      /\ \A q \in Run : pc'[q] = IF q = r THEN p ELSE pc[q]
      /\ \A d \in Path : content'[d] = content[d] + IF d \in PathsOf(files) THEN 1 ELSE 0
      /\ todo[r] = <<>> /\ pc[r] # "returned"
  BY <1>1, <1>2 DEF Writing, Write, TypeOK
<1>4. /\ \A d \in Path : content[d] \in Nat
      /\ \A q \in Run : \A f \in Range(todo[q]) : PathOf(f) \in Path
      /\ \A f \in Range(files) : PathOf(f) \in Path /\ PathOf(f) \in PathsOf(files)
  <2>1. ASSUME NEW t \in Seq(File), NEW f \in Range(t)
        PROVE  PathOf(f) \in Path /\ PathOf(f) \in PathsOf(t)
    <3>1. f \in File
      BY <2>1, LenProperties DEF Range
    <3>2. QED
      BY <2>1, <3>1, Paths DEF PathsOf
  <2>2. QED
    BY <2>1 DEF TypeOK
<1>5. QueueInv'
  <2>1. \A q \in Run : OpenRows(q)' = OpenRows(q)
    BY <1>3 DEF OpenRows
  <2>2. OpenRows(r) = {}
    BY <1>3 DEF QueueInv
  <2>3. \A q \in Run : \A f \in Range(todo'[q]) : content'[PathOf(f)] > 0
    BY <1>3, <1>4 DEF QueueInv
  <2>4. QED
    BY <1>3, <2>1, <2>2, <2>3 DEF QueueInv
<1>6. IdsInv'
  BY <1>3 DEF IdsInv
<1>7. EndInv'
  BY <1>3 DEF EndInv
<1>8. LinkInv'
  <2>1. \A l \in links : l[2] \in 1 .. Len(rows)
    BY DEF TypeOK
  <2>2. \A l \in links : rows[l[2]].by \in Run /\ rows[l[2]].by # r
    BY <1>3, <2>1, Rows DEF LinkInv
  <2>3. QED
    BY <1>3, <2>2 DEF LinkInv
<1>9. FileHasItsRow'
  <2> SUFFICES ASSUME NEW d \in Path, content'[d] > 0,
                      ~(\E q \in Run : d \in PathsOf(todo'[q])), ~AtCap'
               PROVE  \E k \in DOMAIN rows : PathOf(rows[k].file) = d /\ rows[k].sum = content'[d]
    BY <1>3 DEF FileHasItsRow
  <2>1. content'[d] = content[d]
    BY <1>3, <1>4
  <2>2. ~(\E q \in Run : d \in PathsOf(todo[q]))
    <3>1. d \notin PathsOf(todo[r])
      BY <1>3 DEF PathsOf, Range
    <3>2. QED
      BY <1>3, <3>1
  <2>3. ~AtCap
    BY <1>3 DEF AtCap
  <2>4. QED
    BY <2>1, <2>2, <2>3 DEF FileHasItsRow
<1>10. CompletedIsLinked'
  BY <1>3 DEF CompletedIsLinked, PlanRow
<1>11. QED
  BY <1>5, <1>6, <1>7, <1>8, <1>9, <1>10

\* A new row is the last, and is open; a file refused by the cap leaves the queue.
LEMMA ArtRegisters ==
  ASSUME ArtInv, TypeOK', NEW r \in Run, Register(r)
  PROVE  ArtInv'
<1> USE DEF ArtInv, Ended
<1>1. /\ UNCHANGED <<request, pc, ids, content, links>>
      /\ todo[r] \in Seq(File) /\ todo[r] # <<>> /\ OpenRows(r) = {} /\ Live(r)
  BY DEF Register, TypeOK
<1>2. EndInv'
  <2>1. \A q \in Run : q # r => todo'[q] = todo[q]
    BY DEF Register, TypeOK
  <2>2. pc[r] \notin {"link", "returned"}
    BY <1>1 DEF EndInv
  <2>3. QED
    BY <1>1, <2>1, <2>2 DEF EndInv
<1>3. CASE AtCap /\ todo' = [todo EXCEPT ![r] = Tail(@)] /\ UNCHANGED rows
  <2>1. \A q \in Run : Range(todo'[q]) \subseteq Range(todo[q])
    <3>1. \A q \in Run : todo'[q] = IF q = r THEN Tail(todo[r]) ELSE todo[q]
      BY <1>3 DEF TypeOK
    <3>2. QED
      BY <1>1, <3>1, Queued
  <2>2. \A q \in Run : OpenRows(q)' = OpenRows(q) /\ (q # r => todo'[q] = todo[q])
    BY <1>3 DEF OpenRows, TypeOK
  <2>3. QueueInv'
    <3>1. \A q \in Run : \A f \in Range(todo'[q]) : content'[PathOf(f)] > 0
      BY <1>1, <2>1 DEF QueueInv
    <3>2. ASSUME NEW q \in Run, NEW j \in OpenRows(q)'
          PROVE  /\ todo'[q] # <<>> /\ rows'[j].file = Head(todo'[q])
                 /\ \A i \in OpenRows(q)' : i = j
      <4>1. q # r /\ OpenRows(q)' = OpenRows(q) /\ todo'[q] = todo[q]
        BY <1>1, <2>2, <3>2
      <4>2. QED
        BY <1>3, <4>1 DEF QueueInv
    <3>3. QED
      BY <3>1, <3>2 DEF QueueInv
  <2>4. IdsInv' /\ LinkInv' /\ CompletedIsLinked'
    BY <1>1, <1>3 DEF IdsInv, LinkInv, CompletedIsLinked, PlanRow
  <2>5. FileHasItsRow'
    BY <1>3 DEF FileHasItsRow, AtCap
  <2>6. QED
    BY <1>2, <2>3, <2>4, <2>5
<1>4. CASE /\ rows' = Append(rows, [file |-> Head(todo[r]), sum |-> 0, by |-> r])
           /\ UNCHANGED todo
  <2> DEFINE n == Len(rows) + 1
  <2>1. /\ Len(rows) \in Nat /\ Len(rows') = n
        /\ rows'[n] = [file |-> Head(todo[r]), sum |-> 0, by |-> r]
        /\ \A k \in 1 .. Len(rows) : rows'[k] = rows[k]
        /\ DOMAIN rows = 1 .. Len(rows) /\ DOMAIN rows' = 1 .. n
        /\ 1 .. n = (1 .. Len(rows)) \cup {n}
    BY <1>4, Rows
  <2>2. rows'[n].file = Head(todo[r]) /\ rows'[n].sum = 0 /\ rows'[n].by = r
    BY <2>1
  <2> HIDE DEF n
  <2>3. OpenRows(r)' = {n} /\ \A q \in Run : q # r => OpenRows(q)' = OpenRows(q)
    BY <1>1, <2>1, <2>2 DEF OpenRows
  <2>4. QueueInv'
    BY <1>1, <1>4, <2>2, <2>3, <2>1 DEF QueueInv, OpenRows
  <2>5. \A q \in Run : ids[q] \subseteq 1 .. Len(rows)
    BY DEF TypeOK
  <2>6. IdsInv'
    BY <1>1, <2>1, <2>2 DEF IdsInv
  <2>7. \A l \in links : l[1] \in 1 .. Len(rows) /\ l[2] \in 1 .. Len(rows)
    BY DEF TypeOK
  <2>8. LinkInv'
    BY <1>1, <2>1, <2>7 DEF LinkInv
  <2>9. CompletedIsLinked'
    <3>1. \A q \in Run : PlanRow(q)' = PlanRow(q)
      BY <1>1, <2>1, <2>5 DEF PlanRow
    <3>2. QED
      BY <1>1, <3>1 DEF CompletedIsLinked
  <2>10. FileHasItsRow'
    <3>1. AtCap => AtCap'
      BY <2>1, Constants DEF AtCap, n
    <3>2. ASSUME NEW d \in Path, NEW k \in DOMAIN rows,
                 PathOf(rows[k].file) = d, rows[k].sum = content[d]
          PROVE  k \in DOMAIN rows' /\ PathOf(rows'[k].file) = d /\ rows'[k].sum = content'[d]
      BY <1>1, <2>1, <3>2
    <3>3. QED
      BY <1>1, <1>4, <3>1, <3>2 DEF FileHasItsRow
  <2>11. QED
    BY <1>2, <2>4, <2>6, <2>8, <2>9, <2>10
<1>5. QED
  BY <1>3, <1>4 DEF Register

\* The checksum is that of the file as it is now, and ends the row's registration.
LEMMA ArtSums ==
  ASSUME ArtInv, TypeOK', NEW r \in Run, Checksum(r)
  PROVE  ArtInv'
<1> USE DEF ArtInv, Ended
<1>1. PICK k \in OpenRows(r) :
        /\ rows' = [rows EXCEPT ![k].sum = content[PathOf(rows[k].file)]]
        /\ ids' = [ids EXCEPT ![r] = @ \cup {k}]
  BY DEF Checksum
<1>2. /\ UNCHANGED <<request, pc, content, links>> /\ Live(r)
      /\ todo' = [todo EXCEPT ![r] = Tail(@)]
  BY DEF Checksum
<1>3. /\ k \in 1 .. Len(rows) /\ rows[k].by = r /\ rows[k].sum = 0
      /\ todo[r] \in Seq(File) /\ todo[r] # <<>>
      /\ rows[k].file = Head(todo[r]) /\ \A j \in OpenRows(r) : j = k
  BY DEF OpenRows, QueueInv, TypeOK
<1>4. content[PathOf(rows[k].file)] > 0 /\ content[PathOf(rows[k].file)] \in Nat
  BY <1>3, Queued, Rows, Paths DEF QueueInv, TypeOK
<1>5. /\ Len(rows') = Len(rows) /\ DOMAIN rows = 1 .. Len(rows) /\ DOMAIN rows' = 1 .. Len(rows)
      /\ rows'[k].sum = content[PathOf(rows[k].file)]
      /\ \A j \in 1 .. Len(rows) : rows'[j].file = rows[j].file /\ rows'[j].by = rows[j].by
      /\ \A j \in 1 .. Len(rows) : j # k => rows'[j].sum = rows[j].sum
  <2>1. Len(rows') = Len(rows) /\ rows' \in Seq(RowType)
    BY <1>1, <1>3, <1>4, Rows, ChecksumTypes
  <2>2. DOMAIN rows' = 1 .. Len(rows)
    BY <2>1, LenProperties
  <2>3. QED
    BY <1>1, <1>3, <1>4, <2>1, <2>2, Rows, ChecksumTypes
<1>6. \A q \in Run : todo'[q] = IF q = r THEN Tail(todo[r]) ELSE todo[q]
  BY <1>2 DEF TypeOK
<1>7. \A q \in Run : Range(todo'[q]) \subseteq Range(todo[q])
  BY <1>3, <1>6, Queued
<1>8. OpenRows(r)' = {} /\ \A q \in Run : q # r => OpenRows(q)' = OpenRows(q)
  <2>1. \A j \in 1 .. Len(rows) : rows[j].by = r /\ rows[j].sum = 0 => j = k
    BY <1>3 DEF OpenRows
  <2>2. OpenRows(r)' = {}
    BY <1>4, <1>5, <2>1 DEF OpenRows
  <2>3. QED
    BY <1>3, <1>5, <2>2 DEF OpenRows
<1>9. QueueInv'
  <2>1. \A q \in Run : \A f \in Range(todo'[q]) : content'[PathOf(f)] > 0
    BY <1>2, <1>7 DEF QueueInv
  <2>2. ASSUME NEW q \in Run, NEW j \in OpenRows(q)'
        PROVE  /\ todo'[q] # <<>> /\ rows'[j].file = Head(todo'[q])
               /\ \A i \in OpenRows(q)' : i = j
    <3>1. q # r /\ OpenRows(q)' = OpenRows(q) /\ todo'[q] = todo[q]
      BY <1>6, <1>8, <2>2
    <3>2. j \in 1 .. Len(rows) /\ rows'[j].file = rows[j].file
      BY <1>5, <3>1 DEF OpenRows
    <3>3. QED
      BY <3>1, <3>2 DEF QueueInv
  <2>3. QED
    BY <2>1, <2>2 DEF QueueInv
<1>10. \A q \in Run : ids'[q] = IF q = r THEN ids[r] \cup {k} ELSE ids[q]
  BY <1>1 DEF TypeOK
<1>11. IdsInv'
  BY <1>3, <1>4, <1>5, <1>10, SMTT(30) DEF IdsInv
<1>12. EndInv'
  <2>1. pc[r] \notin {"link", "returned"}
    BY <1>3 DEF EndInv
  <2>2. QED
    BY <1>2, <1>6, <2>1 DEF EndInv
<1>13. LinkInv'
  <2>1. \A l \in links : l[1] \in 1 .. Len(rows) /\ l[2] \in 1 .. Len(rows)
    BY DEF TypeOK
  <2>2. QED
    BY <1>2, <1>5, <2>1 DEF LinkInv
<1>14. FileHasItsRow'
  <2>1. AtCap' = AtCap
    BY <1>5 DEF AtCap
  <2>2. ASSUME NEW d \in Path, content[d] > 0, NEW j \in DOMAIN rows,
               PathOf(rows[j].file) = d, rows[j].sum = content[d]
        PROVE  PathOf(rows'[j].file) = d /\ rows'[j].sum = content[d]
    BY <1>3, <1>5, <2>2 DEF TypeOK
  <2>3. ASSUME NEW d \in Path, NEW q \in Run, d \in PathsOf(todo[q])
        PROVE  \/ d \in PathsOf(todo'[q])
               \/ PathOf(rows'[k].file) = d /\ rows'[k].sum = content[d]
    <3>1. PICK f \in Range(todo[q]) : d = PathOf(f)
      BY <2>3 DEF PathsOf
    <3>2. f \in Range(todo'[q]) \/ rows'[k].file = f
      BY <1>3, <1>5, <1>6, <3>1, Queued
    <3>3. CASE f \in Range(todo'[q])
      BY <3>1, <3>3 DEF PathsOf
    <3>4. CASE rows'[k].file = f
      BY <1>3, <1>5, <3>1, <3>4
    <3>5. QED
      BY <3>2, <3>3, <3>4
  <2>4. QED
    BY <1>2, <1>3, <1>5, <2>1, <2>2, <2>3 DEF FileHasItsRow
<1>15. CompletedIsLinked'
  <2>1. pc[r] # "returned"
    BY <1>2 DEF Live
  <2>2. \A q \in Run : ids[q] \subseteq 1 .. Len(rows)
    BY DEF TypeOK
  <2>3. \A q \in Run : q # r => ids'[q] = ids[q] /\ PlanRow(q)' = PlanRow(q)
    BY <1>5, <1>10, <2>2 DEF PlanRow
  <2>4. QED
    BY <1>2, <2>1, <2>3 DEF CompletedIsLinked
<1>16. QED
  BY <1>9, <1>11, <1>12, <1>13, <1>14, <1>15

\* The links of a run join its own rows, and none had a parent before.
LEMMA ArtLinks ==
  ASSUME ArtInv, TypeOK', NEW r \in Run, Link(r)
  PROVE  ArtInv'
<1> USE DEF ArtInv, Ended
<1>1. /\ UNCHANGED <<request, artifactVars>> /\ pc[r] = "link" /\ todo[r] = <<>>
      /\ links' = links \cup (PlanRow(r) \X (ids[r] \ PlanRow(r)))
      /\ \A q \in Run : pc'[q] = IF q = r THEN "returned" ELSE pc[q]
  BY DEF Link, At, Goto, TypeOK
<1>2. QueueInv' /\ IdsInv' /\ EndInv' /\ FileHasItsRow'
  BY <1>1 DEF QueueInv, OpenRows, IdsInv, EndInv, FileHasItsRow, AtCap, artifactVars
<1>3. \A k \in ids[r] : k \in 1 .. Len(rows) /\ rows[k].by = r
  BY DEF IdsInv
<1>4. \A l \in links : l[2] \in 1 .. Len(rows) /\ rows[l[2]].by \in Run /\ rows[l[2]].by # r
  BY <1>1, Rows DEF LinkInv, TypeOK
<1>5. LinkInv'
  <2>1. \A l \in links : /\ rows'[l[1]].file = PlanFile /\ rows'[l[2]].file # PlanFile
                         /\ pc'[rows'[l[2]].by] = "returned"
    BY <1>1, <1>4 DEF LinkInv, artifactVars
  <2>2. ASSUME NEW p \in PlanRow(r), NEW k \in ids[r] \ PlanRow(r)
        PROVE  /\ rows'[p].file = PlanFile /\ rows'[k].file # PlanFile
               /\ pc'[rows'[k].by] = "returned"
    BY <1>1, <1>3 DEF PlanRow, artifactVars
  <2>3. QED
    BY <1>1, <2>1, <2>2 DEF LinkInv
<1>6. CompletedIsLinked'
  <2> SUFFICES ASSUME NEW q \in Run, request.agent, pc'[q] = "returned", NEW k \in ids[q]
               PROVE  {l[1] : l \in {l \in links' : l[2] = k}}
                        = IF k \in PlanRow(q) THEN {} ELSE PlanRow(q)
    BY <1>1 DEF CompletedIsLinked, PlanRow, artifactVars
  <2>1. rows[k].by = q /\ k \in 1 .. Len(rows)
    BY DEF IdsInv
  <2>2. CASE q # r
    <3>1. k \notin ids[r]
      BY <1>3, <2>1, <2>2
    <3>2. {l \in links' : l[2] = k} = {l \in links : l[2] = k}
      BY <1>1, <3>1
    <3>3. QED
      BY <1>1, <2>2, <3>2 DEF CompletedIsLinked
  <2>3. CASE q = r
    <3>1. {l \in links : l[2] = k} = {}
      BY <1>4, <2>1, <2>3
    <3>2. CASE k \in PlanRow(r)
      <4>1. {l \in links' : l[2] = k} = {}
        BY <1>1, <3>1, <3>2
      <4>2. QED
        BY <2>3, <3>2, <4>1
    <3>3. CASE k \notin PlanRow(r)
      <4>1. {l \in links' : l[2] = k} = PlanRow(r) \X {k}
        BY <1>1, <2>3, <3>1, <3>3
      <4>2. {l[1] : l \in PlanRow(r) \X {k}} = PlanRow(r)
        <5>1. ASSUME NEW a \in PlanRow(r) PROVE a \in {l[1] : l \in PlanRow(r) \X {k}}
          <6>1. <<a, k>> \in PlanRow(r) \X {k} /\ <<a, k>>[1] = a
            OBVIOUS
          <6>2. QED
            BY <6>1
        <5>2. QED
          BY <5>1
      <4>3. QED
        BY <2>3, <3>3, <4>1, <4>2
    <3>4. QED
      BY <3>2, <3>3
  <2>4. QED
    BY <2>2, <2>3
<1>7. QED
  BY <1>2, <1>5, <1>6

--------------------------------------------------------------------------------
(* The theorems *)

Inv == TypeInv /\ ArtInv

\* No file, row or link is there at the start.
LEMMA InitInv == Init => Inv
<1> SUFFICES ASSUME Init PROVE Inv
  OBVIOUS
<1>1. TypeOK
  <2>1. rows \in Seq([file : File, sum : Nat, by : Run]) /\ Len(rows) = 0
    BY DEF Init
  <2>2. /\ tried \in [Run -> Nat] /\ acted \in [Run -> Nat] /\ late \in [Run -> Nat]
        /\ pos \in [Run -> Nat]
    BY DEF Init
  <2>3. \A q \in Run : pos[q] <= Len(plan[q]) + 1
    BY DEF Init
  <2>4. /\ request \in Request /\ plan \in [Run -> Script \cup {<<>>}] /\ shots \in [Run -> BOOLEAN]
        /\ pc \in [Run -> PC] /\ failure \in [Run -> Why] /\ pressed \in BOOLEAN
        /\ content \in [Path -> Nat]
    BY DEF Init, PC, Why
  <2>5. todo \in [Run -> Seq(File)] /\ ids \in [Run -> SUBSET (1 .. Len(rows))]
    BY DEF Init
  <2>6. links \subseteq (1 .. Len(rows)) \X (1 .. Len(rows))
    BY DEF Init
  <2>7. QED
    BY <2>1, <2>2, <2>3, <2>4, <2>5, <2>6 DEF TypeOK
<1>2. PosInv
  BY DEF Init, PosInv, Walking
<1>3. QueueInv /\ IdsInv /\ EndInv /\ LinkInv
  BY DEF Init, QueueInv, OpenRows, Range, IdsInv, EndInv, LinkInv
<1>4. FileHasItsRow /\ CompletedIsLinked
  BY DEF Init, FileHasItsRow, CompletedIsLinked
<1>5. QED
  BY <1>1, <1>2, <1>3, <1>4 DEF Inv, TypeInv, ArtInv

\* Inv is inductive.
LEMMA StepInv == ASSUME Inv, [Next]_vars PROVE Inv'
<1>1. TypeInv' /\ TypeOK'
  BY StepTypes DEF Inv, ArtInv, TypeInv
<1>2. ASSUME NEW r \in Run, Deliver(r) \/ RunStep(r) PROVE ArtInv'
  <2>1. CASE MovesOn(r)
    <3>1. PICK p \in PC : /\ pc' = [pc EXCEPT ![r] = p]
                          /\ p \in {"link", "returned"} => todo[r] = <<>>
                          /\ p = "returned" => ~request.agent \/ ids[r] = {}
      BY <2>1 DEF MovesOn
    <3>2. \A q \in Run : pc'[q] = IF q = r THEN p ELSE pc[q]
      BY <3>1 DEF Inv, TypeInv, TypeOK
    <3>3. pc[r] \notin Ended /\ UNCHANGED <<artifactVars, links>>
      BY <2>1 DEF MovesOn
    <3>4. UNCHANGED request
      BY <1>2, Shapes DEF Inv
    <3>5. QED
      BY <1>1, <3>1, <3>2, <3>3, <3>4, ArtMoves DEF Inv
  <2>2. CASE Writing(r)
    BY <1>1, <1>2, <2>2, Shapes, ArtWrites DEF Inv
  <2>3. QED
    BY <1>1, <1>2, <2>1, <2>2, Shapes, ArtRegisters, ArtSums, ArtLinks DEF Inv
<1>3. CASE Crash
  <2>1. \A q \in Run : pc'[q] = pc[q] \/ (pc[q] \notin Ended /\ pc'[q] = "dead")
    BY <1>3 DEF Crash, Live
  <2>2. UNCHANGED <<request, artifactVars, links>>
    BY <1>3 DEF Crash
  <2>3. QED
    BY <1>1, <2>1, <2>2, ArtMoves DEF Inv
<1>4. CASE UNCHANGED vars
  BY <1>1, <1>4, ArtMoves DEF Inv, vars
<1>5. QED
  BY <1>1, <1>2, <1>3, <1>4 DEF Next, Inv

\* Inv holds throughout.
LEMMA Invariant == Spec => []Inv
<1>1. Init => Inv
  BY InitInv
<1>2. Inv /\ [Next]_vars => Inv'
  BY StepInv
<1>3. QED
  BY <1>1, <1>2, PTL DEF Spec

\* TypeOK of StepRunner, for any steps and any number of deliveries: in particular a
\* run never looks at a step beyond its plan, and never checksums a file it has not
\* queued.
THEOREM TypeCorrect == Spec => []TypeOK
<1>1. Inv => TypeOK
  BY DEF Inv, TypeInv
<1>2. QED
  BY <1>1, Invariant, PTL

\* FileHasItsRow of StepRunner (register_artifact_file after every write): also when
\* any number of deliveries write the same files, each file on disk has a row with
\* its present checksum, or waits for one, or the cap was reached.
THEOREM FilesHaveRows == Spec => []FileHasItsRow
<1>1. Inv => FileHasItsRow
  BY DEF Inv, ArtInv
<1>2. QED
  BY <1>1, Invariant, PTL

\* ReportsItsArtifacts of StepRunner (artifact_ids of _run_steps and _run_agent): a
\* delivery that completes reports exactly what it registered itself.
THEOREM ReportIsComplete == Spec => []ReportsItsArtifacts
<1>1. Inv => ReportsItsArtifacts
  <2> SUFFICES ASSUME Inv, NEW r \in Run, pc[r] = "returned"
               PROVE  /\ ids[r] = {k \in DOMAIN rows : rows[k].by = r}
                      /\ \A k \in ids[r] : rows[k].sum > 0
    BY DEF ReportsItsArtifacts
  <2> USE DEF Inv, ArtInv
  <2>1. OpenRows(r) = {}
    BY DEF EndInv, QueueInv
  <2>2. \A k \in 1 .. Len(rows) : rows[k].sum \in Nat
    BY Rows
  <2>3. \A k \in 1 .. Len(rows) : rows[k].by = r => rows[k].sum > 0
    BY <2>1, <2>2 DEF OpenRows
  <2>4. QED
    BY <2>3, Rows DEF IdsInv
<1>2. QED
  BY <1>1, Invariant, PTL

\* CompletedIsLinked of StepRunner (_link_derived_artifacts, worker.py:1149): the
\* artifacts of an agent that completes derive from its own plan and nothing else,
\* whatever plans other deliveries have registered.
THEOREM CompletedLinks == Spec => []CompletedIsLinked
<1>1. Inv => CompletedIsLinked
  BY DEF Inv, ArtInv
<1>2. QED
  BY <1>1, Invariant, PTL

--------------------------------------------------------------------------------
(* The button of the page *)

\* Where a run may have left the button down.
Over == {"draw", "raised", "dead"}

\* Only Press takes the button down, and a run that is drawing or over stays at the
\* step it was at.
LEMMA ButtonFrame ==
  ASSUME TypeInv, NEW r \in Run, Deliver(r) \/ RunStep(r), ~Press(r), ~Release(r)
  PROVE  /\ pressed' => pressed
         /\ pc[r] \in Over => pc'[r] \in Over /\ plan'[r] = plan[r] /\ pos'[r] = pos[r]
         /\ \A q \in Run : q # r => pc'[q] = pc[q] /\ plan'[q] = plan[q] /\ pos'[q] = pos[q]
<1> USE DEF Over, At, AtStep, Goto, Raise, planVars, stepVars
<1>0. DOMAIN pc = Run /\ DOMAIN plan = Run /\ DOMAIN pos = Run
  BY DEF TypeInv, TypeOK
<1>1. CASE Deliver(r)
  BY <1>0, <1>1 DEF Deliver
<1>2. CASE Attach(r)
  BY <1>0, <1>2 DEF Attach
<1>3. CASE CaptureState(r)
  BY <1>0, <1>3 DEF CaptureState, CapturePage
<1>4. CASE PlanSteps(r)
  <2>1. pc[r] = "plan" /\ UNCHANGED pressed
    BY <1>4 DEF PlanSteps
  <2>2. ASSUME NEW p, NEW b, Adopt(r, p, b)
        PROVE  \A q \in Run : q # r => pc'[q] = pc[q] /\ plan'[q] = plan[q] /\ pos'[q] = pos[q]
    BY <1>0, <2>2 DEF Adopt
  <2>3. ASSUME PlanFails(r)
        PROVE  \A q \in Run : q # r => pc'[q] = pc[q] /\ plan'[q] = plan[q] /\ pos'[q] = pos[q]
    BY <1>0, <2>3 DEF PlanFails
  <2>4. \A q \in Run : q # r => pc'[q] = pc[q] /\ plan'[q] = plan[q] /\ pos'[q] = pos[q]
    BY <1>4, <2>2, <2>3 DEF PlanSteps, FallBack, UseAnswer
  <2>5. QED
    BY <2>1, <2>4
<1>5. CASE Register(r)
  BY <1>0, <1>5 DEF Register
<1>6. CASE Checksum(r)
  BY <1>0, <1>6 DEF Checksum
<1>7. CASE RegisterFails(r)
  BY <1>0, <1>7 DEF RegisterFails
<1>8. CASE BeginStep(r)
  BY <1>0, <1>8 DEF BeginStep, NextStep
<1>9. CASE ScopeFails(r)
  BY <1>0, <1>9 DEF ScopeFails
<1>10. CASE TryLocator(r)
  BY <1>0, <1>10 DEF TryLocator
<1>11. CASE TryRaises(r)
  BY <1>0, <1>11 DEF TryRaises
<1>12. CASE GiveUp(r)
  BY <1>0, <1>12 DEF GiveUp
<1>13. CASE ActPlain(r)
  BY <1>0, <1>13 DEF ActPlain
<1>14. CASE DrawRaises(r)
  <2>1. pressed' => pressed
    BY <1>14, Zenon DEF DrawRaises
  <2>2. /\ UNCHANGED <<plan, pos>> /\ pc[r] = "draw"
        /\ pc' = [pc EXCEPT ![r] = "raised"]
    BY <1>14 DEF DrawRaises
  <2>3. QED
    BY <1>0, <2>1, <2>2
<1>15. CASE ActPageState(r)
  BY <1>0, <1>15 DEF ActPageState, CapturePage
<1>16. CASE Screenshot(r)
  BY <1>0, <1>16 DEF Screenshot
<1>17. CASE Snapshot(r)
  BY <1>0, <1>17 DEF Snapshot, NextStep
<1>18. CASE Finish(r)
  BY <1>0, <1>18 DEF Finish
<1>19. CASE Link(r)
  BY <1>0, <1>19 DEF Link
<1>20. CASE LinkFails(r)
  BY <1>0, <1>20 DEF LinkFails
<1>21. QED
  BY <1>1, <1>2, <1>3, <1>4, <1>5, <1>6, <1>7, <1>8, <1>9, <1>10, <1>11, <1>12,
     <1>13, <1>14, <1>15, <1>16, <1>17, <1>18, <1>19, <1>20
     DEF RunStep

\* ButtonIsReleased of StepRunner (worker.py:844-870, _pointer_down and _pointer_up):
\* with any number of deliveries drawing on one page, the button is down only while
\* one of them draws, or after one that ended in the middle of a drawing step.
THEOREM ButtonReleased == Spec => []ButtonIsReleased
<1>1. Init => ButtonIsReleased
  BY DEF Init, ButtonIsReleased
<1>2. ASSUME Inv, Inv', ButtonIsReleased, [Next]_vars PROVE ButtonIsReleased'
  <2> USE DEF Inv, TypeInv, TypeOK, ButtonIsReleased, Current, At, AtStep, Goto, Raise
  <2>1. ASSUME NEW r \in Run, Press(r) PROVE ButtonIsReleased'
    <3>1. pc[r] = "act" /\ Current(r).kind = "draw" /\ UNCHANGED <<plan, pos>>
      BY <2>1 DEF Press, planVars, stepVars
    <3>2. pos[r] \in 1 .. Len(plan[r])
      BY <1>2, <3>1, InStep DEF PosInv, Walking
    <3>3. pc'[r] \in {"draw", "raised"} /\ \A q \in Run : q # r => pc'[q] = pc[q]
      BY <1>2, <2>1 DEF Press
    <3>4. QED
      BY <3>1, <3>2, <3>3
  <2>2. ASSUME NEW r \in Run, Release(r) PROVE ButtonIsReleased'
    BY <2>2 DEF Release
  <2>3. ASSUME NEW r \in Run, Deliver(r) \/ RunStep(r), ~Press(r), ~Release(r)
        PROVE  ButtonIsReleased'
    <3>1. /\ pressed' => pressed
          /\ pc[r] \in Over => pc'[r] \in Over /\ plan'[r] = plan[r] /\ pos'[r] = pos[r]
          /\ \A q \in Run : q # r => pc'[q] = pc[q] /\ plan'[q] = plan[q] /\ pos'[q] = pos[q]
      BY <2>3, <1>2, ButtonFrame
    <3>2. QED
      BY <1>2, <3>1 DEF Over
  <2>4. CASE Crash
    <3>1. \A q \in Run : pc'[q] = pc[q] \/ pc'[q] = "dead"
      BY <2>4 DEF Crash
    <3>2. UNCHANGED <<pressed, plan, pos>>
      BY <2>4 DEF Crash, planVars, stepVars
    <3>3. QED
      BY <1>2, <3>1, <3>2
  <2>5. CASE UNCHANGED vars
    BY <1>2, <2>5 DEF vars, planVars, stepVars
  <2>6. QED
    BY <1>2, <2>1, <2>2, <2>3, <2>4, <2>5 DEF Next
<1>3. QED
  BY <1>1, <1>2, Invariant, PTL DEF Spec

--------------------------------------------------------------------------------
(* What a step does to the page *)

\* Before a step nothing has been counted for it; while it is tried, each effect
\* belongs to a call that raised after it; after it at most one does not.
CountInv == \A r \in Run :
  /\ acted[r] \in Nat /\ late[r] \in Nat
  /\ pc[r] \in {"idle", "begin", "capture", "plan", "step"} => acted[r] = 0 /\ late[r] = 0
  /\ pc[r] \in {"act", "draw"} => acted[r] = late[r]
  /\ pc[r] \in {"shot", "snap"} => acted[r] <= late[r] + 1

\* A run counts its late effects step by step.
LEMMA StepCounts ==
  ASSUME TypeInv, CountInv, NEW r \in Run, Deliver(r) \/ RunStep(r)
  PROVE  CountInv'
<1> USE DEF At, AtStep, Goto, Raise, planVars, stepVars
<1>0. DOMAIN pc = Run /\ DOMAIN acted = Run /\ DOMAIN late = Run
  BY DEF TypeInv, TypeOK
<1>1. CASE Deliver(r)
  BY <1>0, <1>1 DEF CountInv, Deliver
<1>2. CASE Attach(r)
  BY <1>0, <1>2 DEF CountInv, Attach
<1>3. CASE CaptureState(r)
  BY <1>0, <1>3 DEF CountInv, CaptureState, CapturePage
<1>4. CASE PlanSteps(r)
  BY <1>0, <1>4 DEF CountInv, PlanSteps, FallBack, UseAnswer, Adopt, PlanFails
<1>5. CASE Register(r)
  BY <1>0, <1>5 DEF CountInv, Register
<1>6. CASE Checksum(r)
  BY <1>0, <1>6 DEF CountInv, Checksum
<1>7. CASE RegisterFails(r)
  BY <1>0, <1>7 DEF CountInv, RegisterFails
<1>8. CASE BeginStep(r)
  BY <1>0, <1>8 DEF CountInv, BeginStep, NextStep
<1>9. CASE ScopeFails(r)
  BY <1>0, <1>9 DEF CountInv, ScopeFails
<1>10. CASE TryLocator(r)
  BY <1>0, <1>10 DEF CountInv, TryLocator
<1>11. CASE TryRaises(r)
  BY <1>0, <1>11 DEF CountInv, TryRaises
<1>12. CASE GiveUp(r)
  BY <1>0, <1>12 DEF CountInv, GiveUp
<1>13. CASE ActPlain(r)
  BY <1>0, <1>13 DEF CountInv, ActPlain
<1>14. CASE Press(r)
  BY <1>0, <1>14 DEF CountInv, Press
<1>15. CASE Release(r)
  BY <1>0, <1>15 DEF CountInv, Release
<1>16. CASE DrawRaises(r)
  BY <1>0, <1>16 DEF CountInv, DrawRaises
<1>17. CASE ActPageState(r)
  BY <1>0, <1>17 DEF CountInv, ActPageState, CapturePage
<1>18. CASE Screenshot(r)
  BY <1>0, <1>18 DEF CountInv, Screenshot
<1>19. CASE Snapshot(r)
  <2>1. CASE NextStep(r)
    <3>1. /\ acted' = [acted EXCEPT ![r] = 0] /\ late' = [late EXCEPT ![r] = 0]
          /\ pc' \in {pc, [pc EXCEPT ![r] = "step"], [pc EXCEPT ![r] = "raised"]}
      BY <1>19, <2>1 DEF Snapshot, NextStep
    <3>2. QED
      BY <1>0, <3>1 DEF CountInv
  <2>2. CASE UNCHANGED stepVars /\ pc' = [pc EXCEPT ![r] = "raised"]
    BY <1>0, <2>2 DEF CountInv
  <2>3. QED
    BY <1>19, <2>1, <2>2 DEF Snapshot
<1>20. CASE Finish(r)
  BY <1>0, <1>20 DEF CountInv, Finish
<1>21. CASE Link(r)
  BY <1>0, <1>21 DEF CountInv, Link
<1>22. CASE LinkFails(r)
  BY <1>0, <1>22 DEF CountInv, LinkFails
<1>23. QED
  BY <1>1, <1>2, <1>3, <1>4, <1>5, <1>6, <1>7, <1>8, <1>9, <1>10, <1>11, <1>12,
     <1>13, <1>14, <1>15, <1>16, <1>17, <1>18, <1>19, <1>20, <1>21, <1>22
     DEF RunStep

\* ActsOnce of StepRunner (_perform_locator_action, worker.py:743-767): for any
\* retries, fallback locators and frames, a locator step takes effect at most once
\* more than its calls that raised after they had taken effect.
THEOREM EffectsCounted == Spec => []ActsOnce
<1>1. Init => CountInv
  BY DEF Init, CountInv
<1>2. Inv /\ CountInv /\ [Next]_vars => CountInv'
  <2> SUFFICES ASSUME Inv, CountInv, [Next]_vars PROVE CountInv'
    OBVIOUS
  <2>1. CASE Crash
    BY <2>1 DEF Crash, CountInv, stepVars
  <2>2. CASE UNCHANGED vars
    BY <2>2 DEF vars, CountInv, stepVars
  <2>3. QED
    BY <2>1, <2>2, StepCounts DEF Next, Inv
<1>3. CountInv => ActsOnce
  BY DEF CountInv, ActsOnce, AtStep, At
<1>4. QED
  BY <1>1, <1>2, <1>3, Invariant, PTL DEF Spec

--------------------------------------------------------------------------------
(* The checksum of a file that one delivery writes once *)

\* No other delivery of the command has begun.
Solo(r) == \A q \in Run : q # r => pc[q] = "idle"

\* The run may have written to d at place i: a place it is past, or the one it is at.
Past(r, i, d) ==
  \/ pc[r] \in Ended
  \/ i < pos[r]
  \/ /\ i = pos[r]
     /\ \/ d[1] = "state" /\ pc[r] \in {"shot", "snap"}
        \/ d[1] = "png" /\ pc[r] = "snap"

\* Each version of a file is the work of a place of the run's plan of its own.
WrittenOnce(r) ==
  /\ pc[r] = "capture" => request.capture
  /\ pc[r] \in {"capture", "plan"} => request.agent
  /\ pc[r] \in {"idle", "begin", "capture"} => \A d \in Path : content[d] = 0
  /\ pc[r] = "plan" => \A d \in Path :
       content[d] = 0 \/ (content[d] = 1 /\ request.capture /\ d \in Range(StateFiles))
  /\ pc[r] \notin {"idle", "begin", "capture", "plan"} => \A d \in Path :
       /\ content[d] > 0 => \E i \in Writers(r, d) : Past(r, i, d)
       /\ content[d] > 1 => \E i, j \in Writers(r, d) : i # j

SoloInv == \A r \in Run : Solo(r) => WrittenOnce(r)

\* The version a checksum describes is on disk, or an older one.
SumInv == \A k \in 1 .. Len(rows) : rows[k].sum <= content[PathOf(rows[k].file)]

\* What a run's step does to pc, and that the others have not begun by it.
LEMMA OneMoves ==
  ASSUME TypeInv, NEW r \in Run, Deliver(r) \/ RunStep(r)
  PROVE  /\ pc'[r] # "idle" /\ \A q \in Run : q # r => pc'[q] = pc[q]
         /\ UNCHANGED request
<1>1. \E p \in PC : pc' = [pc EXCEPT ![r] = p] \/ pc' = pc
  <2>1. CASE Register(r) \/ Checksum(r)
    BY <2>1 DEF Register, Checksum, PC
  <2>2. CASE MovesOn(r) \/ Writing(r)
    BY <2>2 DEF MovesOn, Writing
  <2>3. CASE Link(r)
    BY <2>3 DEF Link, Goto, PC
  <2>4. QED
    BY <2>1, <2>2, <2>3, Shapes
<1>2. pc \in [Run -> PC]
  BY DEF TypeInv, TypeOK
<1>3. pc'[r] # "idle"
  <2> USE <1>2 DEF At, AtStep, Goto, Raise
  <2>1. CASE Deliver(r) \/ Attach(r) \/ CaptureState(r)
    BY <2>1 DEF Deliver, Attach, CaptureState, CapturePage
  <2>2. CASE PlanSteps(r)
    BY <2>2 DEF PlanSteps, FallBack, UseAnswer, Adopt, PlanFails
  <2>3. CASE Register(r) \/ Checksum(r) \/ RegisterFails(r)
    BY <2>3 DEF Register, Checksum, RegisterFails, Live
  <2>4. CASE BeginStep(r) \/ ScopeFails(r) \/ TryLocator(r) \/ TryRaises(r) \/ GiveUp(r)
    BY <2>4 DEF BeginStep, ScopeFails, TryLocator, TryRaises, GiveUp
  <2>5. CASE ActPlain(r) \/ Press(r) \/ Release(r) \/ DrawRaises(r) \/ ActPageState(r)
    BY <2>5 DEF ActPlain, Press, Release, DrawRaises, ActPageState, CapturePage
  <2>6. CASE Screenshot(r) \/ Snapshot(r)
    BY <2>6 DEF Screenshot, Snapshot
  <2>7. CASE Finish(r) \/ Link(r) \/ LinkFails(r)
    BY <2>7 DEF Finish, Link, LinkFails
  <2>8. QED
    BY <2>1, <2>2, <2>3, <2>4, <2>5, <2>6, <2>7 DEF RunStep
<1>4. QED
  BY <1>1, <1>2, <1>3, Shapes

\* The three ways a run goes on: it ends, it moves without writing, or it writes files
\* at the place it is at.
LEMMA EndsWritten ==
  ASSUME TypeInv, NEW r \in Run, WrittenOnce(r), pc[r] # "idle",
         pc'[r] \in {"raised", "dead"}, UNCHANGED <<request, content, plan, shots>>
  PROVE  WrittenOnce(r)'
<1>1. \A d \in Path : Writers(r, d)' = Writers(r, d)
  BY DEF Writers, WritesAt
<1>2. \A d \in Path : request.capture /\ d \in Range(StateFiles) => 0 \in Writers(r, d)
  BY DEF Writers, WritesAt
<1>3. \A i, d : Past(r, i, d)'
  BY DEF Past, Ended
<1>4. \A d \in Path : content[d] \in Nat
  BY DEF TypeInv, TypeOK
<1>5. ASSUME NEW d \in Path
      PROVE  /\ content[d] > 0 => \E i \in Writers(r, d) : TRUE
             /\ content[d] > 1 => \E i, j \in Writers(r, d) : i # j
  BY <1>2, <1>4 DEF WrittenOnce
<1>6. QED
  BY <1>1, <1>3, <1>5 DEF WrittenOnce

\* A run whose plan is not made.
Early == {"idle", "begin", "capture", "plan"}

\* A step that writes nothing and only goes on past a writer.
LEMMA MovesWritten ==
  ASSUME NEW r \in Run, WrittenOnce(r), pc[r] \notin Early, pc'[r] \notin Early,
         UNCHANGED <<request, content, plan, shots>>,
         \A d \in Path : \A i \in Writers(r, d) : Past(r, i, d) => Past(r, i, d)'
  PROVE  WrittenOnce(r)'
<1>1. \A d \in Path : Writers(r, d)' = Writers(r, d)
  BY DEF Writers, WritesAt
<1>2. QED
  BY <1>1 DEF WrittenOnce, Early

\* A step that writes files at the place here, which it then leaves behind.
LEMMA WritesOnce ==
  ASSUME TypeInv, NEW r \in Run, WrittenOnce(r), pc[r] \notin Early, pc'[r] \notin Early,
         NEW files, Write(r, files), UNCHANGED <<request, plan, shots>>,
         \A d \in Path : \A i \in Writers(r, d) : Past(r, i, d) => Past(r, i, d)',
         NEW here,
         \A d \in PathsOf(files) :
           here \in Writers(r, d) /\ ~Past(r, here, d) /\ Past(r, here, d)'
  PROVE  WrittenOnce(r)'
<1>1. \A d \in Path : Writers(r, d)' = Writers(r, d)
  BY DEF Writers, WritesAt
<1>2. \A d \in Path : content[d] \in Nat
                      /\ content'[d] = content[d] + IF d \in PathsOf(files) THEN 1 ELSE 0
  BY DEF TypeInv, TypeOK, Write
<1>3. ASSUME NEW d \in Path
      PROVE  /\ content'[d] > 0 => \E i \in Writers(r, d) : Past(r, i, d)'
             /\ content'[d] > 1 => \E i, j \in Writers(r, d) : i # j
  <2>1. /\ content[d] > 0 => \E i \in Writers(r, d) : Past(r, i, d)
        /\ content[d] > 1 => \E i, j \in Writers(r, d) : i # j
    BY DEF WrittenOnce, Early
  <2>2. CASE d \notin PathsOf(files)
    BY <1>2, <2>1, <2>2
  <2>3. CASE d \in PathsOf(files)
    <3>1. /\ content'[d] = content[d] + 1
          /\ here \in Writers(r, d) /\ ~Past(r, here, d) /\ Past(r, here, d)'
      BY <1>2, <2>3
    <3>2. content[d] > 0 => \E i \in Writers(r, d) : i # here
      BY <2>1, <3>1
    <3>3. content[d] > 0 \/ content'[d] = 1
      BY <1>2, <3>1
    <3>4. content'[d] > 1 => \E i, j \in Writers(r, d) : i # j
      BY <3>1, <3>2, <3>3
    <3>5. QED
      BY <3>1, <3>4
  <2>4. QED
    BY <2>2, <2>3
<1>4. QED
  BY <1>1, <1>3 DEF WrittenOnce, Early

\* The paths of one file, and of the page state.
LEMMA PathsWritten ==
  /\ \A f : PathsOf(<<f>>) = {PathOf(f)}
  /\ PathsOf(StateFiles) = Range(StateFiles)
<1>1. ASSUME NEW f PROVE PathsOf(<<f>>) = {PathOf(f)}
  <2>1. Range(<<f>>) = {f}
    BY DEF Range
  <2>2. QED
    BY <2>1 DEF PathsOf
<1>2. PathsOf(StateFiles) = Range(StateFiles)
  BY Paths DEF PathsOf
<1>3. QED
  BY <1>1, <1>2

\* A run writes each file at one place, from its start to its end.
LEMMA StartWritten ==
  ASSUME TypeInv, NEW r \in Run, WrittenOnce(r),
         Deliver(r) \/ Attach(r) \/ CaptureState(r) \/ PlanSteps(r)
  PROVE  WrittenOnce(r)'
<1> USE DEF At, Goto, Raise
<1>0. pc \in [Run -> PC] /\ PathOf(PlanFile) \in Path /\ \A d \in Path : content[d] \in Nat
  BY Files, Paths DEF TypeInv, TypeOK
<1>1. ASSUME \A d \in Path : content'[d] = 0, pc'[r] = "capture" => request'.capture,
             pc'[r] \in {"capture", "plan"} => request'.agent
      PROVE  WrittenOnce(r)'
  BY <1>1 DEF WrittenOnce
<1>2. CASE Deliver(r)
  BY <1>0, <1>1, <1>2 DEF Deliver, WrittenOnce, artifactVars
<1>3. CASE Attach(r)
  <2>1. UNCHANGED <<content, request>> /\ \A d \in Path : content[d] = 0
    BY <1>3 DEF Attach, WrittenOnce, artifactVars
  <2>2. /\ pc'[r] = "capture" => request.capture
        /\ pc'[r] \in {"capture", "plan"} => request.agent
    BY <1>0, <1>3 DEF Attach
  <2>3. QED
    BY <1>1, <2>1, <2>2
<1>4. CASE CaptureState(r)
  <2>1. /\ request.capture /\ request.agent /\ UNCHANGED request
        /\ \A d \in Path : content[d] = 0
    BY <1>4 DEF CaptureState, WrittenOnce
  <2>2. CASE Raise(r, "page") /\ UNCHANGED artifactVars
    BY <1>0, <1>1, <2>1, <2>2 DEF artifactVars
  <2>3. CASE Goto(r, "plan") /\ Write(r, StateFiles)
    BY <1>0, <2>1, <2>3, PathsWritten DEF Write, WrittenOnce
  <2>4. QED
    BY <1>4, <2>2, <2>3 DEF CaptureState, CapturePage
<1>5. CASE PlanSteps(r)
  <2>1. pc[r] = "plan" /\ request.agent /\ UNCHANGED request
    BY <1>5 DEF PlanSteps, WrittenOnce
  <2>2. CASE PlanFails(r)
    BY <1>0, <2>1, <2>2, EndsWritten DEF PlanFails, planVars, artifactVars
  <2>3. ASSUME NEW p, NEW b, Adopt(r, p, b) PROVE WrittenOnce(r)'
    <3>1. pc'[r] = "step" /\ pos'[r] = 1
      BY <1>0, <2>3 DEF Adopt, TypeInv, TypeOK
    <3>2. \A d \in Path : content'[d] = content[d] + IF d = PathOf(PlanFile) THEN 1 ELSE 0
      BY <2>3, PathsWritten DEF Adopt, Write
    <3>3. \A d \in Path :
            content[d] = 0 \/ (content[d] = 1 /\ request.capture /\ d \in Range(StateFiles))
      BY <2>1 DEF WrittenOnce
    <3>4. content[PathOf(PlanFile)] = 0
      <4>1. PathOf(PlanFile) \notin Range(StateFiles)
        BY Paths
      <4>2. QED
        BY <1>0, <3>3, <4>1
    <3>5. /\ \A d \in Path : request.capture /\ d \in Range(StateFiles) => 0 \in Writers(r, d)'
          /\ 0 \in Writers(r, PathOf(PlanFile))'
      BY <2>1 DEF Writers, WritesAt
    <3>6. \A d : Past(r, 0, d)'
      BY <3>1 DEF Past
    <3>7. \A d \in Path : content'[d] \in {0, 1} /\ (content'[d] > 0 => 0 \in Writers(r, d)')
      BY <1>0, <3>2, <3>3, <3>4, <3>5
    <3>8. QED
      BY <3>1, <3>6, <3>7 DEF WrittenOnce
  <2>4. QED
    BY <1>5, <2>2, <2>3 DEF PlanSteps, FallBack, UseAnswer
<1>6. QED
  BY <1>2, <1>3, <1>4, <1>5

\* Most steps of a run write nothing.
LEMMA WalkWritten ==
  ASSUME TypeInv, NEW r \in Run, WrittenOnce(r),
         \/ BeginStep(r) \/ ScopeFails(r) \/ TryLocator(r) \/ TryRaises(r) \/ GiveUp(r)
         \/ ActPlain(r) \/ Press(r) \/ Release(r) \/ DrawRaises(r)
         \/ Finish(r) \/ Link(r) \/ LinkFails(r)
  PROVE  WrittenOnce(r)'
<1> USE DEF At, AtStep, Goto, Raise
<1>0. pc \in [Run -> PC] /\ pos \in [Run -> Nat]
  BY DEF TypeInv, TypeOK
<1>1. UNCHANGED <<request, content, plan, shots>>
  BY DEF BeginStep, ScopeFails, TryLocator, TryRaises, GiveUp, ActPlain, Press, Release,
     DrawRaises, Finish, Link, LinkFails, planVars, artifactVars
<1>2. pc[r] \in {"step", "act", "draw", "link"}
  BY DEF BeginStep, ScopeFails, TryLocator, TryRaises, GiveUp, ActPlain, Press, Release,
     DrawRaises, Finish, Link, LinkFails
<1>3. pc'[r] \in {"step", "act", "draw", "shot", "link", "returned", "raised"}
  <2>1. CASE BeginStep(r) \/ ScopeFails(r) \/ TryLocator(r) \/ TryRaises(r) \/ GiveUp(r)
    BY <1>0, <2>1 DEF BeginStep, ScopeFails, TryLocator, TryRaises, GiveUp
  <2>2. CASE ActPlain(r) \/ Press(r) \/ Release(r) \/ DrawRaises(r)
    BY <1>0, <2>2 DEF ActPlain, Press, Release, DrawRaises
  <2>3. CASE Finish(r) \/ Link(r) \/ LinkFails(r)
    BY <1>0, <2>3 DEF Finish, Link, LinkFails
  <2>4. QED
    BY <2>1, <2>2, <2>3
<1>4. pos'[r] = pos[r] \/ pos'[r] = pos[r] + 1
  BY <1>0 DEF BeginStep, ScopeFails, TryLocator, TryRaises, GiveUp, ActPlain, Press,
     Release, DrawRaises, Finish, Link, LinkFails, NextStep, stepVars
<1>5. ASSUME NEW d \in Path, NEW i \in Writers(r, d), Past(r, i, d) PROVE Past(r, i, d)'
  <2>1. i < pos[r] /\ i \in Int
    BY <1>2, <1>5 DEF Past, Ended, Writers, WritesAt
  <2>2. i < pos'[r]
    BY <1>0, <1>4, <2>1
  <2>3. QED
    BY <2>2 DEF Past
<1>6. QED
  BY <1>1, <1>2, <1>3, <1>5, MovesWritten DEF Early

\* The steps that capture a page write its files at their own place.
LEMMA PageWritten ==
  ASSUME TypeInv, NEW r \in Run, WrittenOnce(r),
         ActPageState(r) \/ Screenshot(r) \/ Snapshot(r)
  PROVE  WrittenOnce(r)'
<1> USE DEF At, AtStep, Goto, Raise
<1>0. pc \in [Run -> PC] /\ pos \in [Run -> Nat] /\ UNCHANGED <<request, plan, shots>>
  BY DEF ActPageState, Screenshot, Snapshot, planVars, TypeInv, TypeOK
<1>1. pc[r] \in {"act", "shot", "snap"} /\ pc[r] \notin Early
  BY DEF ActPageState, Screenshot, Snapshot, Early
<1>2. /\ pos[r] \in 1 .. Len(plan[r]) /\ pos[r] \in 1 .. MaxSteps
      /\ Current(r) = plan[r][pos[r]] /\ Current(r) \in Step
  <2>1. pc[r] \in Walking /\ pos[r] <= Len(plan[r])
    BY <1>1 DEF TypeInv, PosInv, Walking
  <2>2. QED
    BY <2>1, InStep DEF Current
<1>3. ASSUME pc'[r] = "raised", UNCHANGED content PROVE WrittenOnce(r)'
  BY <1>0, <1>1, <1>3, EndsWritten
<1>4. PICK here \in Nat : here = pos[r]
  BY <1>0
<1>5. /\ PathOf(ShotFile(Current(r), here))[1] = "png"
      /\ PathOf(SnapFile(Current(r), here))[1] \in {"html", "json"}
  BY <1>2, <1>4, Paths
<1>6. CASE ActPageState(r)
  <2>1. pc[r] = "act" /\ Current(r).kind = "page_state" /\ UNCHANGED pos
    BY <1>6 DEF ActPageState, stepVars
  <2>2. CASE Raise(r, "page") /\ UNCHANGED artifactVars
    BY <1>0, <1>3, <2>2 DEF artifactVars
  <2>3. CASE Goto(r, "shot") /\ Write(r, StateFiles)
    <3>1. pc'[r] = "shot"
      BY <1>0, <2>3
    <3>2. \A d \in Path : \A i \in Writers(r, d) : Past(r, i, d) => Past(r, i, d)'
      BY <2>1, <3>1 DEF Past, Ended
    <3>3. \A d \in PathsOf(StateFiles) :
            here \in Writers(r, d) /\ ~Past(r, here, d) /\ Past(r, here, d)'
      BY <1>2, <1>4, <2>1, <3>1, Paths, PathsWritten DEF Past, Ended, Writers, WritesAt
    <3>4. QED
      BY <1>0, <1>1, <2>3, <3>1, <3>2, <3>3, WritesOnce DEF Early
  <2>4. QED
    BY <1>6, <2>2, <2>3 DEF ActPageState, CapturePage
<1>7. CASE Screenshot(r)
  <2>1. pc[r] = "shot" /\ UNCHANGED pos
    BY <1>7 DEF Screenshot, stepVars
  <2>2. CASE Raise(r, "page") /\ UNCHANGED artifactVars
    BY <1>0, <1>3, <2>2 DEF artifactVars
  <2>3. ASSUME Goto(r, "snap")
        PROVE  /\ pc'[r] = "snap"
               /\ \A d \in Path : \A i \in Writers(r, d) : Past(r, i, d) => Past(r, i, d)'
    BY <1>0, <2>1, <2>3 DEF Past, Ended
  <2>4. CASE Goto(r, "snap") /\ UNCHANGED artifactVars
    BY <1>0, <1>1, <2>3, <2>4, MovesWritten DEF Early, artifactVars
  <2>5. CASE /\ Current(r).kind = "screenshot" \/ shots[r]
             /\ Goto(r, "snap") /\ Write(r, <<ShotFile(Current(r), pos[r])>>)
    <3>0. Write(r, <<ShotFile(Current(r), here)>>)
      BY <1>4, <2>5
    <3>1. here \in Writers(r, PathOf(ShotFile(Current(r), here)))
      BY <1>2, <1>4, <2>5 DEF Writers, WritesAt
    <3>2. PICK d : d = PathOf(ShotFile(Current(r), here))
      OBVIOUS
    <3>3. ~Past(r, here, d) /\ Past(r, here, d)'
      BY <1>4, <1>5, <2>1, <2>3, <2>5, <3>2 DEF Past, Ended
    <3>4. PathsOf(<<ShotFile(Current(r), here)>>) = {d}
      BY <3>2, PathsWritten
    <3>5. QED
      BY <1>0, <1>1, <2>3, <2>5, <3>0, <3>1, <3>2, <3>3, <3>4, WritesOnce DEF Early
  <2>6. QED
    BY <1>7, <2>2, <2>4, <2>5 DEF Screenshot
<1>8. CASE Snapshot(r)
  <2>1. pc[r] = "snap"
    BY <1>8 DEF Snapshot
  <2>2. CASE Raise(r, "page") /\ UNCHANGED artifactVars
    BY <1>0, <1>3, <2>2 DEF artifactVars
  <2>3. ASSUME Goto(r, "step"), NextStep(r)
        PROVE  /\ pc'[r] = "step" /\ pos'[r] = here + 1
               /\ \A d \in Path : \A i \in Writers(r, d) : Past(r, i, d) => Past(r, i, d)'
    <3>1. pc'[r] = "step" /\ pos'[r] = here + 1
      BY <1>0, <1>4, <2>3 DEF NextStep
    <3>2. \A d \in Path : \A i \in Writers(r, d) : i \in Int
      BY DEF Writers, WritesAt
    <3>3. QED
      BY <1>4, <2>1, <3>1, <3>2 DEF Past, Ended
  <2>4. CASE Goto(r, "step") /\ NextStep(r) /\ UNCHANGED artifactVars
    BY <1>0, <1>1, <2>3, <2>4, MovesWritten DEF Early, artifactVars
  <2>5. CASE /\ Current(r).kind = "dom_snapshot"
             /\ Write(r, <<SnapFile(Current(r), pos[r])>>)
             /\ Goto(r, "step") /\ NextStep(r)
    <3>0. Write(r, <<SnapFile(Current(r), here)>>)
      BY <1>4, <2>5
    <3>1. here \in Writers(r, PathOf(SnapFile(Current(r), here)))
      BY <1>2, <1>4, <2>5 DEF Writers, WritesAt
    <3>2. PICK d : d = PathOf(SnapFile(Current(r), here))
      OBVIOUS
    <3>3. ~Past(r, here, d) /\ Past(r, here, d)'
      BY <1>4, <1>5, <2>1, <2>3, <2>5, <3>2 DEF Past, Ended
    <3>4. PathsOf(<<SnapFile(Current(r), here)>>) = {d}
      BY <3>2, PathsWritten
    <3>5. QED
      BY <1>0, <1>1, <2>3, <2>5, <3>0, <3>1, <3>2, <3>3, <3>4, WritesOnce DEF Early
  <2>6. QED
    BY <1>8, <2>2, <2>4, <2>5 DEF Snapshot
<1>9. QED
  BY <1>6, <1>7, <1>8

\* Registering leaves the files alone.
LEMMA RegisterWritten ==
  ASSUME TypeInv, NEW r \in Run, WrittenOnce(r),
         Register(r) \/ Checksum(r) \/ RegisterFails(r)
  PROVE  WrittenOnce(r)'
<1>1. UNCHANGED <<request, content, plan, shots, pos>> /\ pc[r] # "idle"
  BY DEF Register, Checksum, RegisterFails, Live, planVars, stepVars, artifactVars
<1>2. CASE Register(r) \/ Checksum(r)
  <2>1. UNCHANGED pc
    BY <1>2 DEF Register, Checksum
  <2>2. QED
    BY <1>1, <2>1 DEF WrittenOnce, Past, Writers, WritesAt
<1>3. CASE RegisterFails(r)
  <2>1. pc'[r] = "raised"
    BY <1>3 DEF RegisterFails, Raise, TypeInv, TypeOK
  <2>2. QED
    BY <1>1, <2>1, EndsWritten
<1>4. QED
  BY <1>2, <1>3

\* SoloInv is inductive.
LEMMA StepSolo == ASSUME TypeInv, SoloInv, [Next]_vars PROVE SoloInv'
<1>1. ASSUME NEW r \in Run, Deliver(r) \/ RunStep(r) PROVE SoloInv'
  <2>1. pc'[r] # "idle" /\ \A q \in Run : q # r => pc'[q] = pc[q]
    BY <1>1, OneMoves
  <2>2. \A q \in Run : q # r => ~Solo(q)'
    BY <2>1 DEF Solo
  <2>3. Solo(r)' => Solo(r)
    BY <2>1 DEF Solo
  <2>4. WrittenOnce(r) => WrittenOnce(r)'
    BY <1>1, StartWritten, WalkWritten, PageWritten, RegisterWritten DEF RunStep
  <2>5. QED
    BY <2>2, <2>3, <2>4 DEF SoloInv
<1>2. CASE Crash
  <2>1. ASSUME NEW r \in Run, Solo(r)' PROVE WrittenOnce(r)'
    <3>1. Solo(r) /\ WrittenOnce(r)
      BY <1>2, <2>1 DEF Crash, Live, Solo, SoloInv
    <3>2. UNCHANGED <<request, content, plan, shots, pos>>
      BY <1>2 DEF Crash, planVars, stepVars, artifactVars
    <3>3. CASE Live(r)
      <4>1. pc'[r] = "dead" /\ pc[r] # "idle"
        BY <1>2, <3>3 DEF Crash, Live
      <4>2. QED
        BY <3>1, <3>2, <4>1, EndsWritten
    <3>4. CASE ~Live(r)
      <4>1. pc'[r] = pc[r]
        BY <1>2, <3>4 DEF Crash
      <4>2. QED
        BY <3>1, <3>2, <4>1 DEF WrittenOnce, Past, Writers, WritesAt
    <3>5. QED
      BY <3>3, <3>4
  <2>2. QED
    BY <2>1 DEF SoloInv
<1>3. CASE UNCHANGED vars
  BY <1>3 DEF vars, planVars, stepVars, artifactVars, SoloInv, Solo, WrittenOnce, Past,
     Writers, WritesAt
<1>4. QED
  BY <1>1, <1>2, <1>3 DEF Next

\* Files grow, and a checksum is of the file as it is.
LEMMA StepSum == ASSUME Inv, SumInv, [Next]_vars PROVE SumInv'
<1> USE DEF Inv, ArtInv
<1>1. \A k \in 1 .. Len(rows) : PathOf(rows[k].file) \in Path /\ rows[k].sum \in Nat
  BY Rows, Paths
<1>2. \A d \in Path : content[d] \in Nat
  BY DEF TypeInv, TypeOK
<1>3. CASE UNCHANGED <<content, rows>>
  BY <1>3 DEF SumInv
<1>4. ASSUME NEW r \in Run, Writing(r) PROVE SumInv'
  <2>1. UNCHANGED rows /\ \A d \in Path : content'[d] >= content[d] /\ content'[d] \in Nat
    BY <1>2, <1>4 DEF Writing, Write
  <2>2. QED
    BY <1>1, <1>2, <2>1 DEF SumInv
<1>5. ASSUME NEW r \in Run, Register(r), ~UNCHANGED rows PROVE SumInv'
  <2>1. /\ rows' = Append(rows, [file |-> Head(todo[r]), sum |-> 0, by |-> r])
        /\ UNCHANGED content /\ todo[r] \in Seq(File) /\ todo[r] # <<>>
    BY <1>5 DEF Register, TypeInv, TypeOK
  <2>2. /\ Len(rows') = Len(rows) + 1 /\ Len(rows) \in Nat
        /\ rows'[Len(rows) + 1] = [file |-> Head(todo[r]), sum |-> 0, by |-> r]
        /\ \A k \in 1 .. Len(rows) : rows'[k] = rows[k]
    BY <2>1, Rows
  <2>3. PathOf(Head(todo[r])) \in Path
    BY <2>1, Paths
  <2>4. ASSUME NEW k \in 1 .. Len(rows') PROVE rows'[k].sum <= content[PathOf(rows'[k].file)]
    <3>1. CASE k \in 1 .. Len(rows)
      BY <2>2, <3>1 DEF SumInv
    <3>2. CASE k = Len(rows) + 1
      <4>1. rows'[k].sum = 0 /\ rows'[k].file = Head(todo[r])
        BY <2>2, <3>2
      <4>2. QED
        BY <1>2, <2>3, <4>1
    <3>3. QED
      BY <2>2, <3>1, <3>2
  <2>5. QED
    BY <2>1, <2>4 DEF SumInv
<1>6. ASSUME NEW r \in Run, Checksum(r) PROVE SumInv'
  <2>1. PICK k \in OpenRows(r) : rows' = [rows EXCEPT ![k].sum = content[PathOf(rows[k].file)]]
    BY <1>6 DEF Checksum
  <2>2. k \in 1 .. Len(rows) /\ content[PathOf(rows[k].file)] \in Nat /\ UNCHANGED content
    BY <1>1, <1>2, <1>6 DEF Checksum, OpenRows
  <2>3. /\ Len(rows') = Len(rows) /\ rows'[k].sum = content[PathOf(rows[k].file)]
        /\ rows'[k].file = rows[k].file
        /\ \A j \in 1 .. Len(rows) : j # k => rows'[j] = rows[j]
    BY <2>1, <2>2, Rows, ChecksumTypes
  <2>4. ASSUME NEW j \in 1 .. Len(rows') PROVE rows'[j].sum <= content[PathOf(rows'[j].file)]
    <3>1. CASE j = k
      BY <2>2, <2>3, <3>1
    <3>2. CASE j # k
      BY <2>3, <3>2 DEF SumInv
    <3>3. QED
      BY <3>1, <3>2
  <2>5. QED
    BY <2>2, <2>4 DEF SumInv
<1>7. ASSUME NEW r \in Run, Deliver(r) \/ RunStep(r) PROVE SumInv'
  <2>1. MovesOn(r) \/ Link(r) => UNCHANGED <<content, rows>>
    BY DEF MovesOn, Link, artifactVars
  <2>2. Register(r) => UNCHANGED content
    BY DEF Register
  <2>3. QED
    BY <1>3, <1>4, <1>5, <1>6, <1>7, <2>1, <2>2, Shapes
<1>8. Crash \/ UNCHANGED vars => UNCHANGED <<content, rows>>
  BY DEF Crash, vars, artifactVars
<1>9. QED
  BY <1>3, <1>7, <1>8 DEF Next

\* ChecksumStands of StepRunner (register_artifact_file after each write): for any
\* steps, plans and names, and whatever names _safe_filename makes one, a checksum is
\* wrong about its file only where two places of the run's plan (the page state and the
\* plan of an agent are one each), or another delivery, write to that path.
THEOREM ChecksumIsOfItsFile == Spec => []ChecksumStands
<1>1. Init => SoloInv /\ SumInv
  BY DEF Init, SoloInv, WrittenOnce, SumInv
<1>2. Inv /\ SoloInv /\ SumInv => ChecksumStands
  <2> SUFFICES ASSUME Inv, SoloInv, SumInv, NEW k \in DOMAIN rows,
                      rows[k].sum > 0, rows[k].sum # content[PathOf(rows[k].file)],
                      \A q \in Run \ {rows[k].by} : pc[q] = "idle"
               PROVE  \E i, j \in Writers(rows[k].by, PathOf(rows[k].file)) : i # j
    BY DEF ChecksumStands
  <2> DEFINE r == rows[k].by
             d == PathOf(rows[k].file)
  <2>1. k \in 1 .. Len(rows) /\ r \in Run /\ d \in Path /\ rows[k].sum \in Nat
    BY Rows, Paths DEF Inv, TypeInv
  <2>2. content[d] \in Nat /\ content[d] > 1
    <3>1. content[d] \in Nat
      BY <2>1 DEF Inv, TypeInv, TypeOK
    <3>2. rows[k].sum <= content[d]
      BY <2>1 DEF SumInv
    <3>3. QED
      BY <2>1, <3>1, <3>2
  <2>3. WrittenOnce(r)
    BY <2>1 DEF SoloInv, Solo
  <2> HIDE DEF r, d
  <2>4. \E i, j \in Writers(r, d) : i # j
    BY <2>1, <2>2, <2>3 DEF WrittenOnce
  <2>5. QED
    BY <2>4 DEF r, d
<1>3. Inv => TypeInv
  BY DEF Inv
<1>4. QED
  BY <1>1, <1>2, <1>3, InitInv, StepInv, StepSolo, StepSum, PTL DEF Spec
================================================================================
