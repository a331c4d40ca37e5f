------------------------------ MODULE StepRunner ------------------------------
(***************************************************************************)
(* The executor thread of a "steps" or an "agent" command (worker._run_    *)
(* steps, _run_agent, _execute_steps): it attaches to the browser of the   *)
(* sandbox, for an agent captures the page and plans, then walks through   *)
(* the steps, writes files into the directory of the command, registers    *)
(* each as an artifact, and links the artifacts of an agent to its plan.   *)
(* Every delivery of the command is such a run, in the same directory and, *)
(* without a profile, on the same page; a delivery that follows a lost     *)
(* connection overlaps the one before.                                     *)
(*                                                                         *)
(* A call into the browser does what it should, raises before it has done  *)
(* it, or raises after.                                                    *)
(***************************************************************************)
EXTENDS Naturals, Sequences, Functions

CONSTANTS
  Step,        \* the steps a request or a language model may use
  Name,        \* values of step.name
  NoName,      \* step.name is not given
  Base,        \* what _safe_filename returns
  SafeName,    \* [Name \cup Label -> Base], many to one: _safe_filename
  PlanName,    \* "agent_plan"
  MaxSteps,    \* bound: steps of a request or a plan
  PlanLimit,   \* max_steps: what is kept of the answer of the model
  StateParts,  \* files of a captured page state, four in the code
  Llm,         \* LLM_PROVIDER is not "off"
  RunCap,      \* MAX_ARTIFACTS_PER_RUN, 0 for none
  Deliveries,  \* bound: times the command is delivered
  Overlap,     \* a connection may be lost while the thread works on
  MayCrash     \* the worker may die

Kind == {"locator", "plain", "draw", "page_state", "dom_snapshot", "screenshot"}
StepType == [kind : Kind, optional : BOOLEAN, name : Name \cup {NoName},
             framed : BOOLEAN, skippable : BOOLEAN, tries : Nat, format : {"html", "json"}]

\* step_label, "03_click": the number of the step and its action, which stand
\* for themselves in _safe_filename.
Label == (1 .. MaxSteps) \X Kind

ASSUME StepAssumption ==
  /\ Step \subseteq StepType
  /\ NoName \notin Name
  /\ SafeName \in [Name \cup Label -> Base] /\ PlanName \in Base
  /\ \A l, m \in Label : SafeName[l] \notin {PlanName} \cup {SafeName[x] : x \in {m} \ {l}}
  /\ {MaxSteps, PlanLimit, RunCap} \subseteq Nat
  /\ {StateParts, Deliveries} \subseteq Nat \ {0}
  /\ {Llm, Overlap, MayCrash} \subseteq BOOLEAN

Run == 1 .. Deliveries
Script == UNION {[1 .. n -> Step] : n \in 1 .. MaxSteps}
Request == [agent : BOOLEAN, steps : Script \cup {<<>>}, shots : BOOLEAN, capture : BOOLEAN]

\* What a run writes is known by its kind and the name that _safe_filename is
\* given; where it goes on disk by what _safe_filename makes of it.  The page
\* state has a directory of its own.
PlanFile == <<"plan", 0>>
StateFiles == [k \in 1 .. StateParts |-> <<"state", k>>]
Extension == {"png", "html", "json"}
File == {PlanFile} \cup Range(StateFiles) \cup (Extension \X (Name \cup Label))
Path == Range(StateFiles) \cup (Extension \X Base)
PathOf(f) == IF f \in Range(StateFiles) THEN f
             ELSE IF f = PlanFile THEN <<"json", PlanName>>
             ELSE <<f[1], SafeName[f[2]]>>

VARIABLES
  request,   \* what the client asked for
  plan,      \* [Run -> the steps it walks through]
  shots,     \* [Run -> screenshot_every_step]
  pc,        \* [Run -> where it is]
  pos,       \* [Run -> number of the step]
  tried,     \* [Run -> calls made for the step]
  acted,     \* [Run -> times the step has taken effect on the page]
  late,      \* [Run -> calls of the step that raised after their effect]
  failure,   \* [Run -> what raised]
  todo,      \* [Run -> files written and not yet registered]
  ids,       \* [Run -> artifact_ids]
  content,   \* [Path -> version on disk, 0 when it does not exist]
  rows,      \* artifact rows of this run_id, in the order of their creation
  links,     \* artifact links <<parent, child>>
  pressed    \* the mouse button of the page is down

stepVars == <<pos, tried, acted, late>>
planVars == <<plan, shots>>
artifactVars == <<content, rows, todo, ids>>
vars == <<request, planVars, pc, stepVars, failure, artifactVars, links, pressed>>

PC == {"idle", "begin", "capture", "plan", "step", "act", "draw", "shot", "snap",
       "close", "link", "returned", "raised", "dead"}
Ended == {"returned", "raised", "dead"}
Live(r) == pc[r] \notin Ended \cup {"idle"}
Why == {"none", "attach", "page", "planner", "scope", "act", "register", "link"}

TypeOK ==
  /\ request \in Request
  /\ plan \in [Run -> Script \cup {<<>>}]
  /\ shots \in [Run -> BOOLEAN]
  /\ pc \in [Run -> PC]
  /\ pos \in [Run -> Nat] /\ \A r \in Run : pos[r] <= Len(plan[r]) + 1
  /\ {tried, acted, late} \subseteq [Run -> Nat]
  /\ failure \in [Run -> Why]
  /\ todo \in [Run -> Seq(File)]
  /\ ids \in [Run -> SUBSET (1 .. Len(rows))]
  /\ content \in [Path -> Nat]
  /\ rows \in Seq([file : File, sum : Nat, by : Run])
  /\ links \subseteq (1 .. Len(rows)) \X (1 .. Len(rows))
  /\ pressed \in BOOLEAN

\* validate_steps, validate_agent: there is something to do.
Init ==
  /\ request \in {q \in Request : q.agent \/ (q.steps # <<>> /\ ~q.capture)}
  /\ plan = [r \in Run |-> <<>>]
  /\ shots = [r \in Run |-> FALSE]
  /\ pc = [r \in Run |-> "idle"]
  /\ pos = [r \in Run |-> 0]
  /\ tried = [r \in Run |-> 0]
  /\ acted = [r \in Run |-> 0]
  /\ late = [r \in Run |-> 0]
  /\ failure = [r \in Run |-> "none"]
  /\ todo = [r \in Run |-> <<>>]
  /\ ids = [r \in Run |-> {}]
  /\ content = [p \in Path |-> 0]
  /\ rows = <<>>
  /\ links = {}
  /\ pressed = FALSE

\* The thread is at p and has registered what it has written.
At(r, p) == pc[r] = p /\ todo[r] = <<>>
Goto(r, p) == pc' = [pc EXCEPT ![r] = p] /\ UNCHANGED failure
Raise(r, why) ==
  /\ pc' = [pc EXCEPT ![r] = "raised"]
  /\ failure' = [failure EXCEPT ![r] = why]

Current(r) == plan[r][pos[r]]
AtStep(r, p, kind) == At(r, p) /\ Current(r).kind = kind

\* step.name or step_label.
FileName(s, i) == IF s.name = NoName THEN <<i, s.kind>> ELSE s.name
ShotFile(s, i) == <<"png", FileName(s, i)>>
SnapFile(s, i) == <<s.format, FileName(s, i)>>

PathsOf(files) == {PathOf(f) : f \in Range(files)}

Write(r, files) ==
  /\ content' = [p \in Path |-> content[p] + IF p \in PathsOf(files) THEN 1 ELSE 0]
  /\ todo' = [todo EXCEPT ![r] = files]
  /\ UNCHANGED <<rows, ids>>

--------------------------------------------------------------------------------
(* The start of a run: handle_command, attach, page state, plan *)

\* The first delivery, or one that follows a death or a lost connection.
Deliver(r) ==
  /\ pc[r] = "idle"
  /\ \A q \in 1 .. r - 1 : pc[q] = "dead" \/ (Overlap /\ pc[q] # "idle")
  /\ Goto(r, "begin")
  /\ UNCHANGED <<request, planVars, stepVars, artifactVars, links, pressed>>

\* _resolve_profile_path and attach; without an agent the steps are the request's.
Attach(r) ==
  /\ At(r, "begin")
  /\ \/ Raise(r, "attach") /\ UNCHANGED <<planVars, stepVars>>
     \/ /\ request.agent
        /\ Goto(r, IF request.capture THEN "capture" ELSE "plan")
        /\ UNCHANGED <<planVars, stepVars>>
     \/ /\ ~request.agent
        /\ Goto(r, "step")
        /\ plan' = [plan EXCEPT ![r] = request.steps]
        /\ shots' = [shots EXCEPT ![r] = request.shots]
        /\ pos' = [pos EXCEPT ![r] = 1]
        /\ UNCHANGED <<tried, acted, late>>
  /\ UNCHANGED <<request, artifactVars, links, pressed>>

\* _capture_page_state: the file names depend on the run_id alone.
CapturePage(r, next) ==
  \/ Raise(r, "page") /\ UNCHANGED artifactVars
  \/ Goto(r, next) /\ Write(r, StateFiles)

CaptureState(r) ==
  /\ At(r, "capture")
  /\ CapturePage(r, "plan")
  /\ UNCHANGED <<request, planVars, stepVars, links, pressed>>

Adopt(r, p, everyStep) ==
  /\ plan' = [plan EXCEPT ![r] = p]
  /\ shots' = [shots EXCEPT ![r] = everyStep]
  /\ pos' = [pos EXCEPT ![r] = 1]
  /\ Goto(r, "step")
  /\ Write(r, <<PlanFile>>)
  /\ UNCHANGED <<tried, acted, late>>

PlanFails(r) == Raise(r, "planner") /\ UNCHANGED <<planVars, stepVars, artifactVars>>

\* The provider is off, the call fails, or the answer is not what it should be.
FallBack(r) ==
  IF request.steps # <<>> THEN Adopt(r, request.steps, request.shots) ELSE PlanFails(r)

\* The answer is used up to max_steps; StepsRequest refuses an empty list.
UseAnswer(r, p, everyStep) ==
  LET kept == IF Len(p) <= PlanLimit THEN p ELSE SubSeq(p, 1, PlanLimit)
  IN IF kept = <<>> THEN PlanFails(r) ELSE Adopt(r, kept, everyStep \/ request.shots)

\* plan_steps; errors it does not name (a timeout while reading, no choices, no
\* content) pass through it.
PlanSteps(r) ==
  /\ At(r, "plan")
  /\ \/ FallBack(r)
     \/ Llm /\ \E p \in Script \cup {<<>>}, everyStep \in BOOLEAN : UseAnswer(r, p, everyStep)
     \/ Llm /\ PlanFails(r)
  /\ UNCHANGED <<request, links, pressed>>

--------------------------------------------------------------------------------
(* register_artifact_file: the row is committed, then its checksum.  The count *)
(* of the cap and the insert, two transactions, are one step here (two         *)
(* deliveries may pass the cap between them: Commands has them apart).         *)

AtCap == RunCap > 0 /\ Len(rows) >= RunCap
OpenRows(r) == {k \in 1 .. Len(rows) : rows[k].by = r /\ rows[k].sum = 0}

\* Mutant: a file that already has a row is not registered again.
RegisterOnce(r) ==
  /\ Live(r) /\ todo[r] # <<>> /\ OpenRows(r) = {}
  /\ IF AtCap \/ \E k \in DOMAIN rows : rows[k].file = Head(todo[r])
       THEN todo' = [todo EXCEPT ![r] = Tail(@)] /\ UNCHANGED rows
       ELSE /\ rows' = Append(rows, [file |-> Head(todo[r]), sum |-> 0, by |-> r])
            /\ UNCHANGED todo
  /\ UNCHANGED <<request, planVars, pc, stepVars, failure, ids, content, links, pressed>>

Register(r) ==
  /\ Live(r) /\ todo[r] # <<>> /\ OpenRows(r) = {}
  /\ \/ AtCap /\ todo' = [todo EXCEPT ![r] = Tail(@)] /\ UNCHANGED rows
     \/ /\ ~AtCap
        /\ rows' = Append(rows, [file |-> Head(todo[r]), sum |-> 0, by |-> r])
        /\ UNCHANGED todo
  /\ UNCHANGED <<request, planVars, pc, stepVars, failure, ids, content, links, pressed>>

\* Mutant: artifact_ids.extend(state_artifacts) is lost.
ChecksumForgetsState(r) ==
  /\ Live(r)
  /\ \E k \in OpenRows(r) :
       /\ rows' = [rows EXCEPT ![k].sum = content[PathOf(rows[k].file)]]
       /\ ids' = [ids EXCEPT ![r] = IF rows[k].file \in Range(StateFiles) THEN @ ELSE @ \cup {k}]
  /\ todo' = [todo EXCEPT ![r] = Tail(@)]
  /\ UNCHANGED <<request, planVars, pc, stepVars, failure, content, links, pressed>>

Checksum(r) ==
  /\ Live(r)
  /\ \E k \in OpenRows(r) :
       /\ rows' = [rows EXCEPT ![k].sum = content[PathOf(rows[k].file)]]
       /\ ids' = [ids EXCEPT ![r] = @ \cup {k}]
  /\ todo' = [todo EXCEPT ![r] = Tail(@)]
  /\ UNCHANGED <<request, planVars, pc, stepVars, failure, content, links, pressed>>

\* The database refuses one of the two transactions.
RegisterFails(r) ==
  /\ Live(r) /\ todo[r] # <<>>
  /\ Raise(r, "register")
  /\ UNCHANGED <<request, planVars, stepVars, artifactVars, links, pressed>>

--------------------------------------------------------------------------------
(* One step: _step_should_skip, the action, the screenshot, the snapshot *)

NextStep(r) ==
  /\ pos' = [pos EXCEPT ![r] = @ + 1]
  /\ tried' = [tried EXCEPT ![r] = 0]
  /\ acted' = [acted EXCEPT ![r] = 0]
  /\ late' = [late EXCEPT ![r] = 0]

BeginStep(r) ==
  /\ At(r, "step") /\ pos[r] <= Len(plan[r])
  /\ \/ /\ Goto(r, IF Current(r).kind \in {"dom_snapshot", "screenshot"} THEN "shot" ELSE "act")
        /\ UNCHANGED stepVars
     \/ Current(r).skippable /\ NextStep(r) /\ UNCHANGED <<pc, failure>>
     \/ /\ Current(r).skippable /\ Current(r).framed
        /\ Raise(r, "scope")
        /\ UNCHANGED stepVars
  /\ UNCHANGED <<request, planVars, artifactVars, links, pressed>>

\* _resolve_step_scope runs before the tries, outside of what optional covers.
ScopeFails(r) ==
  /\ AtStep(r, "act", "locator") /\ Current(r).framed /\ tried[r] = 0
  /\ Raise(r, "scope")
  /\ UNCHANGED <<request, planVars, stepVars, artifactVars, links, pressed>>

\* Mutant: the return inside the loop is lost.
TryNoReturn(r) ==
  /\ AtStep(r, "act", "locator") /\ tried[r] < Current(r).tries
  /\ acted' = [acted EXCEPT ![r] = @ + 1]
  /\ tried' = [tried EXCEPT ![r] = @ + 1]
  /\ UNCHANGED <<request, planVars, pc, pos, late, failure, artifactVars, links, pressed>>

\* _perform_locator_action: retries times the locators, in order of priority.
TryLocator(r) ==
  /\ AtStep(r, "act", "locator") /\ tried[r] < Current(r).tries
  /\ acted' = [acted EXCEPT ![r] = @ + 1]
  /\ Goto(r, "shot")
  /\ UNCHANGED <<request, planVars, pos, tried, late, artifactVars, links, pressed>>

\* Mutant: the try is not counted.
TryForEver(r) ==
  /\ AtStep(r, "act", "locator") /\ tried[r] < Current(r).tries
  /\ late' = [late EXCEPT ![r] = @] /\ acted' = [acted EXCEPT ![r] = 1 - @]
  /\ UNCHANGED <<request, planVars, pc, pos, tried, failure, artifactVars, links, pressed>>

TryRaises(r) ==
  /\ AtStep(r, "act", "locator") /\ tried[r] < Current(r).tries
  /\ tried' = [tried EXCEPT ![r] = @ + 1]
  /\ \/ UNCHANGED <<acted, late>>
     \/ /\ acted' = [acted EXCEPT ![r] = @ + 1]
        /\ late' = [late EXCEPT ![r] = @ + 1]
  /\ UNCHANGED <<request, planVars, pc, pos, failure, artifactVars, links, pressed>>

\* No try is left; retries below one leave none from the start.
GiveUp(r) ==
  /\ AtStep(r, "act", "locator") /\ tried[r] = Current(r).tries
  /\ IF Current(r).optional THEN Goto(r, "shot") ELSE Raise(r, "act")
  /\ UNCHANGED <<request, planVars, stepVars, artifactVars, links, pressed>>

\* goto, wait, type_rce: one call, and optional is not looked at.
ActPlain(r) ==
  /\ AtStep(r, "act", "plain")
  /\ \/ Goto(r, "shot") /\ acted' = [acted EXCEPT ![r] = @ + 1] /\ UNCHANGED late
     \/ Raise(r, "act") /\ UNCHANGED <<acted, late>>
     \/ /\ Raise(r, "act")
        /\ acted' = [acted EXCEPT ![r] = @ + 1]
        /\ late' = [late EXCEPT ![r] = @ + 1]
  /\ UNCHANGED <<request, planVars, pos, tried, artifactVars, links, pressed>>

\* draw_path, draw_rect, point, freetext: the target box, the moves, the press.
Press(r) ==
  /\ AtStep(r, "act", "draw")
  /\ \/ Goto(r, "draw") /\ pressed' = TRUE
     \/ Raise(r, "act") /\ pressed' \in {pressed, TRUE}
  /\ UNCHANGED <<request, planVars, stepVars, artifactVars, links>>

\* Mutant: the pointer is not released at the end of the path.
ReleaseForgotten(r) ==
  /\ AtStep(r, "draw", "draw")
  /\ UNCHANGED pressed
  /\ acted' = [acted EXCEPT ![r] = @ + 1]
  /\ Goto(r, "shot")
  /\ UNCHANGED <<request, planVars, pos, tried, late, artifactVars, links>>

Release(r) ==
  /\ AtStep(r, "draw", "draw")
  /\ pressed' = FALSE
  /\ acted' = [acted EXCEPT ![r] = @ + 1]
  /\ Goto(r, "shot")
  /\ UNCHANGED <<request, planVars, pos, tried, late, artifactVars, links>>

\* A move or the release raises; freetext may raise after the release.
DrawRaises(r) ==
  /\ AtStep(r, "draw", "draw")
  /\ pressed' \in {pressed, FALSE}
  /\ Raise(r, "act")
  /\ UNCHANGED <<request, planVars, stepVars, artifactVars, links>>

ActPageState(r) ==
  /\ AtStep(r, "act", "page_state")
  /\ CapturePage(r, "shot")
  /\ UNCHANGED <<request, planVars, stepVars, links, pressed>>

Screenshot(r) ==
  /\ At(r, "shot")
  /\ \/ /\ Current(r).kind = "screenshot" \/ shots[r]
        /\ \/ Raise(r, "page") /\ UNCHANGED artifactVars
           \/ Goto(r, "snap") /\ Write(r, <<ShotFile(Current(r), pos[r])>>)
     \/ /\ Current(r).kind # "screenshot" /\ ~shots[r]
        /\ Goto(r, "snap")
        /\ UNCHANGED artifactVars
  /\ UNCHANGED <<request, planVars, stepVars, links, pressed>>

\* Mutant: the snapshot is written under the extension of the screenshot.
SnapshotAsPng(r) ==
  /\ At(r, "snap")
  /\ \/ /\ Current(r).kind = "dom_snapshot"
        /\ Write(r, <<ShotFile(Current(r), pos[r])>>)
        /\ UNCHANGED links
     \/ Current(r).kind # "dom_snapshot" /\ UNCHANGED <<artifactVars, links>>
  /\ Goto(r, "step") /\ NextStep(r)
  /\ UNCHANGED <<request, planVars, pressed>>

Snapshot(r) ==
  /\ At(r, "snap")
  /\ \/ /\ Current(r).kind = "dom_snapshot"
        /\ Raise(r, "page")
        /\ UNCHANGED <<stepVars, artifactVars>>
     \/ /\ Current(r).kind = "dom_snapshot"
        /\ Write(r, <<SnapFile(Current(r), pos[r])>>)
        /\ Goto(r, "step") /\ NextStep(r)
     \/ /\ Current(r).kind # "dom_snapshot"
        /\ Goto(r, "step") /\ NextStep(r)
        /\ UNCHANGED artifactVars
  /\ UNCHANGED <<request, planVars, links, pressed>>

--------------------------------------------------------------------------------
(* The end of a run *)

Finish(r) ==
  /\ At(r, "step") /\ pos[r] > Len(plan[r])
  /\ Goto(r, IF request.agent /\ ids[r] # {} THEN "link" ELSE "returned")
  /\ UNCHANGED <<request, planVars, stepVars, artifactVars, links, pressed>>

PlanRow(r) == {k \in ids[r] : rows[k].file = PlanFile}

\* Mutant: the plan artifacts of the run_id are looked up instead of kept.
LinkToEveryPlan(r) ==
  /\ At(r, "link")
  /\ PlanRow(r) # {}
  /\ links' = links \cup ({k \in DOMAIN rows : rows[k].file = PlanFile} \X (ids[r] \ PlanRow(r)))
  /\ Goto(r, "returned")
  /\ UNCHANGED <<request, planVars, stepVars, artifactVars, pressed>>

\* _link_derived_artifacts, one transaction.  No plan row: the cap was reached.
Link(r) ==
  /\ At(r, "link")
  /\ PlanRow(r) # {}
  /\ links' = links \cup (PlanRow(r) \X (ids[r] \ PlanRow(r)))
  /\ Goto(r, "returned")
  /\ UNCHANGED <<request, planVars, stepVars, artifactVars, pressed>>

\* The dereferenced None, or the warning about a refused transaction, which
\* hands logging a keyword it does not take.
LinkFails(r) ==
  /\ At(r, "link")
  /\ PlanRow(r) = {} \/ ids[r] # PlanRow(r)
  /\ Raise(r, "link")
  /\ UNCHANGED <<request, planVars, stepVars, artifactVars, links, pressed>>

Crash ==
  /\ MayCrash
  /\ \E r \in Run : Live(r)
  /\ pc' = [r \in Run |-> IF Live(r) THEN "dead" ELSE pc[r]]
  /\ UNCHANGED <<request, planVars, stepVars, failure, artifactVars, links, pressed>>

RunStep(r) ==
  \/ Attach(r) \/ CaptureState(r) \/ PlanSteps(r)
  \/ Register(r) \/ Checksum(r) \/ RegisterFails(r)
  \/ BeginStep(r) \/ ScopeFails(r) \/ TryLocator(r) \/ TryRaises(r) \/ GiveUp(r)
  \/ ActPlain(r) \/ Press(r) \/ Release(r) \/ DrawRaises(r) \/ ActPageState(r)
  \/ Screenshot(r) \/ Snapshot(r)
  \/ Finish(r) \/ Link(r) \/ LinkFails(r)

Next == (\E r \in Run : Deliver(r) \/ RunStep(r)) \/ Crash

Spec == Init /\ [][Next]_vars
FairSpec == Spec /\ \A r \in Run : WF_vars(RunStep(r))

--------------------------------------------------------------------------------
(* Properties *)

\* A click or a keystroke happens once more than the calls that raised after
\* they had taken effect, and never again once a call has returned
\* (_perform_locator_action returns from inside both loops).
ActsOnce == \A r \in Run :
  /\ AtStep(r, "act", "locator") => acted[r] = late[r]
  /\ pc[r] \in {"shot", "snap"} => acted[r] <= late[r] + 1

\* A command that completes reports the artifacts this delivery registered,
\* all of them and no others, each with its checksum.
ReportsItsArtifacts == \A r \in Run :
  pc[r] = "returned" =>
    /\ ids[r] = {k \in DOMAIN rows : rows[k].by = r}
    /\ \A k \in ids[r] : rows[k].sum > 0

\* Every other artifact of an agent that completes derives from its plan, and
\* from nothing else, also when a delivery before it had a plan of its own.
CompletedIsLinked == \A r \in Run :
  request.agent /\ pc[r] = "returned" =>
    \A k \in ids[r] :
      {l[1] : l \in {l \in links : l[2] = k}} = IF k \in PlanRow(r) THEN {} ELSE PlanRow(r)

\* No file of the command is on disk without a row that describes what it holds
\* now, unless a run is between its write and the row, or ended there, or the
\* cap was reached; so also when two deliveries, or two names that
\* _safe_filename makes one, write the same file.
FileHasItsRow == \A p \in Path :
  content[p] > 0 =>
    \/ \E k \in DOMAIN rows : PathOf(rows[k].file) = p /\ rows[k].sum = content[p]
    \/ \E r \in Run : p \in PathsOf(todo[r])
    \/ AtCap

\* The places of a run that write p: the steps, and before them, as place 0, the
\* capture and the plan of an agent.
WritesAt(r, i, p) ==
  IF i = 0 THEN \/ request.capture /\ p \in Range(StateFiles)
                \/ request.agent /\ p = PathOf(PlanFile)
  ELSE LET s == plan[r][i]
       IN \/ s.kind = "page_state" /\ p \in Range(StateFiles)
          \/ (s.kind = "screenshot" \/ shots[r]) /\ p = PathOf(ShotFile(s, i))
          \/ s.kind = "dom_snapshot" /\ p = PathOf(SnapFile(s, i))
Writers(r, p) == {i \in 0 .. Len(plan[r]) : WritesAt(r, i, p)}

\* A checksum, once in a row, is that of the file for ever, unless two places
\* of the run write to that path (under one name, under names that
\* _safe_filename makes one, under the label of another step or the name of
\* the agent's plan) or another delivery does.
ChecksumStands == \A k \in DOMAIN rows :
  LET p == PathOf(rows[k].file) IN
  rows[k].sum > 0 /\ rows[k].sum # content[p] =>
    \/ \E i, j \in Writers(rows[k].by, p) : i # j
    \/ \E r \in Run \ {rows[k].by} : pc[r] # "idle"

\* The button of the page is down only while a step draws, or after a run that
\* raised or died in the middle of a drawing step (every draw action ends in
\* _pointer_up).
ButtonIsReleased ==
  pressed => \E r \in Run :
    /\ pc[r] \in {"draw", "raised", "dead"}
    /\ pos[r] \in 1 .. Len(plan[r]) /\ Current(r).kind = "draw"

\* Every run that starts comes to an end: retries are counted, steps are
\* walked through once, files are registered once.
RunEnds == \A r \in Run : pc[r] = "begin" ~> pc[r] \in Ended

\* README.md:23 has artifacts "versioned": the file of an artifact keeps what
\* its row describes.
ArtifactsKeepTheirContent == \A k \in DOMAIN rows :
  rows[k].sum > 0 /\ PathOf(rows[k].file) \notin PathsOf(todo[rows[k].by]) =>
    rows[k].sum = content[PathOf(rows[k].file)]

\* worker.py:1149, "screenshots/DOM/state artifacts derive from the plan
\* artifact": those of an agent that has ended, whatever its outcome.
AgentArtifactsAreLinked == \A r \in Run :
  pc[r] \in {"returned", "raised"} /\ PlanRow(r) # {} =>
    \A k \in ids[r] \ PlanRow(r) : \E p \in PlanRow(r) : <<p, k>> \in links

\* test_agent_planner.py, test_plan_steps_fallback_on_error: a request that has
\* steps of its own does not depend on the answer of the model.
StepsSurviveThePlanner == \A r \in Run :
  request.steps # <<>> => failure[r] # "planner"
==============================================================================
