------------------------------- MODULE Recording -------------------------------
(***************************************************************************)
(* run_artifact.py: the commands record, replay and run_browser, with the  *)
(* menu of interactive mode, and the import of an exported session.  Each  *)
(* run is a thread of its own; without a profile all of them drive the     *)
(* same page, which its user works on as well.                             *)
(*                                                                         *)
(* A session is named by the run whose recorder made it.  Listeners on the *)
(* page reach Python only while the run is inside a call of the            *)
(* synchronous Playwright API: what happens while it waits for input or    *)
(* writes a file is delivered within its next call, or never.  They are    *)
(* told in the order of the page, and of all that happened before a call   *)
(* was made, or had its effect, before the call returns.                   *)
(***************************************************************************)
EXTENDS Naturals, Sequences

CONSTANTS
  Run,         \* the commands given
  Given,       \* what they may be: functions [Run -> <<command, interactive>>]
  Effect,      \* what a user or a command does to a page
  MaxEffects,  \* bound: what happens on a page that is being watched
  MaxActions,  \* bound: actions that the menu adds to what its listeners record
  Shots,       \* bound: periodic screenshots after the first
  MayCrash     \* the host of the worker may die

Kind == {"record", "replay", "browser", "import"}

ASSUME RecordingAssumption ==
  /\ Given \subseteq [Run -> (Kind \X BOOLEAN) \ {<<"import", TRUE>>}]
  /\ Effect \subseteq {"navigate", "click", "type"}
  /\ "navigate" \in Effect
  /\ {MaxEffects, MaxActions, Shots} \subseteq Nat
  /\ MayCrash \in BOOLEAN
Name == 0 .. Shots

\* ref: the effect on the watched page that the action repeats, 0 for the first
\* navigation, which is recorded before it happens; or the name of a screenshot.
Action == [type : Effect, ref : Nat] \cup [type : {"screenshot"}, ref : Name]
File == {"none", "torn", "whole"}

VARIABLES
  kind,         \* [Run -> the command]
  interactive,  \* the run that was given -i or interactive=true
  of,           \* [Run -> the session it replays or imports]
  page,         \* what has happened on the page since a run watches it
  pc,           \* [Run -> where it is]
  back,         \* [Run -> where it goes on after save_session or export_artifact]
  pos,          \* [Run -> periodic screenshots taken, or action to replay]
  loaded,       \* [Run -> SessionReplayer.session_data["actions"]]
  recorder,     \* runs with a SessionRecorder
  watching,     \* runs with listeners on the page
  call,         \* [Run -> the call that the menu makes into the browser]
  seen,         \* [Run -> effects on the page delivered to its listeners]
  actions,      \* [Run -> SessionRecorder.actions]
  file,         \* [Run -> session.json of the session]
  saved,        \* [Run -> the actions it lists, or listed when it was last whole]
  shots,        \* [Run -> screenshots in the directory of the session]
  bundle,       \* [Run -> <session_id>.tar.gz]
  registered    \* runs whose bundle or screenshot has an artifact row

jobVars == <<kind, interactive, of>>
threadVars == <<back, pos, loaded>>
recordVars == <<page, recorder, watching, call, seen, actions>>
diskVars == <<file, saved, shots, bundle>>
vars == <<jobVars, pc, threadVars, recordVars, diskVars, registered>>

PC == {"idle", "attach", "goto", "shot", "save", "saving", "play", "watch", "menu",
       "call", "export", "exporting", "extract", "register", "returned", "raised", "dead"}
Resume == {"idle", "watch", "menu", "export", "register", "returned"}
Ended == {"returned", "raised", "dead"}
Live(r) == pc[r] \notin Ended \cup {"idle"}

Bundle == [state : File, file : File, actions : Seq(Action), shots : SUBSET Name]

\* ref: the effect that the call has had, or the name of a screenshot.
\* owed: what its listeners are told of before it returns.
Called == [type : Effect \cup {"info"}, ref : Nat, owed : Nat] \cup
          [type : {"screenshot"}, ref : Name, owed : Nat]
NoCall == [type |-> "info", ref |-> 0, owed |-> 0]
NoBundle == [state |-> "none", file |-> "none", actions |-> <<>>, shots |-> {}]

TypeOK ==
  /\ kind \in [Run -> Kind] /\ interactive \subseteq Run /\ of \in [Run -> Run]
  /\ page \in Seq(Effect)
  /\ pc \in [Run -> PC] /\ back \in [Run -> Resume]
  /\ pos \in [Run -> Nat]
  /\ loaded \in [Run -> Seq(Action)]
  /\ recorder \subseteq Run /\ watching \subseteq Run
  /\ call \in [Run -> Called]
  /\ seen \in [Run -> Nat] /\ \A r \in Run : seen[r] <= Len(page)
  /\ actions \in [Run -> Seq(Action)] /\ saved \in [Run -> Seq(Action)]
  /\ file \in [Run -> File]
  /\ shots \in [Run -> SUBSET Name]
  /\ bundle \in [Run -> Bundle]
  /\ registered \subseteq Run

\* One run at most is interactive: two would share the names they expose.
Init ==
  /\ kind \in [Run -> Kind]
  /\ interactive \in {I \in SUBSET Run : \A r, q \in I : r = q}
  /\ [r \in Run |-> <<kind[r], r \in interactive>>] \in Given
  /\ of \in {f \in [Run -> Run] : \A r \in Run : kind[r] \in {"record", "browser"} <=> f[r] = r}
  /\ page = <<>>
  /\ pc = [r \in Run |-> "idle"] /\ back = [r \in Run |-> "idle"]
  /\ pos = [r \in Run |-> 0]
  /\ loaded = [r \in Run |-> <<>>]
  /\ recorder = {} /\ watching = {}
  /\ call = [r \in Run |-> NoCall]
  /\ seen = [r \in Run |-> 0]
  /\ actions = [r \in Run |-> <<>>] /\ saved = [r \in Run |-> <<>>]
  /\ file = [r \in Run |-> "none"]
  /\ shots = [r \in Run |-> {}]
  /\ bundle = [r \in Run |-> NoBundle]
  /\ registered = {}

Goto(r, p) == pc' = [pc EXCEPT ![r] = p]
Raise(r) == Goto(r, "raised")
GoBack(r) == Goto(r, back[r]) /\ back' = [back EXCEPT ![r] = "idle"]
MayWatch(r, p) == Goto(r, IF r \in interactive THEN "watch" ELSE p)

Watched == \E r \in watching : Live(r)
Times(n, k) == [i \in 1 .. n |-> k]

\* The page after n effects of kind k; nobody counts them on an unwatched page.
PageAfter(k, n) == IF Watched THEN page \o Times(n, k) ELSE page
Happens(n) == Watched => Len(page) + n <= MaxEffects

--------------------------------------------------------------------------------
(* The start of a run *)

\* SessionRecorder.__init__, SessionReplayer.load_session, tarfile.open.
BeginRecord(r) ==
  /\ pc[r] = "idle" /\ kind[r] = "record"
  /\ Goto(r, "attach")
  /\ recorder' = recorder \cup {r}
  /\ UNCHANGED <<jobVars, threadVars, page, watching, call, seen, actions, diskVars, registered>>

BeginBrowser(r) ==
  /\ pc[r] = "idle" /\ kind[r] = "browser"
  /\ Goto(r, "attach")
  /\ UNCHANGED <<jobVars, threadVars, recordVars, diskVars, registered>>

\* A session that is not there, or half written, cannot be loaded.
BeginReplay(r) ==
  /\ pc[r] = "idle" /\ kind[r] = "replay"
  /\ \/ /\ file[of[r]] = "whole"
        /\ Goto(r, "attach")
        /\ loaded' = [loaded EXCEPT ![r] = saved[of[r]]]
        /\ pos' = [pos EXCEPT ![r] = 1]
     \/ file[of[r]] # "whole" /\ Raise(r) /\ UNCHANGED <<loaded, pos>>
  /\ UNCHANGED <<jobVars, back, recordVars, diskVars, registered>>

BeginImport(r) ==
  /\ pc[r] = "idle" /\ kind[r] = "import"
  /\ IF bundle[of[r]].state = "none" THEN Raise(r) ELSE Goto(r, "extract")
  /\ file' = IF bundle[of[r]].file = "none" THEN file ELSE [file EXCEPT ![of[r]] = "torn"]
  /\ UNCHANGED <<jobVars, threadVars, recordVars, saved, shots, bundle, registered>>

\* extractall puts back what the bundle holds, or raises on the way, as it does on
\* one that is being written, or was never finished.
Extract(r) ==
  /\ pc[r] = "extract"
  /\ LET b == bundle[of[r]] IN
     \/ /\ b.state = "whole" /\ b.file # "none"
        /\ Goto(r, "returned")
        /\ file' = [file EXCEPT ![of[r]] = b.file]
        /\ saved' = [saved EXCEPT ![of[r]] = b.actions]
        /\ shots' = [shots EXCEPT ![of[r]] = @ \cup b.shots]
     \/ /\ b.state = "whole" /\ b.file = "none"
        /\ Goto(r, "returned") /\ UNCHANGED <<file, saved, shots>>
     \/ Raise(r) /\ UNCHANGED <<file, saved, shots>>
  /\ UNCHANGED <<jobVars, threadVars, recordVars, bundle, registered>>

Attach(r) ==
  /\ pc[r] = "attach"
  /\ Raise(r) \/ Goto(r, IF kind[r] = "replay" THEN "play" ELSE "goto")
  /\ UNCHANGED <<jobVars, threadVars, recordVars, diskVars, registered>>

--------------------------------------------------------------------------------
(* record_session and run_artifact *)

Record(r, a) == actions' = [actions EXCEPT ![r] = Append(@, a)]

\* The navigation is recorded before it is tried.
Navigate(r) ==
  /\ pc[r] = "goto"
  /\ IF kind[r] = "record" THEN Record(r, [type |-> "navigate", ref |-> 0])
                           ELSE UNCHANGED actions
  /\ \/ Raise(r) /\ UNCHANGED page
     \/ /\ Happens(1)
        /\ page' = PageAfter("navigate", 1)
        /\ Raise(r) \/ Goto(r, "shot")
  /\ UNCHANGED <<jobVars, threadVars, recorder, watching, call, seen, diskVars, registered>>

\* The file first, then the action that names it.
Shoot(r) ==
  /\ pc[r] = "shot" /\ kind[r] = "record" /\ pos[r] <= Shots
  /\ shots' = [shots EXCEPT ![r] = @ \cup {pos[r]}]
  /\ Record(r, [type |-> "screenshot", ref |-> pos[r]])
  /\ pos' = [pos EXCEPT ![r] = @ + 1]
  /\ UNCHANGED <<jobVars, pc, back, loaded, page, recorder, watching, call, seen,
                 file, saved, bundle, registered>>

\* run_artifact takes one, outside of any session.
ShootOnce(r) ==
  /\ pc[r] = "shot" /\ kind[r] = "browser"
  /\ MayWatch(r, "register")
  /\ UNCHANGED <<jobVars, threadVars, recordVars, diskVars, registered>>

ShootFails(r) ==
  /\ pc[r] = "shot" /\ Raise(r)
  /\ UNCHANGED <<jobVars, threadVars, recordVars, diskVars, registered>>

\* The duration is over, at the earliest after the first screenshot.
TimeIsUp(r) ==
  /\ pc[r] = "shot" /\ kind[r] = "record" /\ pos[r] > 0
  /\ Goto(r, "save")
  /\ UNCHANGED <<jobVars, threadVars, recordVars, diskVars, registered>>

\* What save_session or export_artifact raises is caught in the menu alone.
Fails(r, next) ==
  IF next = "menu" THEN GoBack(r) ELSE Raise(r) /\ UNCHANGED back
NeverStarts(r, next) ==
  Goto(r, IF next = "menu" THEN "menu" ELSE "raised") /\ UNCHANGED back

\* save_session: open(..., "w") empties the file, json.dump fills it; each may
\* raise, for a full disk or for what a page handed to record_interaction.
StartSave(r, next) ==
  /\ \/ /\ Goto(r, "saving")
        /\ back' = [back EXCEPT ![r] = next]
        /\ file' = [file EXCEPT ![r] = "torn"]
     \/ NeverStarts(r, next) /\ UNCHANGED file
  /\ UNCHANGED <<jobVars, pos, loaded, recordVars, saved, shots, bundle, registered>>

Save(r) ==
  /\ pc[r] = "save"
  /\ StartSave(r, IF r \in interactive THEN "watch" ELSE "export")

\* Mutant: save_session itself catches what json.dump raises.
FinishSaveQuietly(r) ==
  /\ pc[r] = "saving"
  /\ GoBack(r)
  /\ \/ /\ file' = [file EXCEPT ![r] = "whole"]
        /\ saved' = [saved EXCEPT ![r] = actions[r]]
     \/ UNCHANGED <<file, saved>>
  /\ UNCHANGED <<jobVars, pos, loaded, recordVars, shots, bundle, registered>>

FinishSave(r) ==
  /\ pc[r] = "saving"
  /\ \/ /\ GoBack(r)
        /\ file' = [file EXCEPT ![r] = "whole"]
        /\ saved' = [saved EXCEPT ![r] = actions[r]]
     \/ Fails(r, back[r]) /\ UNCHANGED <<file, saved>>
  /\ UNCHANGED <<jobVars, pos, loaded, recordVars, shots, bundle, registered>>

\* export_artifact: the archive is emptied, then filled from the directory.
StartExport(r, next) ==
  /\ \/ /\ Goto(r, "exporting")
        /\ back' = [back EXCEPT ![r] = next]
        /\ bundle' = [bundle EXCEPT ![r] =
             [state |-> "torn", file |-> IF file[r] = "none" THEN "none" ELSE "torn",
              actions |-> <<>>, shots |-> {}]]
     \/ NeverStarts(r, next) /\ UNCHANGED bundle
  /\ UNCHANGED <<jobVars, pos, loaded, recordVars, file, saved, shots, registered>>

Export(r) == pc[r] = "export" /\ StartExport(r, "register")

FinishExport(r) ==
  /\ pc[r] = "exporting"
  /\ \/ /\ GoBack(r)
        /\ bundle' = [bundle EXCEPT ![r] =
             [state |-> "whole", file |-> file[r], actions |-> saved[r], shots |-> shots[r]]]
     \/ Fails(r, back[r]) /\ UNCHANGED bundle
  /\ UNCHANGED <<jobVars, pos, loaded, recordVars, file, saved, shots, registered>>

\* register_artifact_file.  At the cap it returns None: record does not look at
\* it, run_browser dereferences it.
Register(r) ==
  /\ pc[r] = "register"
  /\ \/ Raise(r) /\ UNCHANGED registered
     \/ Goto(r, "returned") /\ registered' = registered \cup {r}
     \/ kind[r] = "record" /\ Goto(r, "returned") /\ UNCHANGED registered
  /\ UNCHANGED <<jobVars, threadVars, recordVars, diskVars>>

--------------------------------------------------------------------------------
(* SessionReplayer.replay *)

\* _execute_action swallows what raises.  A click whose outline cannot be drawn,
\* or which raises itself, is made once more.
Repeats(k) == IF k = "click" THEN 0 .. 2 ELSE 0 .. 1

\* Mutant: an action that raises starts the replay again.
PlayAgain(r) ==
  /\ pc[r] = "play" /\ pos[r] <= Len(loaded[r])
  /\ \E p \in {1, pos[r] + 1} : pos' = [pos EXCEPT ![r] = p]
  /\ UNCHANGED <<jobVars, pc, back, loaded, recordVars, diskVars, registered>>

Play(r) ==
  /\ pc[r] = "play" /\ pos[r] <= Len(loaded[r])
  /\ LET a == loaded[r][pos[r]] IN
     \/ /\ a.type \in Effect
        /\ \E n \in Repeats(a.type) : Happens(n) /\ page' = PageAfter(a.type, n)
        /\ UNCHANGED shots
     \/ /\ a.type = "screenshot"
        /\ shots' \in {shots, [shots EXCEPT ![of[r]] = @ \cup {a.ref}]}
        /\ UNCHANGED page
  /\ pos' = [pos EXCEPT ![r] = @ + 1]
  /\ UNCHANGED <<jobVars, pc, back, loaded, recorder, watching, call, seen, actions,
                 file, saved, bundle, registered>>

Played(r) ==
  /\ pc[r] = "play" /\ pos[r] > Len(loaded[r])
  /\ MayWatch(r, "returned")
  /\ UNCHANGED <<jobVars, threadVars, recordVars, diskVars, registered>>

--------------------------------------------------------------------------------
(* InteractiveController *)

\* start_monitoring: outside of the try whose finally saves the session.
Watch(r) ==
  /\ pc[r] = "watch"
  /\ \/ Raise(r) /\ UNCHANGED watching
     \/ Goto(r, "menu") /\ watching' = watching \cup {r}
  /\ UNCHANGED <<jobVars, threadVars, page, recorder, call, seen, actions, diskVars, registered>>

\* Recorded without the menu: by the listeners, and by record_session itself.
Overheard(r) == seen[r] + IF kind[r] = "record" THEN pos[r] + 1 ELSE 0

\* info, screenshot [name], navigate, click, type.
BeginCall(r) ==
  /\ pc[r] = "menu"
  /\ \E c \in ((Effect \cup {"info"}) \X {0}) \cup ({"screenshot"} \X Name) :
       call' = [call EXCEPT ![r] = [type |-> c[1], ref |-> c[2], owed |-> Len(page)]]
  /\ Goto(r, "call")
  /\ UNCHANGED <<jobVars, threadVars, page, recorder, watching, seen, actions, diskVars, registered>>

\* What the call does to the page.
CallActs(r) ==
  /\ pc[r] = "call" /\ call[r].type \in Effect /\ call[r].ref = 0
  /\ Len(page) < MaxEffects
  /\ page' = Append(page, call[r].type)
  /\ call' = [call EXCEPT ![r] = [type |-> @.type, ref |-> Len(page) + 1, owed |-> Len(page)]]
  /\ UNCHANGED <<jobVars, pc, threadVars, recorder, watching, seen, actions, diskVars, registered>>

\* on_interaction, on_navigate: inside the call, before it returns.
Listen(r) ==
  /\ pc[r] = "call" /\ seen[r] < Len(page)
  /\ seen' = [seen EXCEPT ![r] = @ + 1]
  /\ IF r \in recorder
       THEN Record(r, [type |-> page[seen[r] + 1], ref |-> seen[r] + 1])
       ELSE UNCHANGED actions
  /\ UNCHANGED <<jobVars, pc, threadVars, page, recorder, watching, call, diskVars, registered>>

RecordCall(r, types) ==
  /\ r \in recorder /\ Len(actions[r]) < Overheard(r) + MaxActions
  /\ call[r].type \in types /\ (call[r].type \in Effect => call[r].ref > 0)
  /\ Record(r, [type |-> call[r].type, ref |-> call[r].ref])
  /\ shots' = IF call[r].type = "screenshot" THEN [shots EXCEPT ![r] = @ \cup {call[r].ref}]
              ELSE shots

\* Mutant: a navigation of the menu is recorded like a click.
EndCallRecordsAll(r) ==
  /\ pc[r] = "call" /\ seen[r] >= call[r].owed
  /\ Goto(r, "menu")
  /\ \/ RecordCall(r, {"click", "type", "screenshot", "navigate"})
     \/ UNCHANGED <<actions, shots>>
  /\ call' = [call EXCEPT ![r] = NoCall]
  /\ UNCHANGED <<jobVars, threadVars, page, recorder, watching, seen,
                 file, saved, bundle, registered>>

\* A click, an input or a screenshot is recorded when the call has returned, not
\* when it has raised.
EndCall(r) ==
  /\ pc[r] = "call" /\ seen[r] >= call[r].owed
  /\ Goto(r, "menu")
  /\ \/ RecordCall(r, {"click", "type", "screenshot"})
     \/ UNCHANGED <<actions, shots>>
  /\ call' = [call EXCEPT ![r] = NoCall]
  /\ UNCHANGED <<jobVars, threadVars, page, recorder, watching, seen,
                 file, saved, bundle, registered>>

\* Mutant: record on starts over.
RecordOnAgain(r) ==
  /\ pc[r] = "menu"
  /\ recorder' = recorder \cup {r}
  /\ actions' = [actions EXCEPT ![r] = <<>>]
  /\ UNCHANGED <<jobVars, pc, threadVars, page, watching, call, seen, diskVars, registered>>

\* record on; record off changes nothing.
RecordOn(r) ==
  /\ pc[r] = "menu" /\ r \notin recorder
  /\ recorder' = recorder \cup {r}
  /\ actions' = [actions EXCEPT ![r] = <<>>]
  /\ UNCHANGED <<jobVars, pc, threadVars, page, watching, call, seen, diskVars, registered>>

SaveNow(r) == pc[r] = "menu" /\ r \in recorder /\ StartSave(r, "menu")
ExportNow(r) == pc[r] = "menu" /\ r \in recorder /\ StartExport(r, "menu")

AfterMenu(r) ==
  CASE kind[r] = "record"  -> "export"
    [] kind[r] = "browser" -> "register"
    [] OTHER               -> "returned"

\* Mutant: the session is not saved again on the way out.
LeaveUnsaved(r) ==
  /\ pc[r] = "menu"
  /\ Goto(r, AfterMenu(r))
  /\ UNCHANGED <<jobVars, threadVars, recordVars, diskVars, registered>>

\* quit, the end of the input or an interrupt; finally saves, with no further call.
Leave(r) ==
  /\ pc[r] = "menu"
  /\ \/ r \in recorder /\ StartSave(r, AfterMenu(r))
     \/ /\ r \notin recorder /\ Goto(r, AfterMenu(r))
        /\ UNCHANGED <<jobVars, threadVars, recordVars, diskVars, registered>>

Menu(r) ==
  \/ BeginCall(r) \/ CallActs(r) \/ Listen(r) \/ EndCall(r)
  \/ RecordOn(r) \/ SaveNow(r) \/ ExportNow(r) \/ Leave(r)

--------------------------------------------------------------------------------
\* The user works on the page, or the page goes on by itself, as it does when a
\* click navigates.
PageActs(k) ==
  /\ Watched /\ Len(page) < MaxEffects
  /\ page' = Append(page, k)
  /\ UNCHANGED <<jobVars, pc, threadVars, recorder, watching, call, seen, actions, diskVars, registered>>

Crash ==
  /\ MayCrash
  /\ \E r \in Run : Live(r)
  /\ pc' = [r \in Run |-> IF Live(r) THEN "dead" ELSE pc[r]]
  /\ UNCHANGED <<jobVars, threadVars, recordVars, diskVars, registered>>

Begin(r) == BeginRecord(r) \/ BeginBrowser(r) \/ BeginReplay(r) \/ BeginImport(r)

RunStep(r) ==
  \/ Extract(r) \/ Attach(r) \/ Navigate(r)
  \/ Shoot(r) \/ ShootOnce(r) \/ ShootFails(r) \/ TimeIsUp(r)
  \/ Save(r) \/ FinishSave(r) \/ Export(r) \/ FinishExport(r) \/ Register(r)
  \/ Play(r) \/ Played(r) \/ Watch(r)

Next ==
  \/ \E r \in Run : Begin(r) \/ RunStep(r) \/ Menu(r)
  \/ \E k \in Effect : PageActs(k)
  \/ Crash

Spec == Init /\ [][Next]_vars

\* A run that waits for no user goes on.
FairSpec == Spec /\ \A r \in Run : WF_vars(r \notin interactive /\ RunStep(r))

--------------------------------------------------------------------------------
(* Properties *)

Imported(s) == \E q \in Run : kind[q] = "import" /\ of[q] = s /\ pc[q] # "idle"

Lists(acts, names) ==
  \A i \in DOMAIN acts : acts[i].type = "screenshot" => acts[i].ref \in names

\* When a record command reports its session, session.json and the exported
\* bundle hold every action recorded, the menu's included, and every screenshot
\* they list; and so they stay, whatever is replayed and whenever the host dies
\* (record_session saves, runs the menu, whose finally saves again, and exports
\* last).
RecordedIsKept == \A r \in Run :
  kind[r] = "record" /\ pc[r] = "returned" /\ ~Imported(r) =>
    /\ file[r] = "whole" /\ saved[r] = actions[r]
    /\ bundle[r].state = "whole" /\ bundle[r].file = "whole"
    /\ bundle[r].actions = actions[r]
    /\ Lists(actions[r], bundle[r].shots)

\* Each version of session.json that can be read extends every one before it, for
\* record on in the menu as well; and only a save of its own run takes a version
\* away, before it writes the next.  (If that save fails, or the run dies in it,
\* the version is lost: no save is atomic.)
SavedOnlyGrows ==
  [][\A s \in Run : ~Imported(s)' =>
       /\ file'[s] = "whole" =>
            Len(saved[s]) <= Len(saved'[s]) /\ SubSeq(saved'[s], 1, Len(saved[s])) = saved[s]
       /\ file[s] = "whole" /\ file'[s] # "whole" => pc[s] # "saving" /\ pc'[s] = "saving"]_vars

\* A session.json that cannot be parsed, which makes list_sessions fail for all
\* sessions, is one that a run is writing, or was when it died or raised, or that
\* an import could not put back; or its run is in the menu, which goes on after a
\* save that failed.  The save of the finally makes that good, or raises: no run
\* leaves the menu, exports and returns with such a file.
TornIsExplained == \A s \in Run :
  file[s] = "torn" =>
    \/ pc[s] \in {"saving", "menu", "call", "raised", "dead"}
    \/ pc[s] = "exporting" /\ back[s] = "menu"
    \/ Imported(s)

\* Actions in a recording that repeat an effect on the watched page.
Repeated(r) == {i \in DOMAIN actions[r] : actions[r][i].type \in Effect /\ actions[r][i].ref > 0}
Refs(r) == {actions[r][i].ref : i \in Repeated(r)}

\* A recording follows the page: what it has of the page it has first in the
\* page's order, leaving out nothing between the first and the last, and twice
\* only a click or an input, which the menu made and which it may record after
\* the navigation that the click led to.  A recorder from the start has all that
\* its listeners were told.
FollowsThePage == \A r \in watching \cap recorder :
  /\ \A j \in Repeated(r) : \A a \in Refs(r) : a < actions[r][j].ref =>
       \E i \in Repeated(r) : i < j /\ actions[r][i].ref = a
  /\ \A a, b \in Refs(r) : a .. b \subseteq Refs(r)
  /\ \A i, j, k \in Repeated(r) :
       i < j /\ actions[r][i].ref = actions[r][j].ref =>
         /\ actions[r][i].type # "navigate"
         /\ k \in {i, j} \/ actions[r][k].ref # actions[r][i].ref
  /\ kind[r] = "record" => 1 .. seen[r] \subseteq Refs(r)

\* A command that is not interactive ends, although what it replays or watches
\* may grow meanwhile: it replays what it has loaded.
CommandsEnd == \A r \in Run : pc[r] \notin {"idle"} /\ r \notin interactive ~> pc[r] \in Ended
================================================================================
