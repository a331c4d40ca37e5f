----------------------------- MODULE Recording_proofs -----------------------------
(***************************************************************************)
(* Proofs about Recording for any set of runs, any commands, and any       *)
(* bounds: the types, what becomes of the recorded actions on disk, and    *)
(* how a recording stands to the page.                                     *)
(***************************************************************************)
EXTENDS Recording, SequenceTheorems, TLAPS

--------------------------------------------------------------------------------
(* Types *)

\* What the constants give: effects are not screenshots, and numbers are numbers.
LEMMA Constants ==
  /\ Shots \in Nat
  /\ Name \subseteq Nat /\ 0 \in Name
  /\ "navigate" \in Effect
  /\ "screenshot" \notin Effect
BY RecordingAssumption DEF RecordingAssumption, Name

\* Recording one more action keeps a sequence of actions.
LEMMA RecordTypes ==
  ASSUME NEW acts \in Seq(Action), NEW a \in Action
  PROVE  Append(acts, a) \in Seq(Action)
OBVIOUS

\* The page after some effects is a page, and no shorter.
LEMMA PageTypes ==
  ASSUME page \in Seq(Effect), NEW k \in Effect, NEW n \in Nat
  PROVE  /\ PageAfter(k, n) \in Seq(Effect)
         /\ Len(PageAfter(k, n)) >= Len(page)
<1>1. Times(n, k) \in Seq(Effect) /\ Len(Times(n, k)) = n
  BY DEF Times
<1>2. page \o Times(n, k) \in Seq(Effect) /\ Len(page \o Times(n, k)) = Len(page) + n
  BY <1>1
<1>3. QED
  BY <1>2 DEF PageAfter

\* Recording one more action of a run keeps the type of actions.
LEMMA RecordKeepsType ==
  ASSUME actions \in [Run -> Seq(Action)], NEW r \in Run, NEW a \in Action, Record(r, a)
  PROVE  actions' \in [Run -> Seq(Action)]
<1>1. Append(actions[r], a) \in Seq(Action)
  BY RecordTypes
<1>2. actions' = [actions EXCEPT ![r] = Append(actions[r], a)]
  BY DEF Record
<1>3. QED
  BY <1>1, <1>2

\* More screenshots are screenshots.
LEMMA ShotsTypes ==
  ASSUME shots \in [Run -> SUBSET Name], NEW q, NEW x \in SUBSET Name,
         shots' = [shots EXCEPT ![q] = @ \cup x]
  PROVE  shots' \in [Run -> SUBSET Name]
OBVIOUS

\* What a listener is told next, and what the menu has done: what each records.
Heard(r) == [type |-> page[seen[r] + 1], ref |-> seen[r] + 1]
Made(r) == [type |-> call[r].type, ref |-> call[r].ref]

\* A listener records the next effect of the page, if its run records.
LEMMA Listening ==
  ASSUME TypeOK, NEW r \in Run, Listen(r)
  PROVE  /\ seen[r] \in Nat /\ seen[r] + 1 \in 1 .. Len(page) /\ seen'[r] = seen[r] + 1
         /\ Heard(r) \in Action /\ Heard(r).type \in Effect
         /\ r \in recorder => Record(r, Heard(r))
         /\ r \notin recorder => actions' = actions
<1>1. seen[r] \in Nat /\ page \in Seq(Effect) /\ Len(page) \in Nat /\ seen[r] < Len(page)
  BY DEF TypeOK, Listen
<1>2. seen[r] + 1 \in 1 .. Len(page)
  BY <1>1
<1>3. page[seen[r] + 1] \in Effect
  BY <1>1, <1>2
<1>4. Heard(r) \in Action /\ Heard(r).type \in Effect
  BY <1>1, <1>3 DEF Heard, Action
<1>5. QED
  BY <1>1, <1>2, <1>4 DEF Listen, Heard, TypeOK

\* A call of the menu records what it did, or nothing.
LEMMA EndingCall ==
  ASSUME TypeOK, NEW r \in Run, EndCall(r)
  PROVE  \/ actions' = actions /\ shots' = shots
         \/ /\ r \in recorder /\ Made(r) \in Action /\ Record(r, Made(r))
            /\ Made(r).type \in {"click", "type", "screenshot"}
            /\ Made(r).type \in Effect => Made(r).ref > 0
            /\ Made(r).type \notin Effect => Made(r).type = "screenshot"
            /\ shots' = IF Made(r).type = "screenshot"
                        THEN [shots EXCEPT ![r] = @ \cup {Made(r).ref}] ELSE shots
            /\ Made(r).type = "screenshot" => Made(r).ref \in Name
<1>1. call[r] \in Called
  BY DEF TypeOK
<1>2. CASE actions' = actions /\ shots' = shots
  BY <1>2
<1>3. CASE RecordCall(r, {"click", "type", "screenshot"})
  <2>1. call[r].type \in Effect \/ (call[r].type = "screenshot" /\ call[r].ref \in Name)
    BY <1>1, <1>3, Constants DEF Called, RecordCall
  <2>2. Made(r) \in Action
    BY <1>1, <2>1 DEF Made, Action, Called
  <2>3. QED
    BY <1>3, <2>1, <2>2, Constants DEF RecordCall, Made
<1>4. QED
  BY <1>2, <1>3 DEF EndCall

\* A bundle that is begun is a bundle.
LEMMA StartExportTypes ==
  ASSUME bundle \in [Run -> Bundle], NEW r \in Run, NEW next, StartExport(r, next)
  PROVE  bundle' \in [Run -> Bundle]
<1>0. CASE bundle' = bundle
  BY <1>0
<1> DEFINE state == IF file[r] = "none" THEN "none" ELSE "torn"
<1>1. [state |-> "torn", file |-> state, actions |-> <<>>, shots |-> {}] \in Bundle
  BY DEF Bundle, File
<1>2. bundle' = [bundle EXCEPT ![r] =
                   [state |-> "torn", file |-> state, actions |-> <<>>, shots |-> {}]]
     \/ bundle' = bundle
  BY DEF StartExport
<1>3. QED
  BY <1>0, <1>1, <1>2

\* The menu is left for a place where a run goes on.
LEMMA AfterMenuTypes == ASSUME NEW r \in Run PROVE AfterMenu(r) \in Resume \cap PC
BY DEF AfterMenu, Resume, PC

\* Only replays play, and their position is one.
Plays ==
  \A r \in Run :
    /\ pc[r] = "play" => kind[r] = "replay"
    /\ kind[r] = "replay" /\ pc[r] \in {"attach", "play"} => pos[r] >= 1

TypeInv == TypeOK /\ Plays

\* The initial state is well typed.
LEMMA InitTypeInv == Init => TypeInv
BY Constants DEF Init, TypeInv, TypeOK, Plays, PC, Resume, File, Bundle, NoBundle, Called, NoCall

\* Every step keeps the types.
LEMMA NextTypeInv == TypeInv /\ [Next]_vars => TypeInv'
<1> SUFFICES ASSUME TypeInv, [Next]_vars PROVE TypeInv'
  OBVIOUS
<1> USE Constants DEF TypeInv, TypeOK, Plays, Resume
<1> USE DEF jobVars, threadVars, recordVars, diskVars, Goto, Raise, GoBack, MayWatch
<1>1. ASSUME NEW r \in Run, BeginRecord(r) PROVE TypeInv'
  BY <1>1 DEF BeginRecord, PC
<1>2. ASSUME NEW r \in Run, BeginBrowser(r) PROVE TypeInv'
  BY <1>2 DEF BeginBrowser, PC
<1>3. ASSUME NEW r \in Run, BeginReplay(r) PROVE TypeInv'
  <2>1. CASE file[of[r]] = "whole"
    <3>1. loaded' = [loaded EXCEPT ![r] = saved[of[r]]] /\ saved[of[r]] \in Seq(Action)
      BY <1>3, <2>1 DEF BeginReplay
    <3>2. loaded' \in [Run -> Seq(Action)]
      BY <3>1
    <3>3. pc' = [pc EXCEPT ![r] = "attach"] /\ pos' = [pos EXCEPT ![r] = 1]
      BY <1>3, <2>1 DEF BeginReplay
    <3>4. UNCHANGED <<kind, interactive, of, page, back, recorder, watching, call, seen, actions,
                      file, saved, shots, bundle, registered>>
      BY <1>3 DEF BeginReplay
    <3>5. QED
      BY <3>2, <3>3, <3>4 DEF PC
  <2>2. CASE file[of[r]] # "whole"
    BY <1>3, <2>2 DEF BeginReplay, PC
  <2>3. QED
    BY <2>1, <2>2
<1>4. ASSUME NEW r \in Run, BeginImport(r) PROVE TypeInv'
  BY <1>4 DEF BeginImport, PC, File
<1>5. ASSUME NEW r \in Run, Extract(r) PROVE TypeInv'
  <2> DEFINE b == bundle[of[r]]
  <2>1. of[r] \in Run /\ b.file \in File /\ b.actions \in Seq(Action) /\ b.shots \subseteq Name
    BY DEF Bundle
  <2>2. /\ file' = file \/ file' = [file EXCEPT ![of[r]] = b.file]
        /\ saved' = saved \/ saved' = [saved EXCEPT ![of[r]] = b.actions]
        /\ shots' = shots \/ shots' = [shots EXCEPT ![of[r]] = @ \cup b.shots]
    BY <1>5 DEF Extract
  <2>3. file' \in [Run -> File] /\ saved' \in [Run -> Seq(Action)] /\ shots' \in [Run -> SUBSET Name]
    <3> HIDE DEF b
    <3>1. file' \in [Run -> File]
      BY <2>1, <2>2
    <3>2. saved' \in [Run -> Seq(Action)]
      BY <2>1, <2>2
    <3>3. shots' \in [Run -> SUBSET Name]
      BY <2>1, <2>2, ShotsTypes
    <3>4. QED
      BY <3>1, <3>2, <3>3
  <2>4. pc' = [pc EXCEPT ![r] = "returned"] \/ pc' = [pc EXCEPT ![r] = "raised"]
    BY <1>5 DEF Extract
  <2>5. QED
    BY <1>5, <2>3, <2>4 DEF Extract, PC
<1>6. ASSUME NEW r \in Run, Attach(r) PROVE TypeInv'
  BY <1>6 DEF Attach, PC
<1>7. ASSUME NEW r \in Run, Navigate(r) PROVE TypeInv'
  <2>1. page' = page \/ page' = PageAfter("navigate", 1)
    BY <1>7 DEF Navigate
  <2>2. page' \in Seq(Effect) /\ Len(page') >= Len(page)
    BY <2>1, PageTypes
  <2>3. actions' \in [Run -> Seq(Action)]
    <3>1. [type |-> "navigate", ref |-> 0] \in Action
      BY DEF Action
    <3>2. QED
      BY <1>7, <3>1, RecordKeepsType DEF Navigate
  <2>4. \A q \in Run : seen'[q] <= Len(page')
    BY <1>7, <2>2 DEF Navigate
  <2>5. QED
    BY <1>7, <2>2, <2>3, <2>4 DEF Navigate, PC
<1>8. ASSUME NEW r \in Run, Shoot(r) PROVE TypeInv'
  <2>1. pos[r] \in Name /\ [type |-> "screenshot", ref |-> pos[r]] \in Action
    BY <1>8 DEF Shoot, Action, Name
  <2>2. actions' \in [Run -> Seq(Action)]
    BY <1>8, <2>1, RecordKeepsType DEF Shoot
  <2>3. shots' \in [Run -> SUBSET Name] /\ pos' \in [Run -> Nat]
    BY <1>8, <2>1 DEF Shoot
  <2>4. QED
    BY <1>8, <2>2, <2>3 DEF Shoot
<1>9. ASSUME NEW r \in Run, ShootOnce(r) PROVE TypeInv'
  BY <1>9 DEF ShootOnce, PC
<1>10. ASSUME NEW r \in Run, ShootFails(r) PROVE TypeInv'
  BY <1>10 DEF ShootFails, PC
<1>11. ASSUME NEW r \in Run, TimeIsUp(r) PROVE TypeInv'
  BY <1>11 DEF TimeIsUp, PC
<1>12. ASSUME NEW r \in Run, Save(r) PROVE TypeInv'
  <2>1. PICK x \in PC \ {"attach", "play"} : pc' = [pc EXCEPT ![r] = x]
    BY <1>12 DEF Save, StartSave, NeverStarts, PC
  <2>2. back' \in [Run -> Resume]
    BY <1>12 DEF Save, StartSave, NeverStarts
  <2>3. file' \in [Run -> File]
    BY <1>12 DEF Save, StartSave, NeverStarts, File
  <2>4. saved' \in [Run -> Seq(Action)]
    BY <1>12 DEF Save, StartSave, NeverStarts
  <2>5. UNCHANGED <<jobVars, pos, loaded, recordVars, shots, bundle, registered>>
    BY <1>12 DEF Save, StartSave, NeverStarts
  <2>6. QED
    BY <2>1, <2>2, <2>3, <2>4, <2>5
<1>13. ASSUME NEW r \in Run, FinishSave(r) PROVE TypeInv'
  <2>1. PICK x \in PC \ {"attach", "play"} : pc' = [pc EXCEPT ![r] = x]
    BY <1>13 DEF FinishSave, Fails, PC
  <2>2. back' \in [Run -> Resume]
    BY <1>13 DEF FinishSave, Fails
  <2>3. file' \in [Run -> File]
    BY <1>13 DEF FinishSave, Fails, File
  <2>4. saved' \in [Run -> Seq(Action)]
    BY <1>13 DEF FinishSave, Fails
  <2>5. UNCHANGED <<jobVars, pos, loaded, recordVars, shots, bundle, registered>>
    BY <1>13 DEF FinishSave, Fails
  <2>6. QED
    BY <2>1, <2>2, <2>3, <2>4, <2>5
<1>14. ASSUME NEW r \in Run, Export(r) PROVE TypeInv'
  <2>1. bundle' \in [Run -> Bundle]
    BY <1>14, StartExportTypes DEF Export
  <2>2. QED
    BY <1>14, <2>1 DEF Export, StartExport, NeverStarts, PC
<1>15. ASSUME NEW r \in Run, FinishExport(r) PROVE TypeInv'
  <2>1. PICK x \in PC \ {"attach", "play"} : pc' = [pc EXCEPT ![r] = x]
    BY <1>15 DEF FinishExport, Fails, PC
  <2>2. back' \in [Run -> Resume]
    BY <1>15 DEF FinishExport, Fails
  <2>3. PICK b \in Bundle :
          b = [state |-> "whole", file |-> file[r], actions |-> saved[r], shots |-> shots[r]]
    BY DEF Bundle, File
  <2>4. bundle' \in [Run -> Bundle]
    <3>1. bundle' = bundle \/ bundle' = [bundle EXCEPT ![r] = b]
      BY <1>15, <2>3 DEF FinishExport
    <3>2. QED
      BY <3>1
  <2>5. UNCHANGED <<jobVars, pos, loaded, recordVars, file, saved, shots, registered>>
    BY <1>15 DEF FinishExport
  <2>6. QED
    BY <2>1, <2>2, <2>4, <2>5
<1>16. ASSUME NEW r \in Run, Register(r) PROVE TypeInv'
  BY <1>16 DEF Register, PC
<1>17. ASSUME NEW r \in Run, Play(r) PROVE TypeInv'
  <2>1. loaded[r][pos[r]] \in Action
    BY <1>17 DEF Play
  <2>2. page' \in Seq(Effect) /\ Len(page') >= Len(page)
    BY <1>17, <2>1, PageTypes DEF Play, Repeats
  <2>3. shots' \in [Run -> SUBSET Name]
    <3>1. \/ shots' = shots
          \/ /\ loaded[r][pos[r]].type = "screenshot"
             /\ shots' = [shots EXCEPT ![of[r]] = @ \cup {loaded[r][pos[r]].ref}]
      BY <1>17 DEF Play
    <3>2. loaded[r][pos[r]].type = "screenshot" => loaded[r][pos[r]].ref \in Name
      BY <2>1 DEF Action
    <3>3. shots' = shots \/ \E x \in SUBSET Name : shots' = [shots EXCEPT ![of[r]] = @ \cup x]
      BY <3>1, <3>2
    <3>4. QED
      BY <3>3, ShotsTypes
  <2>4. \A q \in Run : seen'[q] <= Len(page')
    BY <1>17, <2>2 DEF Play
  <2>5. /\ pos' = [pos EXCEPT ![r] = @ + 1]
        /\ UNCHANGED <<kind, interactive, of, pc, back, loaded, recorder, watching, call, seen,
                       actions, file, saved, bundle, registered>>
    BY <1>17 DEF Play
  <2>6. pos' \in [Run -> Nat] /\ \A q \in Run : pos'[q] >= pos[q]
    BY <2>5
  <2>7. QED
    BY <2>2, <2>3, <2>4, <2>5, <2>6
<1>18. ASSUME NEW r \in Run, Played(r) PROVE TypeInv'
  BY <1>18 DEF Played, PC
<1>19. ASSUME NEW r \in Run, Watch(r) PROVE TypeInv'
  BY <1>19 DEF Watch, PC
<1>20. ASSUME NEW r \in Run, BeginCall(r) PROVE TypeInv'
  <2>1. Len(page) \in Nat
    OBVIOUS
  <2>2. PICK c \in ((Effect \cup {"info"}) \X {0}) \cup ({"screenshot"} \X Name) :
          call' = [call EXCEPT ![r] = [type |-> c[1], ref |-> c[2], owed |-> Len(page)]]
    BY <1>20 DEF BeginCall
  <2>3. [type |-> c[1], ref |-> c[2], owed |-> Len(page)] \in Called
    BY <2>1 DEF Called
  <2>4. call' \in [Run -> Called]
    BY <2>2, <2>3
  <2>5. QED
    BY <1>20, <2>4 DEF BeginCall, PC
<1>21. ASSUME NEW r \in Run, CallActs(r) PROVE TypeInv'
  <2>1. call[r] \in Called /\ call[r].type \in Effect /\ Len(page) \in Nat
    BY <1>21 DEF CallActs
  <2>2. page' \in Seq(Effect) /\ Len(page') = Len(page) + 1
    BY <1>21, <2>1 DEF CallActs
  <2>3. [type |-> call[r].type, ref |-> Len(page) + 1, owed |-> Len(page)] \in Called
    BY <2>1 DEF Called
  <2>4. call' \in [Run -> Called]
    BY <1>21, <2>3 DEF CallActs
  <2>5. \A q \in Run : seen'[q] <= Len(page')
    BY <1>21, <2>1, <2>2 DEF CallActs
  <2>6. QED
    BY <1>21, <2>2, <2>4, <2>5 DEF CallActs
<1>22. ASSUME NEW r \in Run, Listen(r) PROVE TypeInv'
  <2>1. actions' \in [Run -> Seq(Action)]
    BY <1>22, Listening, RecordKeepsType
  <2>2. seen' = [seen EXCEPT ![r] = seen[r] + 1] /\ page' = page
    BY <1>22 DEF Listen
  <2>3. seen' \in [Run -> Nat] /\ \A q \in Run : seen'[q] <= Len(page')
    BY <1>22, <2>2, Listening
  <2>4. QED
    BY <1>22, <2>1, <2>3 DEF Listen
<1>23. ASSUME NEW r \in Run, EndCall(r) PROVE TypeInv'
  <2>1. actions' \in [Run -> Seq(Action)]
    BY <1>23, EndingCall, RecordKeepsType
  <2>2. shots' \in [Run -> SUBSET Name]
    <3>1. \/ shots' = shots
          \/ /\ shots' = [shots EXCEPT ![r] = @ \cup {Made(r).ref}]
             /\ {Made(r).ref} \in SUBSET Name
      BY <1>23, EndingCall
    <3>2. QED
      BY <3>1, ShotsTypes
  <2>3. NoCall \in Called
    BY DEF NoCall, Called
  <2>4. call' = [call EXCEPT ![r] = NoCall] /\ call' \in [Run -> Called]
    BY <1>23, <2>3 DEF EndCall
  <2>5. QED
    BY <1>23, <2>1, <2>2, <2>4 DEF EndCall, PC
<1>24. ASSUME NEW r \in Run, RecordOn(r) PROVE TypeInv'
  BY <1>24 DEF RecordOn, PC
<1>25. ASSUME NEW r \in Run, SaveNow(r) PROVE TypeInv'
  <2>1. PICK x \in PC \ {"attach", "play"} : pc' = [pc EXCEPT ![r] = x]
    BY <1>25 DEF SaveNow, StartSave, NeverStarts, PC
  <2>2. back' \in [Run -> Resume]
    BY <1>25 DEF SaveNow, StartSave, NeverStarts
  <2>3. file' \in [Run -> File]
    BY <1>25 DEF SaveNow, StartSave, NeverStarts, File
  <2>4. saved' \in [Run -> Seq(Action)]
    BY <1>25 DEF SaveNow, StartSave, NeverStarts
  <2>5. UNCHANGED <<jobVars, pos, loaded, recordVars, shots, bundle, registered>>
    BY <1>25 DEF SaveNow, StartSave, NeverStarts
  <2>6. QED
    BY <2>1, <2>2, <2>3, <2>4, <2>5
<1>26. ASSUME NEW r \in Run, ExportNow(r) PROVE TypeInv'
  <2>1. bundle' \in [Run -> Bundle]
    BY <1>26, StartExportTypes DEF ExportNow
  <2>2. QED
    BY <1>26, <2>1 DEF ExportNow, StartExport, NeverStarts, PC
<1>27. ASSUME NEW r \in Run, Leave(r) PROVE TypeInv'
  <2>1. AfterMenu(r) \in Resume \cap PC
    BY AfterMenuTypes
  <2>2. PICK x \in PC \ {"attach", "play"} : pc' = [pc EXCEPT ![r] = x]
    BY <1>27 DEF Leave, StartSave, NeverStarts, PC, AfterMenu
  <2>3. back' \in [Run -> Resume]
    BY <1>27, <2>1 DEF Leave, StartSave, NeverStarts
  <2>4. file' \in [Run -> File]
    BY <1>27 DEF Leave, StartSave, NeverStarts, File
  <2>5. UNCHANGED <<jobVars, pos, loaded, recordVars, saved, shots, bundle, registered>>
    BY <1>27 DEF Leave, StartSave
  <2>6. QED
    BY <2>2, <2>3, <2>4, <2>5
<1>28. ASSUME NEW k \in Effect, PageActs(k) PROVE TypeInv'
  <2>1. page' \in Seq(Effect) /\ Len(page') = Len(page) + 1
    BY <1>28 DEF PageActs
  <2>2. \A q \in Run : seen'[q] <= Len(page')
    BY <1>28, <2>1 DEF PageActs
  <2>3. QED
    BY <1>28, <2>1, <2>2 DEF PageActs
<1>29. ASSUME Crash PROVE TypeInv'
  BY <1>29 DEF Crash, PC
<1>30. ASSUME UNCHANGED vars PROVE TypeInv'
  BY <1>30 DEF vars
<1>31. QED
  BY <1>1, <1>2, <1>3, <1>4, <1>5, <1>6, <1>7, <1>8, <1>9, <1>10, <1>11, <1>12,
     <1>13, <1>14, <1>15, <1>16, <1>17, <1>18, <1>19, <1>20, <1>21, <1>22, <1>23, <1>24,
     <1>25, <1>26, <1>27, <1>28, <1>29, <1>30
     DEF Next, Begin, RunStep, Menu

\* Every reachable state is well typed, whatever the runs and the bounds: in
\* particular nothing is shot or restored under a name that is none.
THEOREM TypeCorrect == Spec => []TypeOK
<1>1. QED
  BY InitTypeInv, NextTypeInv, PTL DEF Spec, TypeInv

--------------------------------------------------------------------------------
(* The roles of the runs *)

\* Who saves has a recorder; where a record command goes on after saving or
\* exporting.
Recorders ==
  \A r \in Run :
    /\ pc[r] = "save" => kind[r] = "record"
    /\ kind[r] = "record" /\ pc[r] # "idle" => r \in recorder
    /\ pc[r] = "saving" => r \in recorder
    /\ kind[r] = "record" /\ pc[r] = "saving" => back[r] \in {"watch", "export", "menu"}
    /\ kind[r] = "record" /\ pc[r] = "exporting" => back[r] \in {"register", "menu"}

\* The roles of the runs stay what they are.
LEMMA NextRecorders == TypeInv /\ Recorders /\ [Next]_vars => Recorders'
<1> SUFFICES ASSUME TypeInv, Recorders, [Next]_vars PROVE Recorders'
  OBVIOUS
<1> USE DEF TypeInv, TypeOK, Plays, Resume, Recorders,
        jobVars, threadVars, recordVars, diskVars, Goto, Raise, GoBack, MayWatch
<1>1. ASSUME NEW r \in Run, BeginRecord(r) PROVE Recorders'
  BY <1>1 DEF BeginRecord
<1>2. ASSUME NEW r \in Run, BeginBrowser(r) PROVE Recorders'
  BY <1>2 DEF BeginBrowser
<1>3. ASSUME NEW r \in Run, BeginReplay(r) PROVE Recorders'
  BY <1>3, SMTT(30) DEF BeginReplay
<1>4. ASSUME NEW r \in Run, BeginImport(r) PROVE Recorders'
  BY <1>4 DEF BeginImport
<1>5. ASSUME NEW r \in Run, Extract(r) PROVE Recorders'
  <2>1. PICK x \in {"returned", "raised"} : pc' = [pc EXCEPT ![r] = x]
    BY <1>5 DEF Extract
  <2>2. UNCHANGED <<kind, back, recorder>> /\ pc[r] = "extract"
    BY <1>5 DEF Extract
  <2>3. QED
    BY <2>1, <2>2
<1>6. ASSUME NEW r \in Run, Attach(r) PROVE Recorders'
  BY <1>6 DEF Attach
<1>7. ASSUME NEW r \in Run, Navigate(r) PROVE Recorders'
  BY <1>7 DEF Navigate
<1>8. ASSUME NEW r \in Run, Shoot(r) PROVE Recorders'
  BY <1>8 DEF Shoot
<1>9. ASSUME NEW r \in Run, ShootOnce(r) PROVE Recorders'
  BY <1>9 DEF ShootOnce
<1>10. ASSUME NEW r \in Run, ShootFails(r) PROVE Recorders'
  BY <1>10 DEF ShootFails
<1>11. ASSUME NEW r \in Run, TimeIsUp(r) PROVE Recorders'
  BY <1>11 DEF TimeIsUp
<1>12. ASSUME NEW r \in Run, Save(r) PROVE Recorders'
  BY <1>12 DEF Save, StartSave, NeverStarts
<1>13. ASSUME NEW r \in Run, FinishSave(r) PROVE Recorders'
  BY <1>13 DEF FinishSave, Fails
<1>14. ASSUME NEW r \in Run, Export(r) PROVE Recorders'
  BY <1>14 DEF Export, StartExport, NeverStarts
<1>15. ASSUME NEW r \in Run, FinishExport(r) PROVE Recorders'
  BY <1>15 DEF FinishExport, Fails
<1>16. ASSUME NEW r \in Run, Register(r) PROVE Recorders'
  BY <1>16 DEF Register
<1>17. ASSUME NEW r \in Run, Play(r) PROVE Recorders'
  BY <1>17 DEF Play
<1>18. ASSUME NEW r \in Run, Played(r) PROVE Recorders'
  BY <1>18 DEF Played
<1>19. ASSUME NEW r \in Run, Watch(r) PROVE Recorders'
  BY <1>19 DEF Watch
<1>20. ASSUME NEW r \in Run, BeginCall(r) PROVE Recorders'
  BY <1>20 DEF BeginCall
<1>21. ASSUME NEW r \in Run, CallActs(r) PROVE Recorders'
  BY <1>21 DEF CallActs
<1>22. ASSUME NEW r \in Run, Listen(r) PROVE Recorders'
  BY <1>22 DEF Listen
<1>23. ASSUME NEW r \in Run, EndCall(r) PROVE Recorders'
  BY <1>23 DEF EndCall, RecordCall
<1>24. ASSUME NEW r \in Run, RecordOn(r) PROVE Recorders'
  BY <1>24 DEF RecordOn
<1>25. ASSUME NEW r \in Run, SaveNow(r) PROVE Recorders'
  BY <1>25 DEF SaveNow, StartSave, NeverStarts
<1>26. ASSUME NEW r \in Run, ExportNow(r) PROVE Recorders'
  BY <1>26 DEF ExportNow, StartExport, NeverStarts
<1>27. ASSUME NEW r \in Run, Leave(r) PROVE Recorders'
  <2>1. CASE StartSave(r, AfterMenu(r)) /\ r \in recorder
    <3>1. AfterMenu(r) # "menu" /\ (kind[r] = "record" => AfterMenu(r) = "export")
      BY DEF AfterMenu
    <3>2. QED
      BY <1>27, <2>1, <3>1 DEF Leave, StartSave, NeverStarts
  <2>2. CASE /\ r \notin recorder /\ Goto(r, AfterMenu(r))
             /\ UNCHANGED <<jobVars, threadVars, recordVars, diskVars, registered>>
    <3>1. AfterMenu(r) \notin {"save", "saving", "exporting"}
      BY DEF AfterMenu
    <3>2. QED
      BY <1>27, <2>2, <3>1 DEF Leave
  <2>3. QED
    BY <1>27, <2>1, <2>2 DEF Leave
<1>28. ASSUME NEW k \in Effect, PageActs(k) PROVE Recorders'
  BY <1>28 DEF PageActs
<1>29. ASSUME Crash PROVE Recorders'
  BY <1>29 DEF Crash, Live, Ended
<1>30. ASSUME UNCHANGED vars PROVE Recorders'
  BY <1>30 DEF vars
<1>31. QED
  BY <1>1, <1>2, <1>3, <1>4, <1>5, <1>6, <1>7, <1>8, <1>9, <1>10, <1>11, <1>12,
     <1>13, <1>14, <1>15, <1>16, <1>17, <1>18, <1>19, <1>20, <1>21, <1>22, <1>23, <1>24,
     <1>25, <1>26, <1>27, <1>28, <1>29, <1>30
     DEF Next, Begin, RunStep, Menu

--------------------------------------------------------------------------------
(* Half written sessions *)

\* A run that imports does nothing else, and nobody else extracts.
ImportsExtract ==
  \A r \in Run :
    /\ pc[r] = "extract" => kind[r] = "import"
    /\ kind[r] = "import" => pc[r] \in {"idle", "extract", "returned", "raised", "dead"}

\* Where a run may leave a file torn that it wrote itself.
MayBeTorn(s) ==
  \/ pc[s] \in {"saving", "menu", "call", "raised", "dead"}
  \/ pc[s] = "exporting" /\ back[s] = "menu"

\* A torn file that was not imported is of a run that records: one without a
\* recorder leaves the menu without a save.
TornInv ==
  /\ ImportsExtract
  /\ \A s \in Run : file[s] = "torn" => Imported(s) \/ (s \in recorder /\ MayBeTorn(s))

\* What a step may do to imports and to session.json.
ImportStep ==
  /\ kind' = kind /\ of' = of
  /\ \A q \in Run :
       /\ pc'[q] = "extract" => pc[q] = "extract" \/ kind[q] = "import"
       /\ kind[q] = "import" => pc'[q] = pc[q] \/ pc'[q] \in {"extract", "returned", "raised", "dead"}
FileStep ==
  /\ recorder \subseteq recorder'
  /\ \A s \in Run :
       \/ file'[s] = file[s] /\ (s \in recorder /\ MayBeTorn(s) => MayBeTorn(s)')
       \/ file'[s] = "whole"
       \/ s \in recorder /\ pc[s] # "saving" /\ pc'[s] = "saving"
       \/ \E q \in Run : kind[q] = "import" /\ of[q] = s /\ pc'[q] # "idle"

\* No run has begun, no file is there.
LEMMA InitTornInv == Init => TornInv
BY DEF Init, TornInv, ImportsExtract

\* Only an import enters "extract" and an import leaves it only for its end.
LEMMA NextImportStep == TypeOK /\ ImportsExtract /\ [Next]_vars => ImportStep
<1> SUFFICES ASSUME TypeOK, ImportsExtract, [Next]_vars PROVE ImportStep
  OBVIOUS
<1> USE DEF TypeOK, Resume, ImportsExtract, ImportStep,
        jobVars, threadVars, recordVars, diskVars, Goto, Raise, GoBack, MayWatch
<1>1. ASSUME NEW r \in Run, BeginRecord(r) PROVE ImportStep
  BY <1>1 DEF BeginRecord
<1>2. ASSUME NEW r \in Run, BeginBrowser(r) PROVE ImportStep
  BY <1>2 DEF BeginBrowser
<1>3. ASSUME NEW r \in Run, BeginReplay(r) PROVE ImportStep
  BY <1>3 DEF BeginReplay
<1>4. ASSUME NEW r \in Run, BeginImport(r) PROVE ImportStep
  BY <1>4 DEF BeginImport
<1>5. ASSUME NEW r \in Run, Extract(r) PROVE ImportStep
  BY <1>5, SMTT(30) DEF Extract
<1>6. ASSUME NEW r \in Run, Attach(r) PROVE ImportStep
  BY <1>6 DEF Attach
<1>7. ASSUME NEW r \in Run, Navigate(r) PROVE ImportStep
  BY <1>7 DEF Navigate
<1>8. ASSUME NEW r \in Run, Shoot(r) PROVE ImportStep
  BY <1>8 DEF Shoot
<1>9. ASSUME NEW r \in Run, ShootOnce(r) PROVE ImportStep
  BY <1>9 DEF ShootOnce
<1>10. ASSUME NEW r \in Run, ShootFails(r) PROVE ImportStep
  BY <1>10 DEF ShootFails
<1>11. ASSUME NEW r \in Run, TimeIsUp(r) PROVE ImportStep
  BY <1>11 DEF TimeIsUp
<1>12. ASSUME NEW r \in Run, Save(r) PROVE ImportStep
  BY <1>12 DEF Save, StartSave, NeverStarts
<1>13. ASSUME NEW r \in Run, FinishSave(r) PROVE ImportStep
  BY <1>13 DEF FinishSave, Fails
<1>14. ASSUME NEW r \in Run, Export(r) PROVE ImportStep
  BY <1>14 DEF Export, StartExport, NeverStarts
<1>15. ASSUME NEW r \in Run, FinishExport(r) PROVE ImportStep
  BY <1>15 DEF FinishExport, Fails
<1>16. ASSUME NEW r \in Run, Register(r) PROVE ImportStep
  BY <1>16 DEF Register
<1>17. ASSUME NEW r \in Run, Play(r) PROVE ImportStep
  BY <1>17 DEF Play
<1>18. ASSUME NEW r \in Run, Played(r) PROVE ImportStep
  BY <1>18 DEF Played
<1>19. ASSUME NEW r \in Run, Watch(r) PROVE ImportStep
  BY <1>19 DEF Watch
<1>20. ASSUME NEW r \in Run, BeginCall(r) PROVE ImportStep
  BY <1>20 DEF BeginCall
<1>21. ASSUME NEW r \in Run, CallActs(r) PROVE ImportStep
  BY <1>21 DEF CallActs
<1>22. ASSUME NEW r \in Run, Listen(r) PROVE ImportStep
  BY <1>22 DEF Listen
<1>23. ASSUME NEW r \in Run, EndCall(r) PROVE ImportStep
  BY <1>23 DEF EndCall, RecordCall
<1>24. ASSUME NEW r \in Run, RecordOn(r) PROVE ImportStep
  BY <1>24 DEF RecordOn
<1>25. ASSUME NEW r \in Run, SaveNow(r) PROVE ImportStep
  BY <1>25 DEF SaveNow, StartSave, NeverStarts
<1>26. ASSUME NEW r \in Run, ExportNow(r) PROVE ImportStep
  BY <1>26 DEF ExportNow, StartExport, NeverStarts
<1>27. ASSUME NEW r \in Run, Leave(r) PROVE ImportStep
  <2>1. kind[r] # "import"
    BY <1>27 DEF Leave
  <2>2. PICK x \in Resume \cup {"saving", "raised"} : pc' = [pc EXCEPT ![r] = x]
    BY <1>27, AfterMenuTypes DEF Leave, StartSave, NeverStarts
  <2>3. kind' = kind /\ of' = of
    BY <1>27 DEF Leave, StartSave
  <2>4. QED
    BY <2>1, <2>2, <2>3
<1>28. ASSUME NEW k \in Effect, PageActs(k) PROVE ImportStep
  BY <1>28 DEF PageActs
<1>29. ASSUME Crash PROVE ImportStep
  BY <1>29 DEF Crash, Live, Ended
<1>30. ASSUME UNCHANGED vars PROVE ImportStep
  BY <1>30 DEF vars
<1>31. QED
  BY <1>1, <1>2, <1>3, <1>4, <1>5, <1>6, <1>7, <1>8, <1>9, <1>10, <1>11, <1>12,
     <1>13, <1>14, <1>15, <1>16, <1>17, <1>18, <1>19, <1>20, <1>21, <1>22, <1>23, <1>24,
     <1>25, <1>26, <1>27, <1>28, <1>29, <1>30
     DEF Next, Begin, RunStep, Menu

\* A file becomes torn only under a run that writes it or imports it.
LEMMA NextFileStep == TypeOK /\ ImportsExtract /\ Recorders /\ [Next]_vars => FileStep
<1> SUFFICES ASSUME TypeOK, ImportsExtract, Recorders, [Next]_vars PROVE FileStep
  OBVIOUS
<1> USE DEF TypeOK, Resume, ImportsExtract, FileStep, MayBeTorn,
        jobVars, threadVars, recordVars, diskVars, Goto, Raise, GoBack, MayWatch
<1>1. ASSUME NEW r \in Run, BeginRecord(r) PROVE FileStep
  BY <1>1 DEF BeginRecord
<1>2. ASSUME NEW r \in Run, BeginBrowser(r) PROVE FileStep
  BY <1>2 DEF BeginBrowser
<1>3. ASSUME NEW r \in Run, BeginReplay(r) PROVE FileStep
  BY <1>3 DEF BeginReplay
<1>4. ASSUME NEW r \in Run, BeginImport(r) PROVE FileStep
  BY <1>4 DEF BeginImport
<1>5. ASSUME NEW r \in Run, Extract(r) PROVE FileStep
  BY <1>5, SMTT(30) DEF Extract
<1>6. ASSUME NEW r \in Run, Attach(r) PROVE FileStep
  BY <1>6 DEF Attach
<1>7. ASSUME NEW r \in Run, Navigate(r) PROVE FileStep
  BY <1>7 DEF Navigate
<1>8. ASSUME NEW r \in Run, Shoot(r) PROVE FileStep
  BY <1>8 DEF Shoot
<1>9. ASSUME NEW r \in Run, ShootOnce(r) PROVE FileStep
  BY <1>9 DEF ShootOnce
<1>10. ASSUME NEW r \in Run, ShootFails(r) PROVE FileStep
  BY <1>10 DEF ShootFails
<1>11. ASSUME NEW r \in Run, TimeIsUp(r) PROVE FileStep
  BY <1>11 DEF TimeIsUp
<1>12. ASSUME NEW r \in Run, Save(r) PROVE FileStep
  BY <1>12 DEF Save, Recorders, StartSave, NeverStarts
<1>13. ASSUME NEW r \in Run, FinishSave(r) PROVE FileStep
  BY <1>13 DEF FinishSave, Fails
<1>14. ASSUME NEW r \in Run, Export(r) PROVE FileStep
  BY <1>14 DEF Export, StartExport, NeverStarts
<1>15. ASSUME NEW r \in Run, FinishExport(r) PROVE FileStep
  BY <1>15 DEF FinishExport, Fails
<1>16. ASSUME NEW r \in Run, Register(r) PROVE FileStep
  BY <1>16 DEF Register
<1>17. ASSUME NEW r \in Run, Play(r) PROVE FileStep
  BY <1>17 DEF Play
<1>18. ASSUME NEW r \in Run, Played(r) PROVE FileStep
  BY <1>18 DEF Played
<1>19. ASSUME NEW r \in Run, Watch(r) PROVE FileStep
  BY <1>19 DEF Watch
<1>20. ASSUME NEW r \in Run, BeginCall(r) PROVE FileStep
  BY <1>20 DEF BeginCall
<1>21. ASSUME NEW r \in Run, CallActs(r) PROVE FileStep
  BY <1>21 DEF CallActs
<1>22. ASSUME NEW r \in Run, Listen(r) PROVE FileStep
  BY <1>22 DEF Listen
<1>23. ASSUME NEW r \in Run, EndCall(r) PROVE FileStep
  BY <1>23 DEF EndCall, RecordCall
<1>24. ASSUME NEW r \in Run, RecordOn(r) PROVE FileStep
  BY <1>24 DEF RecordOn
<1>25. ASSUME NEW r \in Run, SaveNow(r) PROVE FileStep
  BY <1>25 DEF SaveNow, StartSave, NeverStarts
<1>26. ASSUME NEW r \in Run, ExportNow(r) PROVE FileStep
  BY <1>26 DEF ExportNow, StartExport, NeverStarts
<1>27. ASSUME NEW r \in Run, Leave(r) PROVE FileStep
  <2>1. AfterMenu(r) # "menu"
    BY DEF AfterMenu
  <2>2. CASE r \in recorder /\ StartSave(r, AfterMenu(r))
    BY <1>27, <2>1, <2>2 DEF Leave, StartSave, NeverStarts
  <2>3. CASE ~(r \in recorder /\ StartSave(r, AfterMenu(r)))
    BY <1>27, <2>3 DEF Leave
  <2>4. QED
    BY <2>2, <2>3
<1>28. ASSUME NEW k \in Effect, PageActs(k) PROVE FileStep
  BY <1>28 DEF PageActs
<1>29. ASSUME Crash PROVE FileStep
  BY <1>29 DEF Crash, Live, Ended
<1>30. ASSUME UNCHANGED vars PROVE FileStep
  BY <1>30 DEF vars
<1>31. QED
  BY <1>1, <1>2, <1>3, <1>4, <1>5, <1>6, <1>7, <1>8, <1>9, <1>10, <1>11, <1>12,
     <1>13, <1>14, <1>15, <1>16, <1>17, <1>18, <1>19, <1>20, <1>21, <1>22, <1>23, <1>24,
     <1>25, <1>26, <1>27, <1>28, <1>29, <1>30
     DEF Next, Begin, RunStep, Menu

\* A file is torn by the run that writes it or by an import, and what has been
\* imported stays so.
LEMMA NextTornInv == TypeOK /\ Recorders /\ TornInv /\ [Next]_vars => TornInv'
<1> SUFFICES ASSUME TypeOK, Recorders, TornInv, [Next]_vars PROVE TornInv'
  OBVIOUS
<1>1. ImportStep /\ FileStep
  BY NextImportStep, NextFileStep DEF TornInv
<1>2. ImportsExtract'
  BY <1>1 DEF TornInv, ImportsExtract, ImportStep
<1>3. ASSUME NEW s \in Run, Imported(s) PROVE Imported(s)'
  BY <1>1, <1>3 DEF Imported, ImportStep
<1>4. ASSUME NEW s \in Run, file'[s] = "torn"
      PROVE  Imported(s)' \/ (s \in recorder' /\ MayBeTorn(s)')
  <2>1. CASE s \in recorder /\ pc'[s] = "saving"
    BY <1>1, <2>1 DEF FileStep, MayBeTorn
  <2>2. CASE file'[s] = file[s] /\ (s \in recorder /\ MayBeTorn(s) => MayBeTorn(s)')
    BY <1>1, <1>3, <1>4, <2>2 DEF TornInv, FileStep
  <2>3. CASE \E q \in Run : kind[q] = "import" /\ of[q] = s /\ pc'[q] # "idle"
    BY <2>3, <1>1 DEF ImportStep, Imported
  <2>4. QED
    BY <1>1, <1>4, <2>1, <2>2, <2>3 DEF FileStep
<1>5. QED
  BY <1>2, <1>4 DEF TornInv

\* In every reachable state a torn file has its reason.
LEMMA SpecTornInv == Spec => [](TypeInv /\ Recorders /\ TornInv)
<1>1. Init => TypeInv /\ Recorders /\ TornInv
  BY InitTypeInv, InitTornInv DEF Init, Recorders
<1>2. TypeInv /\ Recorders /\ TornInv /\ [Next]_vars => (TypeInv /\ Recorders /\ TornInv)'
  BY NextTypeInv, NextRecorders, NextTornInv DEF TypeInv
<1>3. QED
  BY <1>1, <1>2, PTL DEF Spec

\* A session.json that cannot be parsed is being written, or was when its run died
\* or raised, or its run is still in the menu, or an import touched it: for any
\* number of runs of any kind, and whichever saves and exports fail.
THEOREM TornExplained == Spec => []TornIsExplained
<1>1. TornInv => TornIsExplained
  BY DEF TornInv, TornIsExplained, MayBeTorn
<1>2. QED
  BY <1>1, SpecTornInv, PTL

--------------------------------------------------------------------------------
(* What is saved *)

\* t begins with s.
Extends(t, s) == Len(s) <= Len(t) /\ \A i \in 1 .. Len(s) : t[i] = s[i]

\* Sequences extend themselves, the empty one and what they extend extends.
LEMMA ExtendsFacts ==
  ASSUME NEW s \in Seq(Action), NEW t \in Seq(Action), NEW u \in Seq(Action)
  PROVE  /\ Extends(s, s)
         /\ Extends(s, <<>>)
         /\ Extends(t, s) /\ Extends(u, t) => Extends(u, s)
         /\ Extends(s \o t, s)
BY DEF Extends

\* The form in which SavedOnlyGrows says it.
LEMMA ExtendsIsPrefix ==
  ASSUME NEW s \in Seq(Action), NEW t \in Seq(Action), Extends(t, s)
  PROVE  Len(s) <= Len(t) /\ SubSeq(t, 1, Len(s)) = s
<1>1. Len(s) \in Nat /\ Len(t) \in Nat /\ Len(s) <= Len(t)
  BY DEF Extends
<1>2. \A i \in 1 .. Len(s) : t[i] \in Action
  BY <1>1, ElementOfSeq
<1> DEFINE n == Len(s)
<1> DEFINE u == SubSeq(t, 1, n)
<1>3. u \in Seq(Action) /\ Len(u) = n /\ \A i \in 1 .. n : u[i] = t[i]
  <2>1. n \in Nat /\ \A i \in 1 .. n : t[i] \in Action
    BY <1>1, <1>2
  <2> HIDE DEF n
  <2>2. QED
    BY <2>1, SubSeqProperties
<1>4. \A i \in 1 .. Len(s) : s[i] = u[i]
  BY <1>3 DEF Extends
<1> HIDE DEF u
<1>5. u = s
  BY <1>3, <1>4, SeqEqual
<1>6. QED
  BY <1>1, <1>5 DEF u

\* What was saved begins what is recorded.
SavedInv ==
  \A r \in Run : ~Imported(r) =>
    /\ Extends(actions[r], saved[r])
    /\ r \notin recorder => saved[r] = <<>>

\* What a step may do to recordings and to what is saved of them.
GrowStep ==
  /\ recorder \subseteq recorder'
  /\ \A q \in Run :
       \/ Extends(actions'[q], actions[q])
       \/ q \notin recorder
SaveStep ==
  \A q \in Run :
    \/ saved'[q] = saved[q]
    \/ pc[q] = "saving" /\ saved'[q] = actions[q] /\ actions'[q] = actions[q]
    \/ Imported(q)

\* One more action extends what is recorded.
LEMMA RecordExtends ==
  ASSUME actions \in [Run -> Seq(Action)], NEW r \in Run, NEW a \in Action, Record(r, a)
  PROVE  \A q \in Run : Extends(actions'[q], actions[q])
<1>1. actions' = [actions EXCEPT ![r] = Append(actions[r], a)]
  BY DEF Record
<1>2. Append(actions[r], a) = actions[r] \o <<a>>
  BY AppendIsConcat
<1>3. Extends(actions[r] \o <<a>>, actions[r])
  <2>1. actions[r] \in Seq(Action) /\ <<a>> \in Seq(Action)
    OBVIOUS
  <2>2. QED
    BY <2>1, ExtendsFacts
<1>4. QED
  BY <1>1, <1>2, <1>3, ExtendsFacts

\* No step takes recorded actions away, but record on in a run without a recorder.
LEMMA NextGrowStep == TypeInv /\ [Next]_vars => GrowStep
<1> SUFFICES ASSUME TypeInv, [Next]_vars PROVE GrowStep
  OBVIOUS
<1>0. \A q \in Run : Extends(actions[q], actions[q])
  BY ExtendsFacts DEF TypeInv, TypeOK
<1> USE <1>0 DEF GrowStep, jobVars, threadVars, recordVars, diskVars
<1>1. ASSUME NEW r \in Run, BeginRecord(r) PROVE GrowStep
  BY <1>1 DEF BeginRecord
<1>2. ASSUME NEW r \in Run, BeginBrowser(r) PROVE GrowStep
  BY <1>2 DEF BeginBrowser
<1>3. ASSUME NEW r \in Run, BeginReplay(r) PROVE GrowStep
  BY <1>3 DEF BeginReplay
<1>4. ASSUME NEW r \in Run, BeginImport(r) PROVE GrowStep
  BY <1>4 DEF BeginImport
<1>5. ASSUME NEW r \in Run, Extract(r) PROVE GrowStep
  BY <1>5 DEF Extract
<1>6. ASSUME NEW r \in Run, Attach(r) PROVE GrowStep
  BY <1>6 DEF Attach
<1>7. ASSUME NEW r \in Run, Navigate(r) PROVE GrowStep
  <2>1. [type |-> "navigate", ref |-> 0] \in Action
    BY Constants DEF Action
  <2>2. \A q \in Run : Extends(actions'[q], actions[q])
    BY <1>7, <2>1, RecordExtends DEF Navigate, TypeInv, TypeOK
  <2>3. QED
    BY <1>7, <2>2 DEF Navigate
<1>8. ASSUME NEW r \in Run, Shoot(r) PROVE GrowStep
  <2>1. [type |-> "screenshot", ref |-> pos[r]] \in Action
    BY <1>8, Constants DEF Shoot, Action, Name, TypeInv, TypeOK
  <2>2. \A q \in Run : Extends(actions'[q], actions[q])
    BY <1>8, <2>1, RecordExtends DEF Shoot, TypeInv, TypeOK
  <2>3. QED
    BY <1>8, <2>2 DEF Shoot
<1>9. ASSUME NEW r \in Run, ShootOnce(r) PROVE GrowStep
  BY <1>9 DEF ShootOnce
<1>10. ASSUME NEW r \in Run, ShootFails(r) PROVE GrowStep
  BY <1>10 DEF ShootFails
<1>11. ASSUME NEW r \in Run, TimeIsUp(r) PROVE GrowStep
  BY <1>11 DEF TimeIsUp
<1>12. ASSUME NEW r \in Run, Save(r) PROVE GrowStep
  BY <1>12 DEF Save, StartSave, NeverStarts
<1>13. ASSUME NEW r \in Run, FinishSave(r) PROVE GrowStep
  BY <1>13 DEF FinishSave, Fails
<1>14. ASSUME NEW r \in Run, Export(r) PROVE GrowStep
  BY <1>14 DEF Export, StartExport, NeverStarts
<1>15. ASSUME NEW r \in Run, FinishExport(r) PROVE GrowStep
  BY <1>15 DEF FinishExport, Fails
<1>16. ASSUME NEW r \in Run, Register(r) PROVE GrowStep
  BY <1>16 DEF Register
<1>17. ASSUME NEW r \in Run, Play(r) PROVE GrowStep
  BY <1>17 DEF Play
<1>18. ASSUME NEW r \in Run, Played(r) PROVE GrowStep
  BY <1>18 DEF Played
<1>19. ASSUME NEW r \in Run, Watch(r) PROVE GrowStep
  BY <1>19 DEF Watch
<1>20. ASSUME NEW r \in Run, BeginCall(r) PROVE GrowStep
  BY <1>20 DEF BeginCall
<1>21. ASSUME NEW r \in Run, CallActs(r) PROVE GrowStep
  BY <1>21 DEF CallActs
<1>22. ASSUME NEW r \in Run, Listen(r) PROVE GrowStep
  <2>1. \A q \in Run : Extends(actions'[q], actions[q])
    BY <1>22, Listening, RecordExtends DEF TypeInv, TypeOK
  <2>2. QED
    BY <1>22, <2>1 DEF Listen
<1>23. ASSUME NEW r \in Run, EndCall(r) PROVE GrowStep
  <2>1. \A q \in Run : Extends(actions'[q], actions[q])
    BY <1>23, EndingCall, RecordExtends DEF TypeInv, TypeOK
  <2>2. QED
    BY <1>23, <2>1 DEF EndCall
<1>24. ASSUME NEW r \in Run, RecordOn(r) PROVE GrowStep
  BY <1>24 DEF RecordOn, TypeInv, TypeOK
<1>25. ASSUME NEW r \in Run, SaveNow(r) PROVE GrowStep
  BY <1>25 DEF SaveNow, StartSave, NeverStarts
<1>26. ASSUME NEW r \in Run, ExportNow(r) PROVE GrowStep
  BY <1>26 DEF ExportNow, StartExport, NeverStarts
<1>27. ASSUME NEW r \in Run, Leave(r) PROVE GrowStep
  BY <1>27 DEF Leave, StartSave, NeverStarts, AfterMenu
<1>28. ASSUME NEW k \in Effect, PageActs(k) PROVE GrowStep
  BY <1>28 DEF PageActs
<1>29. ASSUME Crash PROVE GrowStep
  BY <1>29 DEF Crash, Live, Ended
<1>30. ASSUME UNCHANGED vars PROVE GrowStep
  BY <1>30 DEF vars
<1>31. QED
  BY <1>1, <1>2, <1>3, <1>4, <1>5, <1>6, <1>7, <1>8, <1>9, <1>10, <1>11, <1>12,
     <1>13, <1>14, <1>15, <1>16, <1>17, <1>18, <1>19, <1>20, <1>21, <1>22, <1>23, <1>24,
     <1>25, <1>26, <1>27, <1>28, <1>29, <1>30
     DEF Next, Begin, RunStep, Menu

\* What is saved changes when the run has saved all it recorded, or by an import.
LEMMA NextSaveStep == TypeInv /\ ImportsExtract /\ [Next]_vars => SaveStep
<1> SUFFICES ASSUME TypeInv, ImportsExtract, [Next]_vars PROVE SaveStep
  OBVIOUS
<1> USE DEF SaveStep, jobVars, threadVars, recordVars, diskVars
<1>1. ASSUME NEW r \in Run, BeginRecord(r) PROVE SaveStep
  BY <1>1 DEF BeginRecord
<1>2. ASSUME NEW r \in Run, BeginBrowser(r) PROVE SaveStep
  BY <1>2 DEF BeginBrowser
<1>3. ASSUME NEW r \in Run, BeginReplay(r) PROVE SaveStep
  BY <1>3 DEF BeginReplay
<1>4. ASSUME NEW r \in Run, BeginImport(r) PROVE SaveStep
  BY <1>4 DEF BeginImport
<1>5. ASSUME NEW r \in Run, Extract(r) PROVE SaveStep
  <2>1. Imported(of[r])
    BY <1>5 DEF Extract, Imported, ImportsExtract
  <2>2. saved' = saved \/ \E x : saved' = [saved EXCEPT ![of[r]] = x]
    BY <1>5 DEF Extract
  <2>3. QED
    BY <2>1, <2>2 DEF TypeInv, TypeOK
<1>6. ASSUME NEW r \in Run, Attach(r) PROVE SaveStep
  BY <1>6 DEF Attach
<1>7. ASSUME NEW r \in Run, Navigate(r) PROVE SaveStep
  BY <1>7 DEF Navigate
<1>8. ASSUME NEW r \in Run, Shoot(r) PROVE SaveStep
  BY <1>8 DEF Shoot
<1>9. ASSUME NEW r \in Run, ShootOnce(r) PROVE SaveStep
  BY <1>9 DEF ShootOnce
<1>10. ASSUME NEW r \in Run, ShootFails(r) PROVE SaveStep
  BY <1>10 DEF ShootFails
<1>11. ASSUME NEW r \in Run, TimeIsUp(r) PROVE SaveStep
  BY <1>11 DEF TimeIsUp
<1>12. ASSUME NEW r \in Run, Save(r) PROVE SaveStep
  BY <1>12 DEF Save, StartSave, NeverStarts
<1>13. ASSUME NEW r \in Run, FinishSave(r) PROVE SaveStep
  BY <1>13 DEF FinishSave, Fails, TypeInv, TypeOK
<1>14. ASSUME NEW r \in Run, Export(r) PROVE SaveStep
  BY <1>14 DEF Export, StartExport, NeverStarts
<1>15. ASSUME NEW r \in Run, FinishExport(r) PROVE SaveStep
  BY <1>15 DEF FinishExport, Fails
<1>16. ASSUME NEW r \in Run, Register(r) PROVE SaveStep
  BY <1>16 DEF Register
<1>17. ASSUME NEW r \in Run, Play(r) PROVE SaveStep
  BY <1>17 DEF Play
<1>18. ASSUME NEW r \in Run, Played(r) PROVE SaveStep
  BY <1>18 DEF Played
<1>19. ASSUME NEW r \in Run, Watch(r) PROVE SaveStep
  BY <1>19 DEF Watch
<1>20. ASSUME NEW r \in Run, BeginCall(r) PROVE SaveStep
  BY <1>20 DEF BeginCall
<1>21. ASSUME NEW r \in Run, CallActs(r) PROVE SaveStep
  BY <1>21 DEF CallActs
<1>22. ASSUME NEW r \in Run, Listen(r) PROVE SaveStep
  BY <1>22 DEF Listen
<1>23. ASSUME NEW r \in Run, EndCall(r) PROVE SaveStep
  BY <1>23 DEF EndCall, RecordCall
<1>24. ASSUME NEW r \in Run, RecordOn(r) PROVE SaveStep
  BY <1>24 DEF RecordOn
<1>25. ASSUME NEW r \in Run, SaveNow(r) PROVE SaveStep
  BY <1>25 DEF SaveNow, StartSave, NeverStarts
<1>26. ASSUME NEW r \in Run, ExportNow(r) PROVE SaveStep
  BY <1>26 DEF ExportNow, StartExport, NeverStarts
<1>27. ASSUME NEW r \in Run, Leave(r) PROVE SaveStep
  BY <1>27 DEF Leave, StartSave, NeverStarts, AfterMenu
<1>28. ASSUME NEW k \in Effect, PageActs(k) PROVE SaveStep
  BY <1>28 DEF PageActs
<1>29. ASSUME Crash PROVE SaveStep
  BY <1>29 DEF Crash, Live, Ended
<1>30. ASSUME UNCHANGED vars PROVE SaveStep
  BY <1>30 DEF vars
<1>31. QED
  BY <1>1, <1>2, <1>3, <1>4, <1>5, <1>6, <1>7, <1>8, <1>9, <1>10, <1>11, <1>12,
     <1>13, <1>14, <1>15, <1>16, <1>17, <1>18, <1>19, <1>20, <1>21, <1>22, <1>23, <1>24,
     <1>25, <1>26, <1>27, <1>28, <1>29, <1>30
     DEF Next, Begin, RunStep, Menu

\* What has been imported stays so.
LEMMA ImportedStays ==
  ASSUME ImportStep, NEW s \in Run, Imported(s)
  PROVE  Imported(s)'
BY DEF Imported, ImportStep

KeptInv == TypeInv /\ TornInv /\ Recorders /\ SavedInv

\* Nothing is recorded or saved yet.
LEMMA InitKeptInv == Init => KeptInv
<1> SUFFICES ASSUME Init PROVE KeptInv
  OBVIOUS
<1>1. TypeInv /\ TornInv
  BY InitTypeInv, InitTornInv
<1>2. Recorders
  BY DEF Init, Recorders
<1>3. \A r \in Run : actions[r] = <<>> /\ saved[r] = <<>>
  BY DEF Init
<1>4. Extends(<<>>, <<>>)
  BY DEF Extends
<1>5. SavedInv
  BY <1>3, <1>4 DEF SavedInv
<1>6. QED
  BY <1>1, <1>2, <1>5 DEF KeptInv

\* Recordings grow, and are saved as they are.
LEMMA NextKeptInv == KeptInv /\ [Next]_vars => KeptInv'
<1> SUFFICES ASSUME KeptInv, [Next]_vars PROVE KeptInv'
  OBVIOUS
<1>1. TypeInv' /\ TornInv' /\ Recorders'
  BY NextTypeInv, NextTornInv, NextRecorders DEF KeptInv, TypeInv
<1>2. ImportStep /\ GrowStep /\ SaveStep
  BY NextImportStep, NextGrowStep, NextSaveStep DEF KeptInv, TypeInv, TornInv
<1>3. ASSUME NEW q \in Run, ~Imported(q)'
      PROVE  Extends(actions'[q], saved'[q]) /\ (q \notin recorder' => saved'[q] = <<>>)
  <2>1. ~Imported(q)
    BY <1>2, <1>3, ImportedStays
  <2>2. Extends(actions[q], saved[q]) /\ (q \notin recorder => saved[q] = <<>>)
    BY <2>1 DEF KeptInv, SavedInv
  <2>3. /\ actions[q] \in Seq(Action) /\ saved[q] \in Seq(Action)
        /\ actions'[q] \in Seq(Action) /\ saved'[q] \in Seq(Action)
    BY <1>1 DEF KeptInv, TypeInv, TypeOK
  <2>4. recorder \subseteq recorder'
    BY <1>2 DEF GrowStep
  <2>5. CASE saved'[q] = saved[q]
    <3>1. CASE Extends(actions'[q], actions[q])
      BY <2>2, <2>3, <2>4, <2>5, <3>1, ExtendsFacts
    <3>2. CASE q \notin recorder
      BY <2>2, <2>3, <2>5, <3>2, ExtendsFacts
    <3>3. QED
      BY <1>2, <3>1, <3>2 DEF GrowStep
  <2>6. CASE pc[q] = "saving" /\ saved'[q] = actions[q] /\ actions'[q] = actions[q]
    <3>1. q \in recorder
      BY <2>6 DEF KeptInv, Recorders
    <3>2. QED
      BY <2>3, <2>4, <2>6, <3>1, ExtendsFacts
  <2>7. QED
    BY <1>2, <2>1, <2>5, <2>6 DEF SaveStep
<1>4. SavedInv'
  BY <1>3 DEF SavedInv
<1>5. QED
  BY <1>1, <1>4 DEF KeptInv

\* In every reachable state what is saved begins what is recorded.
LEMMA SpecKeptInv == Spec => []KeptInv
<1>1. QED
  BY InitKeptInv, NextKeptInv, PTL DEF Spec

\* Whatever the runs do, a version of session.json that was not imported extends
\* the one before it, and only the next save takes it away.
THEOREM SavedGrows == Spec => SavedOnlyGrows
<1>1. ASSUME KeptInv, [Next]_vars
      PROVE  [\A s \in Run : ~Imported(s)' =>
               /\ file'[s] = "whole" =>
                    Len(saved[s]) <= Len(saved'[s]) /\ SubSeq(saved'[s], 1, Len(saved[s])) = saved[s]
               /\ file[s] = "whole" /\ file'[s] # "whole" => pc[s] # "saving" /\ pc'[s] = "saving"]_vars
  <2>1. SaveStep /\ TypeInv' /\ ImportStep /\ FileStep
    BY <1>1, NextSaveStep, NextTypeInv, NextImportStep, NextFileStep DEF KeptInv, TypeInv, TornInv
  <2>2. ASSUME NEW s \in Run, ~Imported(s)'
        PROVE  /\ Len(saved[s]) <= Len(saved'[s]) /\ SubSeq(saved'[s], 1, Len(saved[s])) = saved[s]
               /\ file[s] = "whole" /\ file'[s] # "whole" => pc[s] # "saving" /\ pc'[s] = "saving"
    <3>1. saved[s] \in Seq(Action) /\ saved'[s] \in Seq(Action)
      BY <1>1, <2>1 DEF KeptInv, TypeInv, TypeOK
    <3>2. ~Imported(s)
      BY <2>1, <2>2, ImportedStays
    <3>3. Extends(actions[s], saved[s])
      BY <1>1, <3>2 DEF KeptInv, SavedInv
    <3>4. Extends(saved'[s], saved[s])
      BY <2>1, <3>1, <3>2, <3>3, ExtendsFacts DEF SaveStep
    <3>5. ~(\E q \in Run : kind[q] = "import" /\ of[q] = s /\ pc'[q] # "idle")
      BY <2>1, <2>2 DEF Imported, ImportStep
    <3>6. file[s] = "whole" /\ file'[s] # "whole" => pc[s] # "saving" /\ pc'[s] = "saving"
      BY <2>1, <3>5 DEF FileStep
    <3>7. QED
      BY <3>1, <3>4, <3>6, ExtendsIsPrefix
  <2>3. QED
    BY <2>2
<1>2. QED
  BY <1>1, SpecKeptInv, PTL DEF Spec, SavedOnlyGrows

--------------------------------------------------------------------------------
(* What a record command leaves behind *)

\* The screenshots a recording lists are in its directory.
ListsInv == \A r \in Run : Lists(actions[r], shots[r])

\* A record command that has saved for the last time.
Late(r) ==
  \/ pc[r] \in {"export", "register", "returned"}
  \/ pc[r] = "exporting" /\ back[r] = "register"

RecordedInv ==
  \A r \in Run : kind[r] = "record" /\ ~Imported(r) =>
    /\ Late(r) => file[r] = "whole" /\ saved[r] = actions[r]
    /\ pc[r] \in {"register", "returned"} =>
         /\ bundle[r].state = "whole" /\ bundle[r].file = "whole"
         /\ bundle[r].actions = actions[r]
         /\ Lists(actions[r], bundle[r].shots)

\* What a step may do to a session late in its command.
LateStep ==
  \A q \in Run : kind[q] = "record" /\ ~Imported(q)' =>
    /\ Late(q)' =>
         \/ Late(q) /\ file'[q] = file[q] /\ saved'[q] = saved[q] /\ actions'[q] = actions[q]
         \/ /\ pc[q] = "saving"
            /\ file'[q] = "whole" /\ saved'[q] = actions[q] /\ actions'[q] = actions[q]
    /\ pc'[q] \in {"register", "returned"} =>
         \/ /\ pc[q] \in {"register", "returned"}
            /\ bundle'[q] = bundle[q] /\ actions'[q] = actions[q]
         \/ /\ pc[q] = "exporting" /\ back[q] = "register" /\ actions'[q] = actions[q]
            /\ bundle'[q] = [state |-> "whole", file |-> file[q],
                             actions |-> saved[q], shots |-> shots[q]]

\* Only the run itself, or an import, touches the session of a record command.
LEMMA NextLateStep == TypeInv /\ ImportsExtract /\ Recorders /\ [Next]_vars => LateStep
<1> SUFFICES ASSUME TypeInv, ImportsExtract, Recorders, [Next]_vars PROVE LateStep
  OBVIOUS
<1> USE DEF TypeInv, TypeOK, Plays, Resume, ImportsExtract, Recorders, LateStep, Late,
        jobVars, threadVars, recordVars, diskVars, Goto, Raise, GoBack, MayWatch
<1>1. ASSUME NEW r \in Run, BeginRecord(r) PROVE LateStep
  BY <1>1 DEF BeginRecord
<1>2. ASSUME NEW r \in Run, BeginBrowser(r) PROVE LateStep
  BY <1>2 DEF BeginBrowser
<1>3. ASSUME NEW r \in Run, BeginReplay(r) PROVE LateStep
  BY <1>3, SMTT(30) DEF BeginReplay
<1>4. ASSUME NEW r \in Run, BeginImport(r) PROVE LateStep
  <2>1. ASSUME NEW q \in Run, q = of[r] PROVE Imported(q)'
    BY <1>4, <2>1 DEF BeginImport, Imported
  <2>2. ASSUME NEW q \in Run, q # of[r] PROVE file'[q] = file[q]
    BY <1>4, <2>2 DEF BeginImport
  <2>3. pc' = [pc EXCEPT ![r] = "raised"] \/ pc' = [pc EXCEPT ![r] = "extract"]
    BY <1>4 DEF BeginImport
  <2>4. UNCHANGED <<kind, back, actions, saved, shots, bundle>> /\ kind[r] = "import"
    BY <1>4 DEF BeginImport
  <2>5. QED
    BY <2>1, <2>2, <2>3, <2>4
<1>5. ASSUME NEW r \in Run, Extract(r) PROVE LateStep
  <2>1. ASSUME NEW q \in Run, q = of[r] PROVE Imported(q)'
    BY <1>5, <2>1 DEF Extract, Imported
  <2>2. ASSUME NEW q \in Run, q # of[r] PROVE file'[q] = file[q] /\ saved'[q] = saved[q]
    <3>1. file' = file \/ \E x : file' = [file EXCEPT ![of[r]] = x]
      BY <1>5 DEF Extract
    <3>2. saved' = saved \/ \E x : saved' = [saved EXCEPT ![of[r]] = x]
      BY <1>5 DEF Extract
    <3>3. QED
      BY <2>2, <3>1, <3>2
  <2>3. pc' = [pc EXCEPT ![r] = "raised"] \/ pc' = [pc EXCEPT ![r] = "returned"]
    BY <1>5 DEF Extract
  <2>4. UNCHANGED <<kind, back, actions, bundle>> /\ kind[r] = "import"
    BY <1>5 DEF Extract
  <2>5. QED
    BY <2>1, <2>2, <2>3, <2>4, SMTT(30)
<1>6. ASSUME NEW r \in Run, Attach(r) PROVE LateStep
  BY <1>6 DEF Attach
<1>7. ASSUME NEW r \in Run, Navigate(r) PROVE LateStep
  BY <1>7 DEF Navigate, Record
<1>8. ASSUME NEW r \in Run, Shoot(r) PROVE LateStep
  BY <1>8 DEF Shoot, Record
<1>9. ASSUME NEW r \in Run, ShootOnce(r) PROVE LateStep
  BY <1>9 DEF ShootOnce
<1>10. ASSUME NEW r \in Run, ShootFails(r) PROVE LateStep
  BY <1>10 DEF ShootFails
<1>11. ASSUME NEW r \in Run, TimeIsUp(r) PROVE LateStep
  BY <1>11 DEF TimeIsUp
<1>12. ASSUME NEW r \in Run, Save(r) PROVE LateStep
  BY <1>12 DEF Save, StartSave, NeverStarts
<1>13. ASSUME NEW r \in Run, FinishSave(r) PROVE LateStep
  <2>1. \/ /\ pc' = [pc EXCEPT ![r] = back[r]]
           /\ file'[r] = "whole" /\ saved'[r] = actions[r]
        \/ \E x \in {"menu", "raised"} : pc' = [pc EXCEPT ![r] = x]
    BY <1>13 DEF FinishSave, Fails
  <2>2. \A q \in Run : q # r => file'[q] = file[q] /\ saved'[q] = saved[q] /\ back'[q] = back[q]
    BY <1>13 DEF FinishSave, Fails
  <2>3. pc[r] = "saving" /\ UNCHANGED <<kind, actions, bundle>>
    BY <1>13 DEF FinishSave
  <2>4. kind[r] = "record" => back[r] \in {"watch", "export", "menu"}
    BY <2>3
  <2>5. QED
    BY <2>1, <2>2, <2>3, <2>4, SMTT(30)
<1>14. ASSUME NEW r \in Run, Export(r) PROVE LateStep
  BY <1>14 DEF Export, StartExport, NeverStarts
<1>15. ASSUME NEW r \in Run, FinishExport(r) PROVE LateStep
  BY <1>15 DEF FinishExport, Fails
<1>16. ASSUME NEW r \in Run, Register(r) PROVE LateStep
  BY <1>16 DEF Register
<1>17. ASSUME NEW r \in Run, Play(r) PROVE LateStep
  BY <1>17 DEF Play
<1>18. ASSUME NEW r \in Run, Played(r) PROVE LateStep
  BY <1>18 DEF Played
<1>19. ASSUME NEW r \in Run, Watch(r) PROVE LateStep
  BY <1>19 DEF Watch
<1>20. ASSUME NEW r \in Run, BeginCall(r) PROVE LateStep
  BY <1>20 DEF BeginCall
<1>21. ASSUME NEW r \in Run, CallActs(r) PROVE LateStep
  BY <1>21 DEF CallActs
<1>22. ASSUME NEW r \in Run, Listen(r) PROVE LateStep
  BY <1>22, SMTT(30) DEF Listen, Record
<1>23. ASSUME NEW r \in Run, EndCall(r) PROVE LateStep
  BY <1>23, SMTT(30) DEF EndCall, RecordCall, Record
<1>24. ASSUME NEW r \in Run, RecordOn(r) PROVE LateStep
  BY <1>24 DEF RecordOn
<1>25. ASSUME NEW r \in Run, SaveNow(r) PROVE LateStep
  BY <1>25 DEF SaveNow, StartSave, NeverStarts
<1>26. ASSUME NEW r \in Run, ExportNow(r) PROVE LateStep
  BY <1>26 DEF ExportNow, StartExport, NeverStarts
<1>27. ASSUME NEW r \in Run, Leave(r) PROVE LateStep
  BY <1>27 DEF Leave, StartSave, NeverStarts, AfterMenu
<1>28. ASSUME NEW k \in Effect, PageActs(k) PROVE LateStep
  BY <1>28 DEF PageActs
<1>29. ASSUME Crash PROVE LateStep
  BY <1>29 DEF Crash, Live, Ended
<1>30. ASSUME UNCHANGED vars PROVE LateStep
  BY <1>30 DEF vars
<1>31. QED
  BY <1>1, <1>2, <1>3, <1>4, <1>5, <1>6, <1>7, <1>8, <1>9, <1>10, <1>11, <1>12,
     <1>13, <1>14, <1>15, <1>16, <1>17, <1>18, <1>19, <1>20, <1>21, <1>22, <1>23, <1>24,
     <1>25, <1>26, <1>27, <1>28, <1>29, <1>30
     DEF Next, Begin, RunStep, Menu

\* A list of screenshots is in a larger directory, too, and lists are put together.
LEMMA ListsFacts ==
  ASSUME NEW s \in Seq(Action), NEW t \in Seq(Action), NEW names, NEW more
  PROVE  /\ Lists(s, names) => Lists(s, names \cup more)
         /\ Lists(s, names) /\ Lists(t, names) => Lists(s \o t, names)
         /\ Lists(<<>>, names)
BY DEF Lists

\* An action recorded lists what was listed, and the screenshot it is.
LEMMA RecordLists ==
  ASSUME actions \in [Run -> Seq(Action)], NEW r \in Run, NEW a \in Action, Record(r, a),
         NEW names, Lists(actions[r], names), a.type = "screenshot" => a.ref \in names
  PROVE  /\ Lists(actions'[r], names)
         /\ \A q \in Run : q # r => actions'[q] = actions[q]
<1>1. actions' = [actions EXCEPT ![r] = Append(actions[r], a)]
  BY DEF Record
<1>2. Append(actions[r], a) = actions[r] \o <<a>> /\ actions[r] \in Seq(Action) /\ <<a>> \in Seq(Action)
  BY AppendIsConcat
<1>3. Lists(<<a>>, names)
  BY DEF Lists
<1>4. Lists(actions[r] \o <<a>>, names)
  BY <1>2, <1>3, ListsFacts
<1>5. QED
  BY <1>1, <1>2, <1>4

\* A screenshot is on disk before it is listed, and no run takes one away.
LEMMA NextListsInv == TypeInv /\ ListsInv /\ [Next]_vars => ListsInv'
<1> SUFFICES ASSUME TypeInv, ListsInv, [Next]_vars PROVE ListsInv'
  OBVIOUS
<1>0. /\ actions \in [Run -> Seq(Action)] /\ shots \in [Run -> SUBSET Name]
      /\ pos \in [Run -> Nat] /\ of \in [Run -> Run]
  BY DEF TypeInv, TypeOK
<1>a. TypeOK
  BY DEF TypeInv
<1> DEFINE Same == actions' = actions /\ shots' = shots
<1>b. ASSUME Same PROVE ListsInv'
  BY <1>b DEF ListsInv
<1>c. ASSUME actions' = actions, NEW q \in Run, NEW more,
             shots' = [shots EXCEPT ![q] = @ \cup more]
      PROVE  ListsInv'
  <2>1. \A r \in Run : Lists(actions[r], shots'[r])
    BY <1>c, <1>0, ListsFacts DEF ListsInv
  <2>2. QED
    BY <1>c, <2>1 DEF ListsInv
<1> USE DEF jobVars, threadVars, recordVars, diskVars
<1>1. ASSUME NEW r \in Run, BeginRecord(r) PROVE ListsInv'
  BY <1>1, <1>b DEF BeginRecord
<1>2. ASSUME NEW r \in Run, BeginBrowser(r) PROVE ListsInv'
  BY <1>2, <1>b DEF BeginBrowser
<1>3. ASSUME NEW r \in Run, BeginReplay(r) PROVE ListsInv'
  BY <1>3, <1>b DEF BeginReplay
<1>4. ASSUME NEW r \in Run, BeginImport(r) PROVE ListsInv'
  BY <1>4, <1>b DEF BeginImport
<1>5. ASSUME NEW r \in Run, Extract(r) PROVE ListsInv'
  <2>1. actions' = actions
    BY <1>5 DEF Extract
  <2>2. shots' = shots \/ \E more : shots' = [shots EXCEPT ![of[r]] = @ \cup more]
    BY <1>5 DEF Extract
  <2>3. QED
    BY <1>0, <1>b, <1>c, <2>1, <2>2
<1>6. ASSUME NEW r \in Run, Attach(r) PROVE ListsInv'
  BY <1>6, <1>b DEF Attach
<1>7. ASSUME NEW r \in Run, Navigate(r) PROVE ListsInv'
  <2> DEFINE a == [type |-> "navigate", ref |-> 0]
  <2>1. a \in Action /\ a.type # "screenshot"
    BY Constants DEF Action
  <2>2. shots' = shots /\ (actions' = actions \/ Record(r, a))
    BY <1>7 DEF Navigate
  <2> HIDE DEF a
  <2>3. QED
    BY <1>0, <1>b, <2>1, <2>2, RecordLists DEF ListsInv
<1>8. ASSUME NEW r \in Run, Shoot(r) PROVE ListsInv'
  <2> DEFINE a == [type |-> "screenshot", ref |-> pos[r]]
  <2> DEFINE names == shots[r] \cup {pos[r]}
  <2>1. a \in Action /\ a.ref \in names
    BY <1>0, <1>8, Constants DEF Shoot, Action, Name
  <2>2. Record(r, a) /\ shots' = [shots EXCEPT ![r] = names]
    BY <1>8 DEF Shoot
  <2>3. Lists(actions[r], names)
    BY <1>0, ListsFacts DEF ListsInv
  <2> HIDE DEF a, names
  <2>4. Lists(actions'[r], names) /\ \A q \in Run : q # r => actions'[q] = actions[q]
    BY <1>0, <2>1, <2>2, <2>3, RecordLists
  <2>5. QED
    BY <1>0, <2>2, <2>4 DEF ListsInv
<1>9. ASSUME NEW r \in Run, ShootOnce(r) PROVE ListsInv'
  BY <1>9, <1>b DEF ShootOnce
<1>10. ASSUME NEW r \in Run, ShootFails(r) PROVE ListsInv'
  BY <1>10, <1>b DEF ShootFails
<1>11. ASSUME NEW r \in Run, TimeIsUp(r) PROVE ListsInv'
  BY <1>11, <1>b DEF TimeIsUp
<1>12. ASSUME NEW r \in Run, Save(r) PROVE ListsInv'
  BY <1>12, <1>b DEF Save, StartSave, NeverStarts
<1>13. ASSUME NEW r \in Run, FinishSave(r) PROVE ListsInv'
  BY <1>13, <1>b DEF FinishSave, Fails
<1>14. ASSUME NEW r \in Run, Export(r) PROVE ListsInv'
  BY <1>14, <1>b DEF Export, StartExport, NeverStarts
<1>15. ASSUME NEW r \in Run, FinishExport(r) PROVE ListsInv'
  BY <1>15, <1>b DEF FinishExport, Fails
<1>16. ASSUME NEW r \in Run, Register(r) PROVE ListsInv'
  BY <1>16, <1>b DEF Register
<1>17. ASSUME NEW r \in Run, Play(r) PROVE ListsInv'
  <2>1. actions' = actions
    BY <1>17 DEF Play
  <2>2. shots' = shots \/ \E more : shots' = [shots EXCEPT ![of[r]] = @ \cup more]
    BY <1>17 DEF Play
  <2>3. QED
    BY <1>0, <1>b, <1>c, <2>1, <2>2
<1>18. ASSUME NEW r \in Run, Played(r) PROVE ListsInv'
  BY <1>18, <1>b DEF Played
<1>19. ASSUME NEW r \in Run, Watch(r) PROVE ListsInv'
  BY <1>19, <1>b DEF Watch
<1>20. ASSUME NEW r \in Run, BeginCall(r) PROVE ListsInv'
  BY <1>20, <1>b DEF BeginCall
<1>21. ASSUME NEW r \in Run, CallActs(r) PROVE ListsInv'
  BY <1>21, <1>b DEF CallActs
<1>22. ASSUME NEW r \in Run, Listen(r) PROVE ListsInv'
  <2>1. shots' = shots /\ (actions' = actions \/ Record(r, Heard(r)))
    BY <1>22, <1>a, Listening DEF Listen
  <2>2. Heard(r) \in Action /\ Heard(r).type # "screenshot"
    BY <1>22, <1>a, Listening, Constants
  <2>3. QED
    BY <1>0, <1>b, <2>1, <2>2, RecordLists DEF ListsInv
<1>23. ASSUME NEW r \in Run, EndCall(r) PROVE ListsInv'
  <2>1. CASE actions' = actions /\ shots' = shots
    BY <2>1, <1>b
  <2>2. CASE /\ Made(r) \in Action /\ Record(r, Made(r))
             /\ shots' = IF Made(r).type = "screenshot"
                         THEN [shots EXCEPT ![r] = @ \cup {Made(r).ref}] ELSE shots
    <3> DEFINE names == shots'[r]
    <3>1. Lists(actions[r], names)
      <4>1. names = shots[r] \/ names = shots[r] \cup {Made(r).ref}
        BY <1>0, <2>2
      <4>2. Lists(actions[r], shots[r]) /\ actions[r] \in Seq(Action)
        BY <1>0 DEF ListsInv
      <4> HIDE DEF names
      <4>3. Lists(actions[r], shots[r] \cup {Made(r).ref})
        BY <4>2, ListsFacts
      <4>4. QED
        BY <4>1, <4>2, <4>3
    <3>2. Made(r).type = "screenshot" => Made(r).ref \in names
      BY <1>0, <2>2
    <3> HIDE DEF names
    <3>3. Lists(actions'[r], names) /\ \A q \in Run : q # r => actions'[q] = actions[q]
      BY <1>0, <2>2, <3>1, <3>2, RecordLists
    <3>4. \A q \in Run : q # r => shots'[q] = shots[q]
      BY <1>0, <2>2
    <3>5. QED
      BY <3>3, <3>4 DEF ListsInv, names
  <2>3. QED
    BY <1>23, <1>a, <2>1, <2>2, EndingCall
<1>24. ASSUME NEW r \in Run, RecordOn(r) PROVE ListsInv'
  <2>1. actions' = [actions EXCEPT ![r] = <<>>] /\ shots' = shots
    BY <1>24 DEF RecordOn
  <2>2. Lists(<<>>, shots[r])
    BY DEF Lists
  <2>3. QED
    BY <1>0, <2>1, <2>2 DEF ListsInv
<1>25. ASSUME NEW r \in Run, SaveNow(r) PROVE ListsInv'
  BY <1>25, <1>b DEF SaveNow, StartSave, NeverStarts
<1>26. ASSUME NEW r \in Run, ExportNow(r) PROVE ListsInv'
  BY <1>26, <1>b DEF ExportNow, StartExport, NeverStarts
<1>27. ASSUME NEW r \in Run, Leave(r) PROVE ListsInv'
  BY <1>27, <1>b DEF Leave, StartSave, NeverStarts, AfterMenu
<1>28. ASSUME NEW k \in Effect, PageActs(k) PROVE ListsInv'
  BY <1>28, <1>b DEF PageActs
<1>29. ASSUME Crash PROVE ListsInv'
  BY <1>29, <1>b DEF Crash
<1>30. ASSUME UNCHANGED vars PROVE ListsInv'
  BY <1>30, <1>b DEF vars
<1>31. QED
  BY <1>1, <1>2, <1>3, <1>4, <1>5, <1>6, <1>7, <1>8, <1>9, <1>10, <1>11, <1>12,
     <1>13, <1>14, <1>15, <1>16, <1>17, <1>18, <1>19, <1>20, <1>21, <1>22, <1>23, <1>24,
     <1>25, <1>26, <1>27, <1>28, <1>29, <1>30
     DEF Next, Begin, RunStep, Menu

AllInv == KeptInv /\ ListsInv /\ RecordedInv

\* Nothing is recorded or exported yet.
LEMMA InitAllInv == Init => AllInv
<1> SUFFICES ASSUME Init PROVE AllInv
  OBVIOUS
<1>1. KeptInv
  BY InitKeptInv
<1>2. ListsInv
  BY DEF Init, ListsInv, Lists
<1>3. RecordedInv
  BY DEF Init, RecordedInv, Late
<1>4. QED
  BY <1>1, <1>2, <1>3 DEF AllInv

\* A record command saves all before it exports, and exports all before it ends.
LEMMA NextAllInv == AllInv /\ [Next]_vars => AllInv'
<1> SUFFICES ASSUME AllInv, [Next]_vars PROVE AllInv'
  OBVIOUS
<1>1. KeptInv' /\ ListsInv'
  BY NextKeptInv, NextListsInv DEF AllInv, KeptInv
<1>2. ImportStep /\ LateStep
  BY NextImportStep, NextLateStep DEF AllInv, KeptInv, TypeInv, TornInv
<1>3. ASSUME NEW q \in Run, kind'[q] = "record", ~Imported(q)'
      PROVE  /\ Late(q)' => file'[q] = "whole" /\ saved'[q] = actions'[q]
             /\ pc'[q] \in {"register", "returned"} =>
                  /\ bundle'[q].state = "whole" /\ bundle'[q].file = "whole"
                  /\ bundle'[q].actions = actions'[q]
                  /\ Lists(actions'[q], bundle'[q].shots)
  <2>1. kind[q] = "record" /\ ~Imported(q)
    BY <1>2, <1>3, ImportedStays DEF ImportStep
  <2>2. Late(q) => file[q] = "whole" /\ saved[q] = actions[q]
    BY <2>1 DEF AllInv, RecordedInv
  <2>3. Late(q)' => file'[q] = "whole" /\ saved'[q] = actions'[q]
    BY <1>2, <1>3, <2>1, <2>2 DEF LateStep
  <2>4. ASSUME pc[q] \in {"register", "returned"}, bundle'[q] = bundle[q], actions'[q] = actions[q]
        PROVE  /\ bundle'[q].state = "whole" /\ bundle'[q].file = "whole"
               /\ bundle'[q].actions = actions'[q]
               /\ Lists(actions'[q], bundle'[q].shots)
    BY <2>1, <2>4 DEF AllInv, RecordedInv
  <2>5. ASSUME pc[q] = "exporting", back[q] = "register", actions'[q] = actions[q],
               bundle'[q] = [state |-> "whole", file |-> file[q],
                             actions |-> saved[q], shots |-> shots[q]]
        PROVE  /\ bundle'[q].state = "whole" /\ bundle'[q].file = "whole"
               /\ bundle'[q].actions = actions'[q]
               /\ Lists(actions'[q], bundle'[q].shots)
    <3>1. file[q] = "whole" /\ saved[q] = actions[q]
      BY <2>2, <2>5 DEF Late
    <3>2. Lists(actions[q], shots[q])
      BY DEF AllInv, ListsInv
    <3>3. QED
      BY <2>5, <3>1, <3>2
  <2>6. QED
    BY <1>2, <1>3, <2>1, <2>3, <2>4, <2>5 DEF LateStep
<1>4. RecordedInv'
  BY <1>3 DEF RecordedInv
<1>5. QED
  BY <1>1, <1>4 DEF AllInv

\* Whatever else happens in the directory, a record command that returned leaves
\* every action it recorded in session.json and in the bundle.
THEOREM RecordedKept == Spec => []RecordedIsKept
<1>1. AllInv => RecordedIsKept
  BY DEF AllInv, RecordedInv, RecordedIsKept, Late
<1>2. QED
  BY <1>1, InitAllInv, NextAllInv, PTL DEF Spec

--------------------------------------------------------------------------------
(* A recording follows the page *)

\* The entries of a recording that repeat an effect on the watched page.
Again(s) == {i \in DOMAIN s : s[i].type \in Effect /\ s[i].ref > 0}

\* How a recording s stands to the page p of which n effects were delivered.
\* Only a command of the menu, recorded as it returns, runs ahead of the delivery,
\* and that by one.
Follows(s, p, n) ==
  /\ \A i \in Again(s) :
       s[i].ref <= n + 1 /\ s[i].ref \in 1 .. Len(p) /\ s[i].type = p[s[i].ref]
  /\ \A j, k \in Again(s) : s[k].ref < s[j].ref =>
       \E i \in Again(s) : i < j /\ s[i].ref = s[k].ref
  /\ \A i \in Again(s) : \A b \in s[i].ref .. n : \E j \in Again(s) : s[j].ref = b
  /\ \A i, j \in Again(s) : i < j /\ s[i].ref = s[j].ref =>
       /\ s[i].type # "navigate"
       /\ \A k \in Again(s) : s[k].ref = s[i].ref => k \in {i, j}
  /\ \A i \in Again(s) : s[i].ref = n + 1 =>
       /\ s[i].type # "navigate"
       /\ \A j \in Again(s) : s[j].ref = n + 1 => j = i

\* A recording from the start has all that was delivered.
HasAll(s, n) == \A b \in 1 .. n : \E j \in Again(s) : s[j].ref = b

\* What the menu's call c has done is on the page p, as the first effect after all
\* that is owed; the recording s has it if, and as often as, it was delivered.
Pending(c, s, p, n) ==
  c.type \in Effect /\ c.ref > 0 =>
    /\ c.ref \in 1 .. Len(p) /\ p[c.ref] = c.type /\ c.owed = c.ref - 1
    /\ \A i, j \in Again(s) : s[i].ref = c.ref /\ s[j].ref = c.ref => i = j
    /\ \A i \in Again(s) : s[i].ref = c.ref => c.ref <= n
    /\ c.ref <= n => \E i \in Again(s) : s[i].ref = c.ref

\* An empty recording follows any page.
LEMMA NothingFollows ==
  ASSUME NEW p, NEW n PROVE Follows(<<>>, p, n)
BY DEF Follows, Again

\* A page that grows is followed as before.
LEMMA FollowsLonger ==
  ASSUME NEW s \in Seq(Action), NEW n \in Nat, NEW p \in Seq(Effect), NEW q \in Seq(Effect),
         Len(p) <= Len(q), \A i \in 1 .. Len(p) : q[i] = p[i], Follows(s, p, n)
  PROVE  Follows(s, q, n)
<1>1. Len(p) \in Nat /\ Len(q) \in Nat
  OBVIOUS
<1>2. \A i \in Again(s) : s[i].ref \in 1 .. Len(q) /\ s[i].type = q[s[i].ref]
  BY <1>1 DEF Follows
<1>3. QED
  BY <1>2 DEF Follows

\* The entries of a recording and what they repeat.
LEMMA RepeatsFacts ==
  ASSUME NEW s \in Seq(Action)
  PROVE  \A i \in Again(s) : i \in 1 .. Len(s) /\ s[i] \in Action /\ s[i].ref \in Nat
BY Constants DEF Again, Action

\* What is appended to a recording repeats something or not; the rest stays.
LEMMA RepeatsAppend ==
  ASSUME NEW s \in Seq(Action), NEW a \in Action
  PROVE  LET t == Append(s, a) IN
         /\ \A i \in 1 .. Len(s) : t[i] = s[i] /\ (i \in Again(t) <=> i \in Again(s))
         /\ t[Len(s) + 1] = a
         /\ Len(s) + 1 \in Again(t) <=> a.type \in Effect /\ a.ref > 0
         /\ \A i \in Again(t) : i \in Again(s) \/ i = Len(s) + 1
<1> DEFINE t == Append(s, a)
<1>1. t \in Seq(Action) /\ Len(t) = Len(s) + 1 /\ DOMAIN t = 1 .. Len(s) + 1 /\ Len(s) \in Nat
  OBVIOUS
<1>2. t[Len(s) + 1] = a /\ \A i \in 1 .. Len(s) : t[i] = s[i]
  OBVIOUS
<1> HIDE DEF t
<1>3. \A i \in 1 .. Len(s) : i \in DOMAIN s /\ i \in DOMAIN t
  BY <1>1
<1>4. \A i \in 1 .. Len(s) : i \in Again(t) <=> i \in Again(s)
  BY <1>2, <1>3 DEF Again
<1>5. Len(s) + 1 \in Again(t) <=> a.type \in Effect /\ a.ref > 0
  BY <1>1, <1>2 DEF Again
<1>6. \A i \in Again(t) : i \in 1 .. Len(s) \/ i = Len(s) + 1
  BY <1>1 DEF Again
<1>7. QED
  BY <1>2, <1>4, <1>5, <1>6 DEF t

\* What repeats nothing on the page changes nothing.
LEMMA FollowsOther ==
  ASSUME NEW s \in Seq(Action), NEW p \in Seq(Effect), NEW n \in Nat, NEW a \in Action,
         ~(a.type \in Effect /\ a.ref > 0)
  PROVE  /\ Follows(s, p, n) => Follows(Append(s, a), p, n)
         /\ HasAll(s, n) => HasAll(Append(s, a), n)
<1> DEFINE t == Append(s, a)
<1>1. Again(t) = Again(s)
  <2>1. Len(s) + 1 \notin Again(t)
    BY RepeatsAppend
  <2>2. \A i \in Again(t) : i \in Again(s)
    BY <2>1, RepeatsAppend
  <2>3. \A i \in Again(s) : i \in Again(t)
    BY RepeatsAppend, RepeatsFacts
  <2> HIDE DEF t
  <2>4. QED
    BY <2>2, <2>3
<1>2. \A i \in Again(s) : t[i] = s[i]
  BY RepeatsAppend, RepeatsFacts
<1> HIDE DEF t
<1>3. ASSUME Follows(s, p, n) PROVE Follows(t, p, n)
  <2>1. \A i \in Again(t) :
          t[i].ref <= n + 1 /\ t[i].ref \in 1 .. Len(p) /\ t[i].type = p[t[i].ref]
    BY <1>1, <1>2, <1>3 DEF Follows
  <2>2. \A j, k \in Again(t) : t[k].ref < t[j].ref =>
          \E i \in Again(t) : i < j /\ t[i].ref = t[k].ref
    <3> SUFFICES ASSUME NEW j \in Again(s), NEW k \in Again(s), s[k].ref < s[j].ref
                 PROVE  \E i \in Again(s) : i < j /\ t[i].ref = s[k].ref
      BY <1>1, <1>2
    <3>1. \A x, y \in Again(s) : s[y].ref < s[x].ref =>
            \E i \in Again(s) : i < x /\ s[i].ref = s[y].ref
      BY <1>3 DEF Follows
    <3>2. PICK i \in Again(s) : i < j /\ s[i].ref = s[k].ref
      BY <3>1
    <3>3. QED
      BY <1>2, <3>2
  <2>3. \A i \in Again(t) : \A b \in t[i].ref .. n : \E j \in Again(t) : t[j].ref = b
    <3> SUFFICES ASSUME NEW i \in Again(s), NEW b \in s[i].ref .. n
                 PROVE  \E j \in Again(s) : t[j].ref = b
      BY <1>1, <1>2
    <3>1. PICK j \in Again(s) : s[j].ref = b
      BY <1>3, Zenon DEF Follows
    <3>2. QED
      BY <1>2, <3>1
  <2>4. \A i, j \in Again(t) : i < j /\ t[i].ref = t[j].ref =>
          /\ t[i].type # "navigate"
          /\ \A k \in Again(t) : t[k].ref = t[i].ref => k \in {i, j}
    BY <1>1, <1>2, <1>3, Zenon DEF Follows
  <2>5. \A i \in Again(t) : t[i].ref = n + 1 =>
          /\ t[i].type # "navigate"
          /\ \A j \in Again(t) : t[j].ref = n + 1 => j = i
    BY <1>1, <1>2, <1>3, Zenon DEF Follows
  <2>6. QED
    BY <2>1, <2>2, <2>3, <2>4, <2>5 DEF Follows
<1>4. HasAll(s, n) => HasAll(t, n)
  BY <1>1, <1>2 DEF HasAll
<1>5. QED
  BY <1>3, <1>4 DEF t

\* The recording with one more effect: where the entries are.
LEMMA OneMore ==
  ASSUME NEW s \in Seq(Action), NEW a \in Action, a.type \in Effect, a.ref > 0
  PROVE  LET t == Append(s, a)
             l == Len(s) + 1
         IN  /\ l \in Nat /\ l \in Again(t) /\ t[l] = a /\ a.ref \in Nat
             /\ \A i \in Again(s) : i < l /\ i \in Again(t) /\ t[i] = s[i] /\ s[i].ref \in Nat /\ i \in Nat
             /\ \A i \in Again(t) : i \in Again(s) \/ i = l
<1>1. \A i \in Again(s) : i \in 1 .. Len(s) /\ s[i].ref \in Nat
  BY RepeatsFacts
<1>2. a.ref \in Nat
  BY Constants DEF Action
<1>3. QED
  BY <1>1, <1>2, RepeatsAppend

\* The next effect, recorded by the listener that is told of it.
LEMMA FollowsListen ==
  ASSUME NEW s \in Seq(Action), NEW p \in Seq(Effect), NEW n \in Nat, Follows(s, p, n),
         n + 1 \in 1 .. Len(p), NEW a \in Action, a.ref = n + 1, a.type = p[n + 1]
  PROVE  /\ Follows(Append(s, a), p, n + 1)
         /\ HasAll(s, n) => HasAll(Append(s, a), n + 1)
<1> DEFINE t == Append(s, a)
<1> DEFINE l == Len(s) + 1
<1>1. /\ l \in Nat /\ l \in Again(t) /\ t[l] = a /\ a.ref \in Nat
      /\ \A i \in Again(s) : i < l /\ i \in Again(t) /\ t[i] = s[i] /\ s[i].ref \in Nat /\ i \in Nat
      /\ \A i \in Again(t) : i \in Again(s) \/ i = l
  <2>1. a.type \in Effect /\ a.ref > 0
    OBVIOUS
  <2>2. QED
    BY <2>1, OneMore
<1> HIDE DEF t, l
<1>2. \A i \in Again(s) : s[i].ref <= n + 1
  BY DEF Follows
<1>3. \A i \in Again(t) :
        t[i].ref <= n + 1 /\ t[i].ref \in 1 .. Len(p) /\ t[i].type = p[t[i].ref]
  BY <1>1 DEF Follows
<1>4. \A j, k \in Again(t) : t[k].ref < t[j].ref =>
        \E i \in Again(t) : i < j /\ t[i].ref = t[k].ref
  <2> SUFFICES ASSUME NEW j \in Again(t), NEW k \in Again(t), t[k].ref < t[j].ref
               PROVE  \E i \in Again(t) : i < j /\ t[i].ref = t[k].ref
    OBVIOUS
  <2>1. k \in Again(s)
    <3>1. t[j].ref <= n + 1 /\ t[j].ref \in Nat
      BY <1>3
    <3>2. k # l
      BY <1>1, <3>1
    <3>3. QED
      BY <1>1, <3>2
  <2>2. CASE j \in Again(s)
    <3>1. PICK i \in Again(s) : i < j /\ s[i].ref = s[k].ref
      BY <1>1, <2>1, <2>2 DEF Follows
    <3>2. QED
      BY <1>1, <2>1, <3>1
  <2>3. CASE j = l
    BY <1>1, <2>1, <2>3
  <2>4. QED
    BY <1>1, <2>2, <2>3
<1>5. \A i \in Again(t) : \A b \in t[i].ref .. n + 1 : \E j \in Again(t) : t[j].ref = b
  <2> SUFFICES ASSUME NEW i \in Again(t), NEW b \in t[i].ref .. n + 1
               PROVE  \E j \in Again(t) : t[j].ref = b
    OBVIOUS
  <2>1. CASE b = n + 1
    BY <1>1, <2>1
  <2>2. CASE b # n + 1
    <3>0. t[i].ref \in Nat
      BY <1>3
    <3>1. i \in Again(s) /\ b \in s[i].ref .. n
      <4>1. i # l
        BY <1>1, <2>2
      <4>2. i \in Again(s) /\ t[i] = s[i]
        BY <1>1, <4>1
      <4>3. b \in t[i].ref .. n
        BY <2>2, <3>0
      <4>4. QED
        BY <4>2, <4>3
    <3>2. PICK j \in Again(s) : s[j].ref = b
      BY <3>1 DEF Follows
    <3>3. QED
      BY <1>1, <3>2
  <2>3. QED
    BY <2>1, <2>2
<1>6. \A i, j \in Again(t) : i < j /\ t[i].ref = t[j].ref =>
        /\ t[i].type # "navigate"
        /\ \A k \in Again(t) : t[k].ref = t[i].ref => k \in {i, j}
  <2> SUFFICES ASSUME NEW i \in Again(t), NEW j \in Again(t), i < j, t[i].ref = t[j].ref
               PROVE  /\ t[i].type # "navigate"
                      /\ \A k \in Again(t) : t[k].ref = t[i].ref => k \in {i, j}
    OBVIOUS
  <2>0. i \in Nat /\ j \in Nat /\ j <= l
    <3>1. \A x \in Again(s) : x \in Nat /\ x < l
      BY <1>1
    <3>2. \A x \in Again(t) : x \in Nat /\ x <= l
      BY <1>1, <3>1
    <3>3. QED
      BY <3>2
  <2>1. i \in Again(s) /\ t[i] = s[i]
    <3>1. i # l
      BY <1>1, <2>0
    <3>2. QED
      BY <1>1, <3>1
  <2>2. CASE j \in Again(s)
    <3>1. t[j] = s[j] /\ s[i].ref = s[j].ref /\ i # j
      <4>1. t[j] = s[j]
        BY <1>1, <2>2
      <4>2. QED
        BY <2>0, <2>1, <4>1
    <3>2. s[i].ref # n + 1
      BY <2>1, <2>2, <3>1 DEF Follows
    <3>3. /\ s[i].type # "navigate"
          /\ \A k \in Again(s) : s[k].ref = s[i].ref => k \in {i, j}
      BY <2>1, <2>2, <3>1 DEF Follows
    <3>4. QED
      BY <1>1, <2>1, <3>2, <3>3
  <2>3. CASE j = l
    <3>1. s[i].ref = n + 1
      BY <1>1, <2>1, <2>3
    <3>2. s[i].type # "navigate" /\ \A k \in Again(s) : s[k].ref = n + 1 => k = i
      BY <2>1, <3>1 DEF Follows
    <3>3. QED
      BY <1>1, <2>1, <2>3, <3>1, <3>2
  <2>4. QED
    BY <1>1, <2>2, <2>3
<1>7. \A i \in Again(t) : t[i].ref # (n + 1) + 1
  BY <1>1, <1>3
<1>8. Follows(t, p, n + 1)
  BY <1>1, <1>3, <1>4, <1>5, <1>6, <1>7 DEF Follows
<1>9. ASSUME HasAll(s, n) PROVE HasAll(t, n + 1)
  <2>1. ASSUME NEW b \in 1 .. n + 1 PROVE \E j \in Again(t) : t[j].ref = b
    <3>1. CASE b = n + 1
      BY <1>1, <3>1
    <3>2. CASE b # n + 1
      <4>1. b \in 1 .. n
        BY <3>2
      <4>2. PICK j \in Again(s) : s[j].ref = b
        BY <1>9, <4>1 DEF HasAll
      <4>3. QED
        BY <1>1, <4>2
    <3>3. QED
      BY <3>1, <3>2
  <2>2. QED
    BY <2>1 DEF HasAll
<1>10. QED
  BY <1>8, <1>9 DEF t

\* What the menu records as its call returns: an effect of the page that has been
\* delivered and recorded once, or is the next to be.
LEMMA FollowsEnd ==
  ASSUME NEW s \in Seq(Action), NEW p \in Seq(Effect), NEW n \in Nat, Follows(s, p, n),
         NEW a \in Action, a.ref <= n + 1, a.ref \in 1 .. Len(p), a.type = p[a.ref],
         a.type # "navigate",
         \A i, j \in Again(s) : s[i].ref = a.ref /\ s[j].ref = a.ref => i = j,
         a.ref = n + 1 => \A i \in Again(s) : s[i].ref # a.ref,
         a.ref <= n => \E i \in Again(s) : s[i].ref = a.ref
  PROVE  /\ Follows(Append(s, a), p, n)
         /\ HasAll(s, n) => HasAll(Append(s, a), n)
<1> DEFINE t == Append(s, a)
<1> DEFINE l == Len(s) + 1
<1>1. /\ l \in Nat /\ l \in Again(t) /\ t[l] = a /\ a.ref \in Nat
      /\ \A i \in Again(s) : i < l /\ i \in Again(t) /\ t[i] = s[i] /\ s[i].ref \in Nat /\ i \in Nat
      /\ \A i \in Again(t) : i \in Again(s) \/ i = l
  <2>1. a.type \in Effect /\ a.ref > 0
    OBVIOUS
  <2>2. QED
    BY <2>1, OneMore
<1> HIDE DEF t, l
<1>2. \A i \in Again(s) : s[i].ref <= n + 1
  BY DEF Follows
<1>3. \A i \in Again(t) :
        t[i].ref <= n + 1 /\ t[i].ref \in 1 .. Len(p) /\ t[i].type = p[t[i].ref]
  BY <1>1 DEF Follows
<1>4. \A j, k \in Again(t) : t[k].ref < t[j].ref =>
        \E i \in Again(t) : i < j /\ t[i].ref = t[k].ref
  <2> SUFFICES ASSUME NEW j \in Again(t), NEW k \in Again(t), t[k].ref < t[j].ref
               PROVE  \E i \in Again(t) : i < j /\ t[i].ref = t[k].ref
    OBVIOUS
  <2>1. CASE j \in Again(s)
    <3>1. PICK m \in Again(s) : s[m].ref = t[k].ref
      <4>1. CASE k \in Again(s)
        BY <1>1, <4>1
      <4>2. CASE k = l
        BY <1>1, <1>2, <2>1, <4>2
      <4>3. QED
        BY <1>1, <4>1, <4>2
    <3>2. PICK i \in Again(s) : i < j /\ s[i].ref = s[m].ref
      BY <1>1, <2>1, <3>1 DEF Follows
    <3>3. QED
      BY <1>1, <3>1, <3>2
  <2>2. CASE j = l
    BY <1>1, <2>2
  <2>3. QED
    BY <1>1, <2>1, <2>2
<1>5. \A i \in Again(t) : \A b \in t[i].ref .. n : \E j \in Again(t) : t[j].ref = b
  <2> SUFFICES ASSUME NEW i \in Again(t), NEW b \in t[i].ref .. n
               PROVE  \E j \in Again(t) : t[j].ref = b
    OBVIOUS
  <2>1. PICK m \in Again(s) : s[m].ref = t[i].ref
    BY <1>1
  <2>2. PICK j \in Again(s) : s[j].ref = b
    BY <2>1 DEF Follows
  <2>3. QED
    BY <1>1, <2>2
<1>6. \A i, j \in Again(t) : i < j /\ t[i].ref = t[j].ref =>
       /\ t[i].type # "navigate"
       /\ \A k \in Again(t) : t[k].ref = t[i].ref => k \in {i, j}
  <2> SUFFICES ASSUME NEW i \in Again(t), NEW j \in Again(t), i < j, t[i].ref = t[j].ref
               PROVE  /\ t[i].type # "navigate"
                      /\ \A k \in Again(t) : t[k].ref = t[i].ref => k \in {i, j}
    OBVIOUS
  <2>0. i \in Nat /\ j \in Nat /\ j <= l
    <3>1. \A x \in Again(s) : x \in Nat /\ x < l
      BY <1>1
    <3>2. \A x \in Again(t) : x \in Nat /\ x <= l
      BY <1>1, <3>1
    <3>3. QED
      BY <3>2
  <2>1. i \in Again(s) /\ t[i] = s[i]
    <3>1. i # l
      BY <1>1, <2>0
    <3>2. QED
      BY <1>1, <3>1
  <2>2. CASE j \in Again(s)
    <3>1. t[i] = s[i] /\ t[j] = s[j] /\ s[i].ref = s[j].ref /\ i # j
      <4>1. t[j] = s[j]
        BY <1>1, <2>2
      <4>2. QED
        BY <2>0, <2>1, <4>1
    <3>2. s[i].ref # a.ref
      BY <2>1, <2>2, <3>1
    <3>3. /\ s[i].type # "navigate"
          /\ \A k \in Again(s) : s[k].ref = s[i].ref => k \in {i, j}
      BY <2>1, <2>2, <3>1 DEF Follows
    <3>4. QED
      BY <1>1, <3>1, <3>2, <3>3
  <2>3. CASE j = l
    <3>1. s[i].ref = a.ref /\ t[i] = s[i]
      BY <1>1, <2>1, <2>3
    <3>2. s[i].type = p[s[i].ref]
      BY <2>1 DEF Follows
    <3>3. QED
      BY <1>1, <2>1, <2>3, <3>1, <3>2
  <2>4. QED
    BY <1>1, <2>2, <2>3
<1>7. \A i \in Again(t) : t[i].ref = n + 1 =>
       /\ t[i].type # "navigate"
       /\ \A j \in Again(t) : t[j].ref = n + 1 => j = i
  <2> SUFFICES ASSUME NEW i \in Again(t), t[i].ref = n + 1
               PROVE  /\ t[i].type # "navigate"
                      /\ \A j \in Again(t) : t[j].ref = n + 1 => j = i
    OBVIOUS
  <2>1. CASE a.ref = n + 1
    <3>1. \A j \in Again(t) : t[j].ref = n + 1 => j = l
      BY <1>1, <2>1
    <3>2. QED
      BY <1>1, <3>1
  <2>2. CASE a.ref # n + 1
    <3>1. i \in Again(s) /\ s[i].ref = n + 1 /\ t[i] = s[i]
      BY <1>1, <2>2
    <3>2. s[i].type # "navigate" /\ \A j \in Again(s) : s[j].ref = n + 1 => j = i
      BY <3>1 DEF Follows
    <3>3. QED
      BY <1>1, <2>2, <3>1, <3>2
  <2>3. QED
    BY <2>1, <2>2
<1>8. Follows(t, p, n)
  BY <1>3, <1>4, <1>5, <1>6, <1>7 DEF Follows
<1>9. ASSUME HasAll(s, n) PROVE HasAll(t, n)
  <2>1. ASSUME NEW b \in 1 .. n PROVE \E j \in Again(t) : t[j].ref = b
    <3>1. PICK j \in Again(s) : s[j].ref = b
      BY <1>9 DEF HasAll
    <3>2. j \in Again(t) /\ t[j] = s[j]
      BY <1>1
    <3>3. QED
      BY <3>1, <3>2
  <2>2. QED
    BY <2>1 DEF HasAll
<1>10. QED
  BY <1>8, <1>9 DEF t

\* What the call has done stays on a page that grows.
LEMMA PendingStays ==
  ASSUME NEW c \in Called, NEW s \in Seq(Action), NEW p \in Seq(Effect), NEW q \in Seq(Effect),
         NEW n \in Nat, Len(p) <= Len(q), \A i \in 1 .. Len(p) : q[i] = p[i], Pending(c, s, p, n)
  PROVE  Pending(c, s, q, n)
BY DEF Pending

\* When the listeners are told of one more effect, it may be the one of the call.
LEMMA PendingListen ==
  ASSUME NEW c \in Called, NEW s \in Seq(Action), NEW p \in Seq(Effect), NEW n \in Nat,
         Pending(c, s, p, n), Follows(s, p, n),
         NEW a \in Action, a.ref = n + 1, a.type \in Effect
  PROVE  Pending(c, Append(s, a), p, n + 1)
<1> SUFFICES ASSUME c.type \in Effect, c.ref > 0
             PROVE  Pending(c, Append(s, a), p, n + 1)
  BY DEF Pending
<1> DEFINE t == Append(s, a)
<1> DEFINE l == Len(s) + 1
<1>1. /\ l \in Nat /\ l \in Again(t) /\ t[l] = a /\ a.ref \in Nat
      /\ \A i \in Again(s) : i < l /\ i \in Again(t) /\ t[i] = s[i] /\ s[i].ref \in Nat /\ i \in Nat
      /\ \A i \in Again(t) : i \in Again(s) \/ i = l
  <2>1. a.ref > 0
    OBVIOUS
  <2>2. QED
    BY <2>1, OneMore
<1> HIDE DEF t, l
<1>2. /\ c.ref \in 1 .. Len(p) /\ p[c.ref] = c.type /\ c.owed = c.ref - 1 /\ c.ref \in Nat
      /\ \A i, j \in Again(s) : s[i].ref = c.ref /\ s[j].ref = c.ref => i = j
      /\ \A i \in Again(s) : s[i].ref = c.ref => c.ref <= n
      /\ c.ref <= n => \E i \in Again(s) : s[i].ref = c.ref
  BY DEF Pending
<1>3. \A i, j \in Again(t) : t[i].ref = c.ref /\ t[j].ref = c.ref => i = j
  BY <1>1, <1>2
<1>4. \A i \in Again(t) : t[i].ref = c.ref => c.ref <= n + 1
  BY <1>1, <1>2
<1>5. c.ref <= n + 1 => \E i \in Again(t) : t[i].ref = c.ref
  <2>1. CASE c.ref = n + 1
    BY <1>1, <2>1
  <2>2. CASE c.ref <= n
    BY <1>1, <1>2, <2>2
  <2>3. QED
    BY <1>2, <2>1, <2>2
<1>6. Pending(c, t, p, n + 1)
  BY <1>2, <1>3, <1>4, <1>5 DEF Pending
<1>7. QED
  BY <1>6 DEF t

\* Nothing is recorded before a run begins; a recording follows the page, and one
\* of a record command has all that its listeners were told; what the menu's call
\* has done it does not have yet, but for what they were told.
FollowInv ==
  \A r \in Run :
    /\ pc[r] = "idle" => actions[r] = <<>> /\ seen[r] = 0
    /\ r \in recorder => Follows(actions[r], page, seen[r])
    /\ kind[r] = "record" => HasAll(actions[r], seen[r])
    /\ pc[r] = "call" /\ r \in recorder => Pending(call[r], actions[r], page, seen[r])

PageGrows ==
  /\ page \in Seq(Effect) /\ page' \in Seq(Effect) /\ Len(page) <= Len(page')
  /\ \A i \in 1 .. Len(page) : page'[i] = page[i]

\* A page grows at its end.
LEMMA PageLonger ==
  ASSUME page \in Seq(Effect), NEW k \in Effect, NEW n \in Nat,
         page' = page \/ page' = PageAfter(k, n) \/ page' = Append(page, k)
  PROVE  PageGrows
<1>1. PageAfter(k, n) \in Seq(Effect) /\ Len(PageAfter(k, n)) >= Len(page)
  BY PageTypes
<1>2. Times(n, k) \in Seq(Effect)
  BY DEF Times
<1>3. \A i \in 1 .. Len(page) : PageAfter(k, n)[i] = page[i]
  BY <1>2 DEF PageAfter
<1>4. CASE page' = PageAfter(k, n)
  BY <1>1, <1>3, <1>4 DEF PageGrows
<1>5. CASE page' = page
  BY <1>5 DEF PageGrows
<1>6. CASE page' = Append(page, k)
  BY <1>6 DEF PageGrows
<1>7. QED
  BY <1>4, <1>5, <1>6

\* A recording that is left as it is follows the page when that grows.
LEMMA FollowsStill ==
  ASSUME TypeOK, PageGrows, NEW q \in Run, actions'[q] = actions[q], seen'[q] = seen[q]
  PROVE  /\ Follows(actions[q], page, seen[q]) => Follows(actions'[q], page', seen'[q])
         /\ call'[q] = call[q] /\ Pending(call[q], actions[q], page, seen[q]) =>
              Pending(call'[q], actions'[q], page', seen'[q])
<1>1. actions[q] \in Seq(Action) /\ seen[q] \in Nat /\ call[q] \in Called
  BY DEF TypeOK
<1>2. PICK o \in Seq(Effect), p \in Seq(Effect) : o = page /\ p = page'
  BY DEF PageGrows
<1>3. Len(o) <= Len(p) /\ \A i \in 1 .. Len(o) : p[i] = o[i]
  BY <1>2 DEF PageGrows
<1>4. Follows(actions[q], o, seen[q]) => Follows(actions[q], p, seen[q])
  BY <1>1, <1>3, FollowsLonger
<1>5. Pending(call[q], actions[q], o, seen[q]) => Pending(call[q], actions[q], p, seen[q])
  BY <1>1, <1>3, PendingStays
<1>6. QED
  BY <1>2, <1>4, <1>5

\* After a save or an export a run goes on.
GoesOn == \A r \in Run : pc[r] \in {"saving", "exporting"} => back[r] # "idle"

\* A run that has begun does not become idle again, and only begins a call by
\* BeginCall.
LEMMA NextGoesOn ==
  TypeInv /\ GoesOn /\ [Next]_vars =>
    /\ GoesOn'
    /\ \A r \in Run : pc'[r] = "idle" => pc[r] = "idle"
    /\ \A r \in Run : pc'[r] = "call" => pc[r] = "call" \/ BeginCall(r)
<1> SUFFICES ASSUME TypeInv, GoesOn, [Next]_vars
             PROVE  /\ GoesOn'
                    /\ \A r \in Run : pc'[r] = "idle" => pc[r] = "idle"
                    /\ \A r \in Run : pc'[r] = "call" => pc[r] = "call" \/ BeginCall(r)
  OBVIOUS
<1>0. pc \in [Run -> PC] /\ back \in [Run -> Resume]
  BY DEF TypeInv, TypeOK
<1> DEFINE Fine ==
      /\ GoesOn'
      /\ \A r \in Run : pc'[r] = "idle" => pc[r] = "idle"
      /\ \A r \in Run : pc'[r] = "call" => pc[r] = "call" \/ BeginCall(r)
<1> USE <1>0 DEF GoesOn, Resume, jobVars, threadVars, recordVars, diskVars, Goto, Raise, GoBack, MayWatch
<1>1. ASSUME NEW r \in Run, BeginRecord(r) PROVE Fine
  BY <1>1 DEF BeginRecord
<1>2. ASSUME NEW r \in Run, BeginBrowser(r) PROVE Fine
  BY <1>2 DEF BeginBrowser
<1>3. ASSUME NEW r \in Run, BeginReplay(r) PROVE Fine
  BY <1>3 DEF BeginReplay
<1>4. ASSUME NEW r \in Run, BeginImport(r) PROVE Fine
  BY <1>4 DEF BeginImport
<1>5. ASSUME NEW r \in Run, Extract(r) PROVE Fine
  BY <1>5 DEF Extract
<1>6. ASSUME NEW r \in Run, Attach(r) PROVE Fine
  BY <1>6 DEF Attach
<1>7. ASSUME NEW r \in Run, Navigate(r) PROVE Fine
  BY <1>7 DEF Navigate
<1>8. ASSUME NEW r \in Run, Shoot(r) PROVE Fine
  BY <1>8 DEF Shoot
<1>9. ASSUME NEW r \in Run, ShootOnce(r) PROVE Fine
  BY <1>9 DEF ShootOnce
<1>10. ASSUME NEW r \in Run, ShootFails(r) PROVE Fine
  BY <1>10 DEF ShootFails
<1>11. ASSUME NEW r \in Run, TimeIsUp(r) PROVE Fine
  BY <1>11 DEF TimeIsUp
<1>12. ASSUME NEW r \in Run, Save(r) PROVE Fine
  BY <1>12 DEF Save, StartSave, NeverStarts
<1>13. ASSUME NEW r \in Run, FinishSave(r) PROVE Fine
  BY <1>13 DEF FinishSave, Fails, Resume
<1>14. ASSUME NEW r \in Run, Export(r) PROVE Fine
  BY <1>14 DEF Export, StartExport, NeverStarts
<1>15. ASSUME NEW r \in Run, FinishExport(r) PROVE Fine
  BY <1>15 DEF FinishExport, Fails, Resume
<1>16. ASSUME NEW r \in Run, Register(r) PROVE Fine
  BY <1>16 DEF Register
<1>17. ASSUME NEW r \in Run, Play(r) PROVE Fine
  BY <1>17 DEF Play
<1>18. ASSUME NEW r \in Run, Played(r) PROVE Fine
  BY <1>18 DEF Played
<1>19. ASSUME NEW r \in Run, Watch(r) PROVE Fine
  BY <1>19 DEF Watch
<1>20. ASSUME NEW r \in Run, BeginCall(r) PROVE Fine
  <2>1. pc' = [pc EXCEPT ![r] = "call"] /\ back' = back
    BY <1>20 DEF BeginCall
  <2>2. QED
    BY <1>20, <2>1
<1>21. ASSUME NEW r \in Run, CallActs(r) PROVE Fine
  BY <1>21 DEF CallActs
<1>22. ASSUME NEW r \in Run, Listen(r) PROVE Fine
  BY <1>22 DEF Listen
<1>23. ASSUME NEW r \in Run, EndCall(r) PROVE Fine
  BY <1>23 DEF EndCall, RecordCall
<1>24. ASSUME NEW r \in Run, RecordOn(r) PROVE Fine
  BY <1>24 DEF RecordOn
<1>25. ASSUME NEW r \in Run, SaveNow(r) PROVE Fine
  BY <1>25 DEF SaveNow, StartSave, NeverStarts
<1>26. ASSUME NEW r \in Run, ExportNow(r) PROVE Fine
  BY <1>26 DEF ExportNow, StartExport, NeverStarts
<1>27. ASSUME NEW r \in Run, Leave(r) PROVE Fine
  BY <1>27 DEF Leave, StartSave, NeverStarts, AfterMenu
<1>28. ASSUME NEW k \in Effect, PageActs(k) PROVE Fine
  BY <1>28 DEF PageActs
<1>29. ASSUME Crash PROVE Fine
  BY <1>29 DEF Crash
<1>30. ASSUME UNCHANGED vars PROVE Fine
  BY <1>30 DEF vars
<1>31. QED
  BY <1>1, <1>2, <1>3, <1>4, <1>5, <1>6, <1>7, <1>8, <1>9, <1>10, <1>11, <1>12,
     <1>13, <1>14, <1>15, <1>16, <1>17, <1>18, <1>19, <1>20, <1>21, <1>22, <1>23, <1>24,
     <1>25, <1>26, <1>27, <1>28, <1>29, <1>30
     DEF Next, Begin, RunStep, Menu

\* Every step leaves each recording behind the page.
LEMMA NextFollowInv == TypeInv /\ Recorders /\ GoesOn /\ FollowInv /\ [Next]_vars => FollowInv'
<1> SUFFICES ASSUME TypeInv, Recorders, GoesOn, FollowInv, [Next]_vars PROVE FollowInv'
  OBVIOUS
<1>0. /\ actions \in [Run -> Seq(Action)] /\ seen \in [Run -> Nat] /\ page \in Seq(Effect)
      /\ pc \in [Run -> PC] /\ Len(page) \in Nat
      /\ \A r \in Run : seen[r] <= Len(page)
  BY DEF TypeInv, TypeOK
<1>a. TypeOK
  BY DEF TypeInv
<1>g. /\ \A q \in Run : pc'[q] = "idle" => pc[q] = "idle"
      /\ \A q \in Run : pc'[q] = "call" => pc[q] = "call" \/ BeginCall(q)
  BY NextGoesOn
<1> DEFINE Fine(q) ==
      /\ pc'[q] = "idle" => actions'[q] = <<>> /\ seen'[q] = 0
      /\ q \in recorder' => Follows(actions'[q], page', seen'[q])
      /\ kind'[q] = "record" => HasAll(actions'[q], seen'[q])
      /\ pc'[q] = "call" /\ q \in recorder' => Pending(call'[q], actions'[q], page', seen'[q])
<1>h. ASSUME NEW q \in Run, pc'[q] = "call"
      PROVE  pc[q] = "call" \/ (BeginCall(q) /\ Pending(call'[q], actions'[q], page', seen'[q]))
  <2>1. ASSUME BeginCall(q) PROVE call'[q].type \in Effect => call'[q].ref = 0
    <3>1. PICK c \in ((Effect \cup {"info"}) \X {0}) \cup ({"screenshot"} \X Name) :
            call' = [call EXCEPT ![q] = [type |-> c[1], ref |-> c[2], owed |-> Len(page)]]
      BY <2>1 DEF BeginCall
    <3>2. call'[q].type = c[1] /\ call'[q].ref = c[2]
      BY <1>a, <3>1 DEF TypeOK
    <3>3. QED
      BY <3>2, Constants
  <2>2. QED
    BY <1>h, <1>g, <2>1 DEF Pending
<1>q. ASSUME NEW q \in Run, PageGrows, kind' = kind, q \in recorder' => q \in recorder,
             actions'[q] = actions[q], seen'[q] = seen[q], call'[q] = call[q] \/ BeginCall(q)
      PROVE  Fine(q)
  <2>1. q \in recorder' => Follows(actions'[q], page', seen'[q])
    BY <1>a, <1>q, FollowsStill DEF FollowInv
  <2>2. ASSUME pc'[q] = "call", q \in recorder'
        PROVE  Pending(call'[q], actions'[q], page', seen'[q])
    <3>1. CASE pc[q] = "call"
      <4>1. call'[q] = call[q]
        BY <1>q, <3>1 DEF BeginCall
      <4>2. Pending(call[q], actions[q], page, seen[q])
        BY <1>q, <2>2, <3>1 DEF FollowInv
      <4>3. QED
        BY <1>a, <1>q, <4>1, <4>2, FollowsStill
    <3>2. QED
      BY <1>h, <2>2, <3>1
  <2>3. QED
    BY <1>q, <1>g, <2>1, <2>2 DEF FollowInv
<1>b. ASSUME PageGrows, kind' = kind, recorder' = recorder, actions' = actions, seen' = seen,
             call' = call
      PROVE  FollowInv'
  <2>1. \A q \in Run : Fine(q)
    BY <1>b, <1>q
  <2>2. QED
    BY <2>1 DEF FollowInv
<1>c. page' = page => PageGrows
  BY <1>0 DEF PageGrows
<1>d. ASSUME NEW r \in Run, NEW a \in Action, ~(a.type \in Effect /\ a.ref > 0),
             Record(r, a), PageGrows, kind' = kind, recorder' = recorder, seen' = seen,
             pc[r] # "idle", pc'[r] # "call", \A q \in Run : q # r => call'[q] = call[q]
      PROVE  FollowInv'
  <2>1. /\ actions'[r] = Append(actions[r], a)
        /\ \A q \in Run : q # r => actions'[q] = actions[q]
    BY <1>0, <1>d DEF Record
  <2>2. ASSUME NEW q \in Run, q # r PROVE Fine(q)
    BY <1>d, <1>q, <2>1, <2>2
  <2>3. PICK s \in Seq(Action), n \in Nat : s = actions[r] /\ n = seen[r]
    BY <1>0
  <2>4. PICK o \in Seq(Effect), p \in Seq(Effect) : o = page /\ p = page'
    BY <1>d DEF PageGrows
  <2>5. Len(o) <= Len(p) /\ \A i \in 1 .. Len(o) : p[i] = o[i]
    BY <1>d, <2>4 DEF PageGrows
  <2>6. r \in recorder => Follows(s, o, n)
    BY <2>3, <2>4 DEF FollowInv
  <2>7. r \in recorder => Follows(s, p, n)
    BY <2>5, <2>6, FollowsLonger
  <2>8. r \in recorder => Follows(Append(s, a), p, n)
    BY <1>d, <2>7, FollowsOther
  <2>9. kind[r] = "record" => HasAll(Append(s, a), n)
    BY <1>d, <2>3, FollowsOther DEF FollowInv
  <2>10. Fine(r)
    BY <1>d, <1>g, <2>1, <2>3, <2>4, <2>8, <2>9
  <2>11. QED
    BY <2>2, <2>10 DEF FollowInv
<1>e. ASSUME NEW r \in Run, actions' = [actions EXCEPT ![r] = <<>>] \/ actions' = actions,
             actions'[r] = <<>>, recorder' = recorder \cup {r},
             kind[r] = "record" => seen[r] = 0, pc'[r] \notin {"idle", "call"},
             kind' = kind, page' = page, seen' = seen, call' = call
      PROVE  FollowInv'
  <2>1. \A q \in Run : q # r => actions'[q] = actions[q]
    BY <1>0, <1>e
  <2>2. ASSUME NEW q \in Run, q # r PROVE Fine(q)
    BY <1>c, <1>e, <1>q, <2>1, <2>2
  <2>3. Follows(actions'[r], page', seen'[r])
    BY <1>e, NothingFollows
  <2>4. kind'[r] = "record" => HasAll(actions'[r], seen'[r])
    BY <1>0, <1>e DEF HasAll
  <2>5. Fine(r)
    BY <1>e, <2>3, <2>4
  <2>6. QED
    BY <2>2, <2>5 DEF FollowInv
<1> HIDE DEF Fine
<1> USE DEF jobVars, threadVars, recordVars, diskVars, Goto, Raise, GoBack, MayWatch
<1>1. ASSUME NEW r \in Run, BeginRecord(r) PROVE FollowInv'
  <2>1. /\ actions' = actions /\ recorder' = recorder \cup {r} /\ page' = page /\ seen' = seen
        /\ call' = call
        /\ kind' = kind /\ pc' = [pc EXCEPT ![r] = "attach"] /\ pc[r] = "idle"
    BY <1>1 DEF BeginRecord
  <2>2. actions[r] = <<>> /\ seen[r] = 0
    BY <2>1 DEF FollowInv
  <2>3. kind' = kind /\ pc'[r] \notin {"idle", "call"}
    BY <1>0, <2>1
  <2>4. QED
    BY <1>e, <2>1, <2>2, <2>3
<1>2. ASSUME NEW r \in Run, BeginBrowser(r) PROVE FollowInv'
  BY <1>0, <1>2, <1>b, <1>c DEF BeginBrowser
<1>3. ASSUME NEW r \in Run, BeginReplay(r) PROVE FollowInv'
  BY <1>0, <1>3, <1>b, <1>c DEF BeginReplay
<1>4. ASSUME NEW r \in Run, BeginImport(r) PROVE FollowInv'
  BY <1>0, <1>4, <1>b, <1>c DEF BeginImport
<1>5. ASSUME NEW r \in Run, Extract(r) PROVE FollowInv'
  <2>1. kind' = kind
    BY <1>0, <1>5, SMTT(30) DEF Extract
  <2>2. QED
    BY <2>1, <1>5, <1>b, <1>c DEF Extract
<1>6. ASSUME NEW r \in Run, Attach(r) PROVE FollowInv'
  BY <1>0, <1>6, <1>b, <1>c DEF Attach
<1>7. ASSUME NEW r \in Run, Navigate(r) PROVE FollowInv'
  <2>1. page' = page \/ page' = PageAfter("navigate", 1)
    BY <1>7 DEF Navigate
  <2>2. PageGrows
    BY <1>0, <2>1, Constants, PageLonger
  <2> DEFINE a == [type |-> "navigate", ref |-> 0]
  <2>3. a \in Action /\ ~(a.type \in Effect /\ a.ref > 0)
    BY Constants DEF Action
  <2>4. /\ kind' = kind /\ pc[r] # "idle" /\ recorder' = recorder /\ seen' = seen
        /\ pc'[r] # "call" /\ call' = call
    BY <1>0, <1>7 DEF Navigate
  <2>5. actions' = actions \/ Record(r, a)
    BY <1>7 DEF Navigate
  <2> HIDE DEF a
  <2>6. QED
    BY <1>b, <1>d, <2>2, <2>3, <2>4, <2>5
<1>8. ASSUME NEW r \in Run, Shoot(r) PROVE FollowInv'
  <2> DEFINE a == [type |-> "screenshot", ref |-> pos[r]]
  <2>1. a \in Action /\ ~(a.type \in Effect /\ a.ref > 0)
    BY <1>8, <1>a, Constants DEF Shoot, Action, Name, TypeOK
  <2>2. /\ kind' = kind /\ pc[r] # "idle" /\ recorder' = recorder /\ seen' = seen /\ page' = page
        /\ pc'[r] # "call" /\ call' = call /\ Record(r, a)
    BY <1>0, <1>8 DEF Shoot
  <2> HIDE DEF a
  <2>3. QED
    BY <1>c, <1>d, <2>1, <2>2
<1>9. ASSUME NEW r \in Run, ShootOnce(r) PROVE FollowInv'
  BY <1>0, <1>9, <1>b, <1>c DEF ShootOnce
<1>10. ASSUME NEW r \in Run, ShootFails(r) PROVE FollowInv'
  BY <1>0, <1>10, <1>b, <1>c DEF ShootFails
<1>11. ASSUME NEW r \in Run, TimeIsUp(r) PROVE FollowInv'
  BY <1>0, <1>11, <1>b, <1>c DEF TimeIsUp
<1>12. ASSUME NEW r \in Run, Save(r) PROVE FollowInv'
  BY <1>0, <1>12, <1>b, <1>c DEF Save, StartSave, NeverStarts
<1>13. ASSUME NEW r \in Run, FinishSave(r) PROVE FollowInv'
  <2>1. UNCHANGED <<kind, recorder, actions, seen, page, call>>
    BY <1>13 DEF FinishSave
  <2>2. QED
    BY <1>b, <1>c, <2>1
<1>14. ASSUME NEW r \in Run, Export(r) PROVE FollowInv'
  BY <1>0, <1>14, <1>b, <1>c DEF Export, StartExport, NeverStarts
<1>15. ASSUME NEW r \in Run, FinishExport(r) PROVE FollowInv'
  BY <1>0, <1>15, <1>b, <1>c DEF FinishExport, Fails
<1>16. ASSUME NEW r \in Run, Register(r) PROVE FollowInv'
  BY <1>0, <1>16, <1>b, <1>c DEF Register
<1>17. ASSUME NEW r \in Run, Play(r) PROVE FollowInv'
  <2>1. loaded[r][pos[r]] \in Action
    BY <1>17 DEF Play, TypeInv, TypeOK, Plays
  <2>2. \/ page' = page
        \/ \E k \in Effect, n \in Nat : page' = PageAfter(k, n)
    BY <1>17, <2>1 DEF Play, Repeats
  <2>3. PageGrows
    BY <1>0, <1>c, <2>2, PageLonger
  <2>4. QED
    BY <1>0, <1>17, <1>b, <2>3 DEF Play
<1>18. ASSUME NEW r \in Run, Played(r) PROVE FollowInv'
  BY <1>0, <1>18, <1>b, <1>c DEF Played
<1>19. ASSUME NEW r \in Run, Watch(r) PROVE FollowInv'
  BY <1>0, <1>19, <1>b, <1>c DEF Watch
<1>f. ASSUME NEW r \in Run, pc[r] \in {"menu", "call"}
      PROVE  pc[r] # "idle" /\ (kind[r] = "record" => r \in recorder)
  BY <1>f DEF Recorders
<1>20. ASSUME NEW r \in Run, BeginCall(r) PROVE FollowInv'
  <2>1. \A q \in Run : call'[q] = call[q] \/ BeginCall(q)
    <3>1. ASSUME NEW q \in Run, q # r PROVE call'[q] = call[q]
      BY <1>20, <1>a, <3>1 DEF BeginCall, TypeOK
    <3>2. QED
      BY <1>20, <3>1
  <2>2. UNCHANGED <<kind, recorder, actions, seen, page>>
    BY <1>20 DEF BeginCall
  <2>3. \A q \in Run : Fine(q)
    BY <1>c, <1>q, <2>1, <2>2
  <2>4. QED
    BY <2>3 DEF FollowInv, Fine
<1>21. ASSUME NEW r \in Run, CallActs(r) PROVE FollowInv'
  <2>1. /\ call[r].type \in Effect /\ page' = Append(page, call[r].type)
        /\ call' = [call EXCEPT ![r] = [type |-> @.type, ref |-> Len(page) + 1, owed |-> Len(page)]]
        /\ pc[r] = "call"
        /\ UNCHANGED <<kind, pc, recorder, actions, seen>>
    BY <1>21 DEF CallActs
  <2>2. PageGrows
    BY <1>0, <2>1, PageLonger
  <2>3. ASSUME NEW q \in Run, q # r PROVE Fine(q)
    <3>1. call'[q] = call[q]
      BY <1>a, <2>1, <2>3 DEF TypeOK
    <3>2. QED
      BY <1>q, <2>1, <2>2, <2>3, <3>1
  <2>4. call[r] \in Called /\ call \in [Run -> Called]
    BY <1>a DEF TypeOK
  <2>5. call'[r].type = call[r].type /\ call'[r].ref = Len(page) + 1 /\ call'[r].owed = Len(page)
    BY <2>1, <2>4 DEF Called
  <2>6. Len(page') = Len(page) + 1 /\ page'[Len(page) + 1] = call[r].type
    BY <1>0, <2>1
  <2>7. ASSUME r \in recorder PROVE Pending(call'[r], actions[r], page', seen[r])
    <3>1. PICK l \in Nat : l = Len(page)
      BY <1>0
    <3>2. \A i \in Again(actions[r]) : actions[r][i].ref \in 1 .. l
      BY <2>7, <3>1 DEF FollowInv, Follows
    <3>3. \A i \in Again(actions[r]) : actions[r][i].ref # l + 1
      BY <3>2
    <3>4. seen[r] \in Nat /\ ~(l + 1 <= seen[r])
      BY <1>0, <3>1
    <3>5. l + 1 \in 1 .. l + 1 /\ l = (l + 1) - 1
      OBVIOUS
    <3>6. QED
      BY <2>5, <2>6, <3>1, <3>3, <3>4, <3>5 DEF Pending
  <2>8. r \in recorder => Follows(actions'[r], page', seen'[r])
    BY <1>a, <2>1, <2>2, FollowsStill DEF FollowInv
  <2>9. Fine(r)
    BY <2>1, <2>7, <2>8 DEF FollowInv, Fine
  <2>10. QED
    BY <2>3, <2>9 DEF FollowInv, Fine
<1>22. ASSUME NEW r \in Run, Listen(r) PROVE FollowInv'
  <2>1. /\ pc[r] = "call" /\ seen' = [seen EXCEPT ![r] = @ + 1]
        /\ UNCHANGED <<kind, pc, page, recorder, call>>
    BY <1>22 DEF Listen
  <2>2. \A q \in Run : q # r => actions'[q] = actions[q] /\ seen'[q] = seen[q]
    BY <1>0, <1>22 DEF Listen, Record
  <2>3. ASSUME NEW q \in Run, q # r PROVE Fine(q)
    BY <1>c, <1>q, <2>1, <2>2, <2>3
  <2>4. PICK s \in Seq(Action), n \in Nat, p \in Seq(Effect), c \in Called, a \in Action :
          s = actions[r] /\ n = seen[r] /\ p = page /\ c = call[r] /\ a = Heard(r)
    BY <1>0, <1>a, <1>22, Listening DEF TypeOK
  <2>5. n + 1 \in 1 .. Len(p) /\ seen'[r] = n + 1 /\ a.type \in Effect
    BY <1>a, <1>22, <2>4, Listening
  <2>6. a.ref = n + 1 /\ a.type = p[n + 1]
    BY <2>4 DEF Heard
  <2>7. CASE r \in recorder
    <3>1. actions'[r] = Append(s, a)
      BY <1>0, <1>a, <1>22, <2>4, <2>7, Listening DEF Record
    <3>2. /\ Follows(s, p, n) /\ Pending(c, s, p, n)
          /\ kind[r] = "record" => HasAll(s, n)
      BY <2>1, <2>4, <2>7 DEF FollowInv
    <3>3. /\ Follows(Append(s, a), p, n + 1)
          /\ HasAll(s, n) => HasAll(Append(s, a), n + 1)
      BY <2>5, <2>6, <3>2, FollowsListen
    <3>4. Pending(c, Append(s, a), p, n + 1)
      BY <2>5, <2>6, <3>2, PendingListen
    <3>5. Fine(r)
      BY <2>1, <2>4, <2>5, <3>1, <3>2, <3>3, <3>4 DEF Fine
    <3>6. QED
      BY <2>3, <3>5 DEF FollowInv, Fine
  <2>8. CASE r \notin recorder
    <3>1. kind[r] # "record"
      BY <1>f, <2>1, <2>8
    <3>2. Fine(r)
      BY <2>1, <2>8, <3>1 DEF Fine
    <3>3. QED
      BY <2>3, <3>2 DEF FollowInv, Fine
  <2>9. QED
    BY <2>7, <2>8
<1>23. ASSUME NEW r \in Run, EndCall(r) PROVE FollowInv'
  <2>1. /\ pc[r] = "call" /\ pc'[r] = "menu" /\ seen[r] >= call[r].owed
        /\ \A q \in Run : q # r => call'[q] = call[q]
        /\ UNCHANGED <<kind, page, recorder, seen>>
    BY <1>0, <1>a, <1>23 DEF EndCall, TypeOK
  <2>2. PageGrows
    BY <1>c, <2>1
  <2>3. CASE actions' = actions
    <3>1. ASSUME NEW q \in Run, q # r PROVE Fine(q)
      BY <1>q, <2>1, <2>2, <2>3, <3>1
    <3>2. Fine(r)
      BY <2>1, <2>3 DEF FollowInv, Fine
    <3>3. QED
      BY <3>1, <3>2 DEF FollowInv, Fine
  <2>4. CASE /\ r \in recorder /\ Made(r) \in Action /\ Record(r, Made(r))
             /\ Made(r).type \notin Effect
    BY <1>d, <2>1, <2>2, <2>4
  <2>5. CASE /\ r \in recorder /\ Made(r) \in Action /\ Record(r, Made(r))
             /\ Made(r).type \in Effect /\ Made(r).ref > 0 /\ Made(r).type # "navigate"
    <3>1. PICK s \in Seq(Action), n \in Nat, p \in Seq(Effect), c \in Called, a \in Action :
            s = actions[r] /\ n = seen[r] /\ p = page /\ c = call[r] /\ a = Made(r)
      BY <1>0, <1>a, <2>5 DEF TypeOK
    <3>2. a.ref = c.ref /\ a.type = c.type
      BY <3>1 DEF Made
    <3>3. /\ Follows(s, p, n) /\ Pending(c, s, p, n)
          /\ kind[r] = "record" => HasAll(s, n)
      BY <2>1, <2>5, <3>1 DEF FollowInv
    <3>4. /\ c.ref \in 1 .. Len(p) /\ p[c.ref] = c.type /\ c.owed = c.ref - 1 /\ c.owed <= n
          /\ \A i, j \in Again(s) : s[i].ref = c.ref /\ s[j].ref = c.ref => i = j
          /\ \A i \in Again(s) : s[i].ref = c.ref => c.ref <= n
          /\ c.ref <= n => \E i \in Again(s) : s[i].ref = c.ref
      <4>1. c.type \in Effect /\ c.ref > 0
        BY <2>5, <3>1, <3>2
      <4>2. c.owed <= n
        BY <2>1, <3>1 DEF Called
      <4>3. QED
        BY <3>3, <4>1, <4>2 DEF Pending
    <3>5. c.ref <= n + 1 /\ (c.ref = n + 1 => ~(c.ref <= n))
      BY <3>4
    <3>6. /\ Follows(Append(s, a), p, n)
          /\ HasAll(s, n) => HasAll(Append(s, a), n)
      <4>1. /\ a.ref <= n + 1 /\ a.ref \in 1 .. Len(p) /\ a.type = p[a.ref]
            /\ \A i, j \in Again(s) : s[i].ref = a.ref /\ s[j].ref = a.ref => i = j
            /\ a.ref = n + 1 => \A i \in Again(s) : s[i].ref # a.ref
            /\ a.ref <= n => \E i \in Again(s) : s[i].ref = a.ref
        BY <3>2, <3>4, <3>5
      <4>2. a.type # "navigate"
        BY <2>5, <3>1
      <4>3. QED
        BY <3>3, <4>1, <4>2, FollowsEnd
    <3>7. /\ actions'[r] = Append(s, a)
          /\ \A q \in Run : q # r => actions'[q] = actions[q]
      BY <1>0, <2>5, <3>1 DEF Record
    <3>8. ASSUME NEW q \in Run, q # r PROVE Fine(q)
      BY <1>q, <2>1, <2>2, <3>7, <3>8
    <3>9. Fine(r)
      BY <2>1, <3>1, <3>3, <3>6, <3>7 DEF Fine
    <3>10. QED
      BY <3>8, <3>9 DEF FollowInv, Fine
  <2>6. QED
    BY <1>23, <1>a, <2>3, <2>4, <2>5, EndingCall
<1>24. ASSUME NEW r \in Run, RecordOn(r) PROVE FollowInv'
  <2>1. /\ actions' = [actions EXCEPT ![r] = <<>>] /\ recorder' = recorder \cup {r}
        /\ pc[r] = "menu" /\ r \notin recorder
        /\ UNCHANGED <<kind, pc, page, seen, call>>
    BY <1>24 DEF RecordOn
  <2>2. kind[r] # "record"
    BY <1>f, <2>1
  <2>3. kind' = kind /\ pc'[r] \notin {"idle", "call"} /\ actions'[r] = <<>>
    BY <1>0, <2>1
  <2>4. QED
    BY <1>e, <2>1, <2>2, <2>3
<1>25. ASSUME NEW r \in Run, SaveNow(r) PROVE FollowInv'
  BY <1>0, <1>25, <1>b, <1>c DEF SaveNow, StartSave, NeverStarts
<1>26. ASSUME NEW r \in Run, ExportNow(r) PROVE FollowInv'
  BY <1>0, <1>26, <1>b, <1>c DEF ExportNow, StartExport, NeverStarts
<1>27. ASSUME NEW r \in Run, Leave(r) PROVE FollowInv'
  BY <1>0, <1>27, <1>b, <1>c DEF Leave, StartSave, NeverStarts, AfterMenu
<1>28. ASSUME NEW k \in Effect, PageActs(k) PROVE FollowInv'
  <2>1. PageGrows
    BY <1>0, <1>28, PageLonger DEF PageActs
  <2>2. QED
    BY <1>28, <1>b, <2>1 DEF PageActs
<1>29. ASSUME Crash PROVE FollowInv'
  BY <1>0, <1>29, <1>b, <1>c DEF Crash, Live, Ended
<1>30. ASSUME UNCHANGED vars PROVE FollowInv'
  BY <1>30, <1>b, <1>c DEF vars
<1>31. QED
  BY <1>1, <1>2, <1>3, <1>4, <1>5, <1>6, <1>7, <1>8, <1>9, <1>10, <1>11, <1>12,
     <1>13, <1>14, <1>15, <1>16, <1>17, <1>18, <1>19, <1>20, <1>21, <1>22, <1>23, <1>24,
     <1>25, <1>26, <1>27, <1>28, <1>29, <1>30
     DEF Next, Begin, RunStep, Menu

\* A recording has what happened on the page first in the page's order, without
\* gaps, and once more only what the menu did, wherever the listeners come in
\* during its calls; one that was on from the start has all that was delivered.
THEOREM RecordingFollowsThePage == Spec => []FollowsThePage
<1>1. Init => TypeInv /\ Recorders /\ GoesOn /\ FollowInv
  <2>1. Init => Recorders
    BY InitKeptInv DEF KeptInv
  <2>a. Init => GoesOn
    BY DEF Init, GoesOn
  <2>2. ASSUME Init PROVE FollowInv
    <3>1. \A r \in Run : actions[r] = <<>> /\ seen[r] = 0 /\ r \notin recorder
      BY <2>2 DEF Init
    <3>2. \A r \in Run : HasAll(actions[r], seen[r])
      BY <3>1 DEF HasAll
    <3>3. \A r \in Run : pc[r] # "call"
      BY <2>2 DEF Init
    <3>4. QED
      BY <3>1, <3>2, <3>3 DEF FollowInv
  <2>3. QED
    BY <2>1, <2>2, <2>a, InitTypeInv
<1>2. TypeInv /\ Recorders /\ GoesOn /\ FollowInv /\ [Next]_vars =>
        (TypeInv /\ Recorders /\ GoesOn /\ FollowInv)'
  BY NextTypeInv, NextRecorders, NextGoesOn, NextFollowInv
<1>3. TypeInv /\ Recorders /\ GoesOn /\ FollowInv => FollowsThePage
  <2> SUFFICES ASSUME TypeInv, FollowInv, NEW r \in watching \cap recorder
               PROVE
                 /\ \A j \in Repeated(r) : \A a \in Refs(r) : a < actions[r][j].ref =>
                      \E i \in Repeated(r) : i < j /\ actions[r][i].ref = a
                 /\ \A a, b \in Refs(r) : a .. b \subseteq Refs(r)
                 /\ \A i, j, k \in Repeated(r) :
                      i < j /\ actions[r][i].ref = actions[r][j].ref =>
                        /\ actions[r][i].type # "navigate"
                        /\ k \in {i, j} \/ actions[r][k].ref # actions[r][i].ref
                 /\ kind[r] = "record" => 1 .. seen[r] \subseteq Refs(r)
    BY Zenon DEF FollowsThePage
  <2>1. PICK s \in Seq(Action), n \in Nat, p \in Seq(Effect) :
          s = actions[r] /\ n = seen[r] /\ p = page
    BY DEF TypeInv, TypeOK
  <2>2. Repeated(r) = Again(s) /\ Refs(r) = {s[i].ref : i \in Again(s)}
    BY <2>1 DEF Repeated, Refs, Again
  <2>3. Follows(s, p, n) /\ (kind[r] = "record" => HasAll(s, n))
    <3>1. r \in Run
      BY DEF TypeInv, TypeOK
    <3>2. QED
      BY <2>1, <3>1 DEF FollowInv
  <2>4. \A j \in Again(s) : \A a \in Refs(r) : a < s[j].ref =>
          \E i \in Again(s) : i < j /\ s[i].ref = a
    BY <2>2, <2>3 DEF Follows
  <2>5. \A i, j, k \in Again(s) : i < j /\ s[i].ref = s[j].ref =>
          s[i].type # "navigate" /\ (k \in {i, j} \/ s[k].ref # s[i].ref)
    BY <2>3 DEF Follows
  <2>6. ASSUME NEW a \in Refs(r), NEW b \in Refs(r), NEW c \in a .. b PROVE c \in Refs(r)
    <3>1. PICK i \in Again(s), j \in Again(s) : a = s[i].ref /\ b = s[j].ref
      BY <2>2
    <3>2. a \in Nat /\ b \in Nat
      BY <3>1, RepeatsFacts
    <3>3. b <= n + 1
      BY <2>3, <3>1 DEF Follows
    <3>4. CASE c = b
      BY <3>4
    <3>5. CASE c # b
      <4>1. c \in s[i].ref .. n
        BY <2>6, <3>1, <3>2, <3>3, <3>5
      <4>2. PICK k \in Again(s) : s[k].ref = c
        BY <2>3, <4>1 DEF Follows
      <4>3. QED
        BY <2>2, <4>2
    <3>6. QED
      BY <3>4, <3>5
  <2>7. kind[r] = "record" => 1 .. seen[r] \subseteq Refs(r)
    BY <2>1, <2>2, <2>3 DEF HasAll
  <2>8. QED
    BY <2>1, <2>2, <2>4, <2>5, <2>6, <2>7
<1>4. QED
  BY <1>1, <1>2, <1>3, PTL DEF Spec

================================================================================
