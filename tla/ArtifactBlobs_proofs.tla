--------------------------- MODULE ArtifactBlobs_proofs ---------------------------
(***************************************************************************)
(* Proofs about ArtifactBlobs and ProfileUse for any number of artifacts,  *)
(* uploads, chunks, commands and crashes: the types, why a file may        *)
(* outlive its row, that what a row promises is served, that no command    *)
(* runs with a profile nobody accepted, and when one loses its profile.    *)
(* The lemmas about the store are of its steps, [Next]_vars; ProfileSteps  *)
(* lets them be used for the steps of ProfileUse.                          *)
(***************************************************************************)
EXTENDS ProfileUse, TLAPS

--------------------------------------------------------------------------------
(* Types *)

\* What the constants give.
LEMMA Constants ==
  /\ Posted \subseteq Artifact /\ Captured \subseteq Artifact /\ Scoped \subseteq Artifact
  /\ UploadLimit \in Nat /\ MaxChunks \in Nat /\ MaxCrashes \in Nat
  /\ NoFile \notin Upload /\ NoBody \notin Upload
BY BlobAssumption DEF BlobAssumption, Artifact

\* What a listing returns are rows that are live, with the path each has.
LEMMA ListingsTypes ==
  ASSUME NEW A, NEW todo \in Listings(A)
  PROVE  \A e \in todo : \E a \in A : Live(a) /\ e = <<a, art[a].path>>
BY DEF Listings

\* A file after a flush is a sequence of chunks.
LEMMA OverwrittenTypes ==
  ASSUME NEW S, NEW s \in Seq(S), NEW u \in S, NEW from \in Nat, NEW to \in Nat, NoBody \in S
  PROVE  Overwritten(s, u, from, to) \in Seq(S)
<1> DEFINE n == IF from < to THEN Longer(Len(s), to) ELSE Len(s)
<1>1. n \in Nat
  BY DEF Longer
<1>2. Overwritten(s, u, from, to) \in [1 .. n -> S]
  <2>1. ASSUME NEW i \in 1 .. n
        PROVE  (IF i \in from + 1 .. to THEN u ELSE IF i <= Len(s) THEN s[i] ELSE NoBody) \in S
    <3>1. CASE i <= Len(s)
      <4>1. s[i] \in S
        BY <3>1, <1>1
      <4>2. QED
        BY <4>1
    <3>2. CASE ~(i <= Len(s))
      BY <3>2
    <3>3. QED
      BY <3>1, <3>2
  <2>2. QED
    BY <2>1 DEF Overwritten
<1>3. QED
  BY <1>1, <1>2

\* The initial state is well typed.
LEMMA InitTypeOK == Init => TypeOK
BY Constants DEF Init, TypeOK, Row, UploadState, Loop, Idle, Paths, Process

\* A flush of an upload that is under way keeps the type of the files.
LEMMA FlushTypes ==
  ASSUME TypeOK, NEW u \in Upload, NEW n \in Nat, FlushTo(u, n)
  PROVE  data' \in [Upload -> Seq(Upload \cup {NoBody})]
<1>1. up[u].flushed \in Nat
  BY Constants DEF TypeOK, UploadState
<1>2. ASSUME NEW w \in Upload
      PROVE  Overwritten(data[w], u, up[u].flushed, n) \in Seq(Upload \cup {NoBody})
  BY <1>1, OverwrittenTypes DEF TypeOK
<1>3. QED
  BY <1>2 DEF FlushTo, TypeOK

\* So does closing its handle, and the state of the upload stays one.
LEMMA CloseTypes ==
  ASSUME TypeOK, NEW u \in Upload,
         NEW result \in {"accepted"} \cup Rejected, Close(u, result)
  PROVE  /\ data' \in [Upload -> Seq(Upload \cup {NoBody})]
         /\ up' \in [Upload -> UploadState]
         /\ \A v \in Upload : /\ up'[v].flushed <= up'[v].sent
                              /\ UploadLimit > 0 => up'[v].sent <= UploadLimit
<1>1. up[u].sent \in Nat /\ up[u].sent \in 0 .. MaxChunks
  BY Constants DEF TypeOK, UploadState
<1>2. data' \in [Upload -> Seq(Upload \cup {NoBody})]
  BY <1>1, FlushTypes DEF Close
<1>3. up' = [up EXCEPT ![u] = [@ EXCEPT !.pc = result, !.flushed = up[u].sent]]
  BY DEF Close, TypeOK, UploadState
<1>4. up[u] \in UploadState
  BY DEF TypeOK
<1>5. [up[u] EXCEPT !.pc = result, !.flushed = up[u].sent] \in UploadState
  BY <1>1, <1>4 DEF UploadState
<1>6. up' \in [Upload -> UploadState]
  BY <1>3, <1>5 DEF TypeOK
<1>7. ASSUME NEW v \in Upload
      PROVE  /\ up'[v].flushed <= up'[v].sent
             /\ UploadLimit > 0 => up'[v].sent <= UploadLimit
  <2>1. CASE v = u
    <3>1. up'[u].sent = up[u].sent /\ up'[u].flushed = up[u].sent
      BY <1>3, <1>4 DEF UploadState, TypeOK
    <3>2. QED
      BY <1>1, <2>1, <3>1 DEF TypeOK
  <2>2. CASE v # u
    BY <1>3, <2>2 DEF TypeOK
  <2>3. QED
    BY <2>1, <2>2
<1>8. QED
  BY <1>2, <1>6, <1>7

\* A new state of one upload.
LEMMA UpTypes ==
  ASSUME TypeOK, NEW u \in Upload, NEW r \in UploadState, up' = [up EXCEPT ![u] = r],
         r.flushed <= r.sent, UploadLimit > 0 => r.sent <= UploadLimit
  PROVE  /\ up' \in [Upload -> UploadState]
         /\ \A v \in Upload : /\ up'[v].flushed <= up'[v].sent
                              /\ UploadLimit > 0 => up'[v].sent <= UploadLimit
BY DEF TypeOK

\* The fields of a row that an operation sets.
LEMMA FieldTypes ==
  ASSUME TypeOK, NEW a
  PROVE  /\ \A st \in {"none", "live", "gone"} : [art EXCEPT ![a].state = st] \in [Artifact -> Row]
         /\ \A k \in {"none", "valid", "expired"} : [art EXCEPT ![a].link = k] \in [Artifact -> Row]
         /\ [art EXCEPT ![a].old = TRUE] \in [Artifact -> Row]
         /\ \A p \in Paths, k \in Upload \cup {NoBody, "captured"} :
              [art EXCEPT ![a].path = p, ![a].sum = k] \in [Artifact -> Row]
<1>1. art \in [Artifact -> Row]
  BY DEF TypeOK
<1>2. ASSUME NEW st \in {"none", "live", "gone"}
      PROVE  [art EXCEPT ![a].state = st] \in [Artifact -> Row]
  BY <1>1 DEF Row
<1>3. ASSUME NEW k \in {"none", "valid", "expired"}
      PROVE  [art EXCEPT ![a].link = k] \in [Artifact -> Row]
  BY <1>1 DEF Row
<1>4. [art EXCEPT ![a].old = TRUE] \in [Artifact -> Row]
  BY <1>1 DEF Row
<1>5. ASSUME NEW p \in Paths, NEW k \in Upload \cup {NoBody, "captured"}
      PROVE  [art EXCEPT ![a].path = p, ![a].sum = k] \in [Artifact -> Row]
  <2>1. ASSUME NEW b \in Artifact PROVE [art[b] EXCEPT !.path = p, !.sum = k] \in Row
    BY <1>1 DEF Row
  <2>2. [art EXCEPT ![a].path = p, ![a].sum = k] =
          [b \in Artifact |-> IF b = a THEN [art[b] EXCEPT !.path = p, !.sum = k] ELSE art[b]]
    BY <1>1 DEF Row
  <2>3. QED
    BY <1>1, <2>1, <2>2
<1>6. QED
  BY <1>2, <1>3, <1>4, <1>5

\* Deleting the row.
LEMMA GoneTypes ==
  ASSUME TypeOK, NEW a, art' = GoneRow(a)
  PROVE  art' \in [Artifact -> Row]
BY FieldTypes DEF GoneRow, TypeOK

\* Deleting the file by its path.
LEMMA RemoveTypes ==
  ASSUME TypeOK, NEW a, NEW p, Remove(a, p)
  PROVE  dir' \in [Artifact -> Upload \cup {NoFile}] /\ work' \in [Captured -> BOOLEAN]
BY DEF TypeOK, Remove

\* A process starts a loop, or goes on with one.
LEMMA LoopTypes ==
  ASSUME TypeOK, NEW x, NEW r \in Loop, clean' = [clean EXCEPT ![x] = r]
  PROVE  clean' \in [Process -> Loop]
BY DEF TypeOK

\* A listing starts a loop.
LEMMA ListTypes ==
  ASSUME TypeOK, NEW x \in Process, NEW kind \in {"purge", "sweep", "session"},
         NEW A \in SUBSET Artifact, List(x, kind, A)
  PROVE  TypeOK'
<1>1. PICK todo \in Listings(A) :
        clean' = [clean EXCEPT ![x] = [pc |-> kind, todo |-> todo, pending |-> {}]]
  BY DEF List
<1>2. todo \subseteq Artifact \X Paths
  BY ListingsTypes DEF TypeOK, Row
<1>3. [pc |-> kind, todo |-> todo, pending |-> {}] \in Loop
  BY <1>2 DEF Loop
<1>4. clean' \in [Process -> Loop]
  BY <1>1, <1>3, LoopTypes
<1>5. QED
  BY <1>4 DEF List, TypeOK, uploadVars, workerVars

\* Every step keeps the types.
LEMMA NextTypeOK == TypeOK /\ [Next]_vars => TypeOK'
<1> SUFFICES ASSUME TypeOK, [Next]_vars PROVE TypeOK'
  OBVIOUS
<1> USE Constants DEF uploadVars, workerVars
<1>1. ASSUME NEW a \in Artifact,
             CreateArtifact(a) \/ Presign(a) \/ LinkExpires(a) \/ RetentionEnds(a)
      PROVE  TypeOK'
  <2>1. art' \in [Artifact -> Row]
    <3>1. CASE CreateArtifact(a)
      BY <3>1, FieldTypes DEF CreateArtifact, CreateRow
    <3>2. CASE Presign(a)
      BY <3>2, FieldTypes DEF Presign
    <3>3. CASE LinkExpires(a)
      BY <3>3, FieldTypes DEF LinkExpires
    <3>4. CASE RetentionEnds(a)
      BY <3>4, FieldTypes DEF RetentionEnds
    <3>5. QED
      BY <1>1, <3>1, <3>2, <3>3, <3>4
  <2>2. UNCHANGED <<dir, uploadVars, workerVars, clean, crashes, missed>>
    BY <1>1 DEF CreateArtifact, Presign, LinkExpires, RetentionEnds
  <2>3. QED
    BY <2>1, <2>2 DEF TypeOK
<1>2. ASSUME NEW a \in Artifact, DeleteArtifact(a) PROVE TypeOK'
  <2>1. art' \in [Artifact -> Row]
    BY <1>2, GoneTypes DEF DeleteArtifact
  <2>2. dir' \in [Artifact -> Upload \cup {NoFile}] /\ work' \in [Captured -> BOOLEAN]
    BY <1>2, RemoveTypes DEF DeleteArtifact
  <2>3. QED
    BY <1>2, <2>1, <2>2 DEF DeleteArtifact, TypeOK
<1>3. ASSUME NEW a \in Artifact, NEW u \in Upload, BeginUpload(u, a) PROVE TypeOK'
  <2> DEFINE r == [pc |-> "writing", target |-> a, inode |-> dir'[a], sent |-> 0, flushed |-> 0]
  <2>1. dir' \in [Artifact -> Upload \cup {NoFile}]
    BY <1>3 DEF BeginUpload, TypeOK
  <2>2. data' \in [Upload -> Seq(Upload \cup {NoBody})]
    BY <1>3 DEF BeginUpload, Truncated, TypeOK
  <2>3. /\ r \in UploadState /\ up' = [up EXCEPT ![u] = r]
        /\ r.flushed <= r.sent
        /\ UploadLimit > 0 => r.sent <= UploadLimit
    BY <1>3, <2>1 DEF BeginUpload, UploadState
  <2>4. /\ up' \in [Upload -> UploadState]
        /\ \A v \in Upload : /\ up'[v].flushed <= up'[v].sent
                             /\ UploadLimit > 0 => up'[v].sent <= UploadLimit
    <3> HIDE DEF r
    <3>1. QED
      BY <2>3, UpTypes
  <2>5. opener' \in [Artifact -> Upload \cup {NoFile}]
    BY <1>3 DEF BeginUpload, TypeOK
  <2>6. shared' \subseteq Upload
    <3> DEFINE others == {v \in Upload : Writing(v) /\ up[v].target = a}
    <3>1. shared' = shared \cup (IF others = {} THEN {} ELSE others \cup {u})
      BY <1>3 DEF BeginUpload
    <3>2. others \subseteq Upload /\ shared \subseteq Upload
      BY DEF TypeOK
    <3> HIDE DEF others
    <3>3. QED
      BY <3>1, <3>2
  <2>7. QED
    BY <1>3, <2>1, <2>2, <2>4, <2>5, <2>6 DEF BeginUpload, TypeOK
<1>4. ASSUME NEW u \in Upload, ReceiveChunk(u) PROVE TypeOK'
  <2>1. up[u] \in UploadState
    BY DEF TypeOK
  <2>2. PICK n \in up[u].flushed .. up[u].sent + 1 :
          FlushTo(u, n) /\ up' = [up EXCEPT ![u].sent = @ + 1, ![u].flushed = n]
    BY <1>4 DEF ReceiveChunk
  <2>3. n \in Nat /\ n <= up[u].sent + 1 /\ up[u].sent + 1 \in 0 .. MaxChunks
    BY <1>4, <2>1 DEF ReceiveChunk, UploadState
  <2> DEFINE r == [up[u] EXCEPT !.sent = @ + 1, !.flushed = n]
  <2>4. r \in UploadState /\ r.flushed <= r.sent /\ up' = [up EXCEPT ![u] = r]
    <3>1. r.flushed = n /\ r.sent = up[u].sent + 1
      BY <2>1 DEF UploadState
    <3>2. n \in 0 .. MaxChunks
      BY <2>3
    <3>3. r \in UploadState
      BY <2>1, <2>3, <3>2 DEF UploadState
    <3>4. up' = [up EXCEPT ![u] = r]
      BY <2>2 DEF TypeOK
    <3>5. QED
      BY <2>3, <3>1, <3>3, <3>4
  <2>5. UploadLimit > 0 => r.sent <= UploadLimit
    BY <1>4, <2>1 DEF ReceiveChunk, WithinLimit, UploadState
  <2> HIDE DEF r
  <2>6. /\ up' \in [Upload -> UploadState]
        /\ \A v \in Upload : /\ up'[v].flushed <= up'[v].sent
                             /\ UploadLimit > 0 => up'[v].sent <= UploadLimit
    BY <2>4, <2>5, UpTypes
  <2>7. data' \in [Upload -> Seq(Upload \cup {NoBody})]
    BY <2>2, <2>3, FlushTypes
  <2>8. QED
    BY <1>4, <2>6, <2>7 DEF ReceiveChunk, TypeOK
<1>5. ASSUME NEW u \in Upload, Accept(u) PROVE TypeOK'
  <2>1. /\ data' \in [Upload -> Seq(Upload \cup {NoBody})]
        /\ up' \in [Upload -> UploadState]
        /\ \A v \in Upload : /\ up'[v].flushed <= up'[v].sent
                             /\ UploadLimit > 0 => up'[v].sent <= UploadLimit
    BY <1>5, CloseTypes DEF Accept
  <2>2. art' \in [Artifact -> Row]
    BY <1>5, FieldTypes DEF Accept, Paths
  <2>3. QED
    BY <1>5, <2>1, <2>2 DEF Accept, TypeOK
<1>6. ASSUME NEW u \in Upload, RejectAndUnlink(u) \/ RejectAndLeave(u) PROVE TypeOK'
  <2>1. PICK result \in Rejected : Close(u, result)
    BY <1>6 DEF RejectAndUnlink, RejectAndLeave, Rejected
  <2>2. /\ data' \in [Upload -> Seq(Upload \cup {NoBody})]
        /\ up' \in [Upload -> UploadState]
        /\ \A v \in Upload : /\ up'[v].flushed <= up'[v].sent
                             /\ UploadLimit > 0 => up'[v].sent <= UploadLimit
    BY <2>1, CloseTypes
  <2>3. dir' \in [Artifact -> Upload \cup {NoFile}]
    BY <1>6 DEF RejectAndUnlink, RejectAndLeave, TypeOK
  <2>4. UNCHANGED <<art, workerVars, clean, crashes, opener, shared, missed>>
    BY <1>6 DEF RejectAndUnlink, RejectAndLeave
  <2>5. QED
    BY <2>2, <2>3, <2>4 DEF TypeOK
<1>7. ASSUME NEW a \in Captured, Capture(a) PROVE TypeOK'
  BY <1>7 DEF Capture, TypeOK
<1>8. ASSUME NEW a \in Captured, Register(a) PROVE TypeOK'
  <2>1. art' \in [Artifact -> Row]
    BY <1>8, FieldTypes DEF Register, CreateRow
  <2>2. QED
    BY <1>8, <2>1 DEF Register, TypeOK
<1>9. ASSUME NEW a \in Captured, SetBlob(a) PROVE TypeOK'
  <2>1. art' \in [Artifact -> Row]
    BY <1>9, FieldTypes DEF SetBlob, Paths, TypeOK
  <2>2. QED
    BY <1>9, <2>1 DEF SetBlob, TypeOK
<1>10. ASSUME BeginSession \/ BeginPurge \/ BeginSweep PROVE TypeOK'
  <2>1. Stale \in SUBSET Artifact
    BY DEF Stale
  <2>2. QED
    BY <1>10, <2>1, ListTypes DEF BeginSession, BeginPurge, BeginSweep, Process
<1>11. ASSUME NEW x \in Process, DeleteRow(x) PROVE TypeOK'
  <2>1. clean[x] \in Loop
    BY DEF TypeOK
  <2>2. PICK e \in clean[x].todo :
          /\ art' = GoneRow(e[1])
          /\ clean' = [clean EXCEPT ![x].todo = @ \ {e}, ![x].pending = {e}]
          /\ missed' = IF Live(e[1]) /\ art[e[1]].path # e[2] THEN missed \cup {e[1]} ELSE missed
    BY <1>11 DEF DeleteRow
  <2>3. e \in Artifact \X Paths
    BY <2>1 DEF Loop
  <2>4. missed' \subseteq Artifact
    BY <2>2, <2>3 DEF TypeOK
  <2>5. art' \in [Artifact -> Row]
    BY <2>2, GoneTypes
  <2>6. clean' \in [Process -> Loop]
    <3> DEFINE l == [clean[x] EXCEPT !.todo = @ \ {e}, !.pending = {e}]
    <3>1. l \in Loop
      BY <2>1, <2>3 DEF Loop
    <3>2. clean' = [clean EXCEPT ![x] = l]
      BY <2>2 DEF TypeOK
    <3> HIDE DEF l
    <3>3. QED
      BY <3>1, <3>2, LoopTypes
  <2>7. QED
    BY <1>11, <2>4, <2>5, <2>6 DEF DeleteRow, TypeOK
<1>12. ASSUME NEW x \in Process, Unlink(x) PROVE TypeOK'
  <2>1. PICK e \in clean[x].pending : Remove(e[1], e[2])
    BY <1>12 DEF Unlink
  <2>2. dir' \in [Artifact -> Upload \cup {NoFile}] /\ work' \in [Captured -> BOOLEAN]
    BY <2>1, RemoveTypes
  <2>3. clean' \in [Process -> Loop]
    <3> DEFINE l == [clean[x] EXCEPT !.pending = {}]
    <3>1. l \in Loop
      <4>1. clean[x] \in Loop
        BY DEF TypeOK
      <4>2. QED
        BY <4>1 DEF Loop
    <3>2. clean' = [clean EXCEPT ![x] = l]
      BY <1>12 DEF Unlink, TypeOK
    <3> HIDE DEF l
    <3>3. QED
      BY <3>1, <3>2, LoopTypes
  <2>4. QED
    BY <1>12, <2>2, <2>3 DEF Unlink, TypeOK
<1>13. ASSUME NEW x \in Process, FinishLoop(x) PROVE TypeOK'
  <2>1. clean' \in [Process -> Loop]
    BY <1>13 DEF FinishLoop, Idle, Loop, TypeOK
  <2>2. sweeping' \in BOOLEAN /\ purge' \in {"none", "done", "lost"}
    BY <1>13 DEF FinishLoop, TypeOK
  <2>3. QED
    BY <1>13, <2>1, <2>2 DEF FinishLoop, TypeOK
<1>14. ASSUME ApiCrash PROVE TypeOK'
  <2>1. up' \in [Upload -> UploadState]
    <3>1. ASSUME NEW u \in Upload
          PROVE  (IF Writing(u) THEN [up[u] EXCEPT !.pc = "cut"] ELSE up[u]) \in UploadState
      <4>1. up[u] \in UploadState
        BY DEF TypeOK
      <4>2. QED
        BY <4>1 DEF UploadState, Rejected
    <3>2. QED
      BY <1>14, <3>1 DEF ApiCrash
  <2>2. \A u \in Upload : up'[u].sent = up[u].sent /\ up'[u].flushed = up[u].flushed
    BY <1>14 DEF ApiCrash, UploadState, TypeOK
  <2>3. clean' \in [Process -> Loop]
    BY <1>14 DEF ApiCrash, Idle, Loop, TypeOK
  <2>4. QED
    BY <1>14, <2>1, <2>2, <2>3 DEF ApiCrash, TypeOK
<1>15. ASSUME WorkerCrash PROVE TypeOK'
  <2>1. clean' \in [Process -> Loop]
    BY <1>15 DEF WorkerCrash, Idle, Loop, TypeOK
  <2>2. QED
    BY <1>15, <2>1 DEF WorkerCrash, TypeOK
<1>16. CASE UNCHANGED vars
  BY <1>16 DEF vars, TypeOK
<1>17. QED
  BY <1>1, <1>2, <1>3, <1>4, <1>5, <1>6, <1>7, <1>8, <1>9, <1>10, <1>11, <1>12, <1>13,
     <1>14, <1>15, <1>16
     DEF Next, ApiStep, WorkerStep, TimePasses, LoopStep, Process

\* Every reachable state is well typed.
THEOREM TypeCorrect == Spec => []TypeOK
BY InitTypeOK, NextTypeOK, PTL DEF Spec

--------------------------------------------------------------------------------
(* Steps of the uploads and of the loops *)

\* Which steps touch uploads.
LEMMA UploadSteps ==
  ASSUME [Next]_vars
  PROVE  \/ UNCHANGED uploadVars
         \/ \E u \in Upload, a \in Artifact : BeginUpload(u, a)
         \/ \E u \in Upload : \/ ReceiveChunk(u) \/ Accept(u)
                              \/ RejectAndUnlink(u) \/ RejectAndLeave(u)
         \/ ApiCrash
<1> USE DEF uploadVars, workerVars
<1>1. ASSUME NEW a \in Artifact,
             \/ CreateArtifact(a) \/ Presign(a) \/ DeleteArtifact(a)
             \/ LinkExpires(a) \/ RetentionEnds(a)
      PROVE  UNCHANGED uploadVars
  BY <1>1 DEF CreateArtifact, Presign, DeleteArtifact, LinkExpires, RetentionEnds
<1>2. ASSUME NEW a \in Captured, Capture(a) \/ Register(a) \/ SetBlob(a)
      PROVE  UNCHANGED uploadVars
  BY <1>2 DEF Capture, Register, SetBlob
<1>3. ASSUME BeginSession \/ BeginPurge \/ BeginSweep PROVE UNCHANGED uploadVars
  BY <1>3 DEF BeginSession, BeginPurge, BeginSweep, List
<1>4. ASSUME NEW x, LoopStep(x) PROVE UNCHANGED uploadVars
  BY <1>4 DEF LoopStep, DeleteRow, Unlink, FinishLoop
<1>5. ASSUME WorkerCrash PROVE UNCHANGED uploadVars
  BY <1>5 DEF WorkerCrash
<1>6. ASSUME UNCHANGED vars PROVE UNCHANGED uploadVars
  BY <1>6 DEF vars
<1>7. QED
  BY <1>1, <1>2, <1>3, <1>4, <1>5, <1>6 DEF Next, ApiStep, WorkerStep, TimePasses

\* What closing does to its upload and to the others.
LEMMA CloseStep ==
  ASSUME TypeOK, NEW u \in Upload, NEW result, Close(u, result)
  PROVE  /\ Writing(u)
         /\ up'[u] = [up[u] EXCEPT !.pc = result, !.flushed = up[u].sent]
         /\ up'[u].pc = result /\ up'[u].target = up[u].target
         /\ \A v \in Upload \ {u} : up'[v] = up[v]
<1>1. up[u] \in UploadState
  BY DEF TypeOK
<1>2. up'[u] = [up[u] EXCEPT !.pc = result, !.flushed = up[u].sent]
  BY DEF Close, TypeOK
<1>3. up'[u].pc = result /\ up'[u].target = up[u].target
  BY <1>1, <1>2 DEF UploadState
<1>4. \A v \in Upload \ {u} : up'[v] = up[v]
  BY DEF Close, TypeOK
<1>5. QED
  BY <1>2, <1>3, <1>4 DEF Close

\* What receiving a chunk does.
LEMMA ReceiveStep ==
  ASSUME TypeOK, NEW u \in Upload, ReceiveChunk(u)
  PROVE  /\ Writing(u)
         /\ \E n \in up[u].flushed .. up[u].sent + 1 :
              FlushTo(u, n) /\ up'[u] = [up[u] EXCEPT !.sent = @ + 1, !.flushed = n]
         /\ up'[u].pc = "writing" /\ up'[u].target = up[u].target
         /\ \A v \in Upload \ {u} : up'[v] = up[v]
<1>1. up[u] \in UploadState /\ Writing(u)
  BY DEF TypeOK, ReceiveChunk
<1>2. PICK n \in up[u].flushed .. up[u].sent + 1 :
        FlushTo(u, n) /\ up' = [up EXCEPT ![u].sent = @ + 1, ![u].flushed = n]
  BY DEF ReceiveChunk
<1>3. up'[u] = [up[u] EXCEPT !.sent = @ + 1, !.flushed = n]
  BY <1>2 DEF TypeOK
<1>4. up'[u].pc = "writing" /\ up'[u].target = up[u].target
  BY <1>1, <1>3 DEF UploadState, Writing
<1>5. \A v \in Upload \ {u} : up'[v] = up[v]
  BY <1>2 DEF TypeOK
<1>6. QED
  BY <1>1, <1>2, <1>3, <1>4, <1>5

\* What a crash of the API does to an upload.
LEMMA CrashStep ==
  ASSUME TypeOK, ApiCrash, NEW u \in Upload
  PROVE  /\ up'[u].target = up[u].target
         /\ up'[u].pc = IF Writing(u) THEN "cut" ELSE up[u].pc
         /\ up'[u].sent = up[u].sent /\ up'[u].flushed = up[u].flushed
<1>1. up[u] \in UploadState
  BY DEF TypeOK
<1>2. up'[u] = IF Writing(u) THEN [up[u] EXCEPT !.pc = "cut"] ELSE up[u]
  BY DEF ApiCrash
<1>3. QED
  BY <1>1, <1>2 DEF UploadState

\* Every step lets uploads end in one of these ways.
LEMMA UploadsEndStep ==
  ASSUME TypeOK, [Next]_vars, NEW u \in Upload, up[u].target \in Artifact,
         Writing(u) \/ up[u].pc \in Rejected
  PROVE  /\ up'[u].target = up[u].target
         /\ \/ Writing(u)' \/ up'[u].pc \in Rejected
            \/ up'[u].pc = "accepted" /\ art'[up[u].target].path # "none"
<1> USE DEF Writing, Rejected
<1>1. CASE UNCHANGED uploadVars
  BY <1>1 DEF uploadVars
<1>2. ASSUME NEW v \in Upload, NEW a \in Artifact, BeginUpload(v, a) PROVE up'[u] = up[u]
  BY <1>2 DEF BeginUpload, TypeOK
<1>3. ASSUME NEW v \in Upload, ReceiveChunk(v)
      PROVE  up'[u].target = up[u].target /\ (Writing(u)' \/ up'[u] = up[u])
  BY <1>3, ReceiveStep
<1>4. ASSUME NEW v \in Upload, Accept(v)
      PROVE  /\ up'[u].target = up[u].target
             /\ \/ up'[u].pc = "accepted" /\ art'[up[u].target].path = "objects"
                \/ up'[u] = up[u]
  <2>1. CASE v = u
    <3>1. art' = [art EXCEPT ![up[u].target].path = "objects", ![up[u].target].sum = u]
      BY <1>4, <2>1 DEF Accept
    <3>2. art[up[u].target] \in Row
      BY DEF TypeOK
    <3>3. art'[up[u].target].path = "objects"
      BY <3>1, <3>2 DEF TypeOK, Row
    <3>4. QED
      BY <1>4, <2>1, <3>3, CloseStep DEF Accept
  <2>2. CASE v # u
    BY <1>4, <2>2, CloseStep DEF Accept
  <2>3. QED
    BY <2>1, <2>2
<1>5. ASSUME NEW v \in Upload, RejectAndUnlink(v) \/ RejectAndLeave(v)
      PROVE  up'[u].target = up[u].target /\ (up'[u].pc \in Rejected \/ up'[u] = up[u])
  <2>1. PICK result \in Rejected : Close(v, result)
    BY <1>5 DEF RejectAndUnlink, RejectAndLeave
  <2>2. CASE v = u
    BY <2>1, <2>2, CloseStep
  <2>3. CASE v # u
    <3>1. \A w \in Upload \ {v} : up'[w] = up[w]
      BY <2>1, CloseStep
    <3>2. QED
      BY <2>3, <3>1
  <2>4. QED
    BY <2>2, <2>3
<1>6. CASE ApiCrash
  BY <1>6, CrashStep
<1>7. QED
  BY <1>1, <1>2, <1>3, <1>4, <1>5, <1>6, UploadSteps

\* A row's pointer is never taken back.
LEMMA PointersStay ==
  ASSUME TypeOK, [Next]_vars, NEW a \in Artifact, art[a].path # "none"
  PROVE  art'[a].path # "none"
<1> USE DEF TypeOK, Row, uploadVars, workerVars
<1>0. ASSUME NEW b, CreateRow(b) PROVE art'[a].path # "none"
  BY <1>0 DEF CreateRow
<1>1. ASSUME NEW b \in Artifact, CreateArtifact(b) \/ Presign(b) \/ LinkExpires(b) \/ RetentionEnds(b)
      PROVE  art'[a].path # "none"
  <2>1. CASE CreateArtifact(b)
    BY <1>0, <2>1 DEF CreateArtifact
  <2>2. CASE Presign(b)
    BY <2>2 DEF Presign
  <2>3. CASE LinkExpires(b)
    BY <2>3 DEF LinkExpires
  <2>4. CASE RetentionEnds(b)
    BY <2>4 DEF RetentionEnds
  <2>5. QED
    BY <1>1, <2>1, <2>2, <2>3, <2>4
<1>2. ASSUME NEW b, art' = GoneRow(b) PROVE art'[a].path # "none"
  BY <1>2 DEF GoneRow
<1>3. ASSUME NEW b \in Captured, Register(b) \/ SetBlob(b) PROVE art'[a].path # "none"
  <2>1. CASE Register(b)
    BY <1>0, <2>1 DEF Register
  <2>2. CASE SetBlob(b)
    BY <2>2 DEF SetBlob
  <2>3. QED
    BY <1>3, <2>1, <2>2
<1>4. ASSUME NEW u \in Upload, Accept(u) PROVE art'[a].path # "none"
  BY <1>4 DEF Accept
<1>5. ASSUME NEW x, DeleteRow(x) PROVE art'[a].path # "none"
  BY <1>2, <1>5 DEF DeleteRow
<1>6. ASSUME NEW b \in Artifact, DeleteArtifact(b) PROVE art'[a].path # "none"
  BY <1>2, <1>6 DEF DeleteArtifact
<1>7. ASSUME UNCHANGED art PROVE art'[a].path # "none"
  BY <1>7
<1>8. ASSUME NEW u \in Upload, \/ ReceiveChunk(u) \/ RejectAndUnlink(u) \/ RejectAndLeave(u)
                               \/ \E b \in Artifact : BeginUpload(u, b)
      PROVE  UNCHANGED art
  BY <1>8 DEF ReceiveChunk, RejectAndUnlink, RejectAndLeave, BeginUpload
<1>9. ASSUME NEW x, Unlink(x) \/ FinishLoop(x) PROVE UNCHANGED art
  BY <1>9 DEF Unlink, FinishLoop
<1>10. ASSUME \/ BeginSession \/ BeginPurge \/ BeginSweep \/ ApiCrash \/ WorkerCrash
              \/ UNCHANGED vars \/ \E b \in Captured : Capture(b)
       PROVE  UNCHANGED art
  BY <1>10 DEF BeginSession, BeginPurge, BeginSweep, List, ApiCrash, WorkerCrash, vars, Capture
<1>11. QED
  BY <1>1, <1>3, <1>4, <1>5, <1>6, <1>7, <1>8, <1>9, <1>10
     DEF Next, ApiStep, WorkerStep, TimePasses, LoopStep

\* Which steps touch the loops, and what they do to them.
LEMMA LoopSteps ==
  ASSUME TypeOK, [Next]_vars
  PROVE  \/ UNCHANGED clean
         \/ \E x \in Process, kind \in {"purge", "sweep", "session"} : \E todo :
              /\ clean[x].pc = "idle" /\ \A e \in todo : Live(e[1])
              /\ clean' = [clean EXCEPT ![x] = [pc |-> kind, todo |-> todo, pending |-> {}]]
         \/ \E x \in Process : DeleteRow(x) \/ Unlink(x) \/ FinishLoop(x)
         \/ \E x \in Process : crashes' = crashes + 1 /\ clean' = [clean EXCEPT ![x] = Idle]
<1> USE DEF uploadVars, workerVars, Process
<1>1. ASSUME NEW a \in Artifact,
             \/ CreateArtifact(a) \/ Presign(a) \/ DeleteArtifact(a)
             \/ LinkExpires(a) \/ RetentionEnds(a)
      PROVE  UNCHANGED clean
  BY <1>1 DEF CreateArtifact, Presign, DeleteArtifact, LinkExpires, RetentionEnds
<1>2. ASSUME NEW a \in Captured, Capture(a) \/ Register(a) \/ SetBlob(a)
      PROVE  UNCHANGED clean
  BY <1>2 DEF Capture, Register, SetBlob
<1>3. ASSUME NEW u \in Upload, \/ ReceiveChunk(u) \/ Accept(u)
                               \/ RejectAndUnlink(u) \/ RejectAndLeave(u)
                               \/ \E a \in Artifact : BeginUpload(u, a)
      PROVE  UNCHANGED clean
  BY <1>3 DEF ReceiveChunk, Accept, RejectAndUnlink, RejectAndLeave, BeginUpload
<1>4. ASSUME BeginSession \/ BeginPurge \/ BeginSweep
      PROVE  \E x \in Process, kind \in {"purge", "sweep", "session"} : \E todo :
               /\ clean[x].pc = "idle" /\ \A e \in todo : Live(e[1])
               /\ clean' = [clean EXCEPT ![x] = [pc |-> kind, todo |-> todo, pending |-> {}]]
  <2>1. \E x \in Process, kind \in {"purge", "sweep", "session"} : \E A : List(x, kind, A)
    BY <1>4 DEF BeginSession, BeginPurge, BeginSweep
  <2> PICK x \in Process, kind \in {"purge", "sweep", "session"} : \E A : List(x, kind, A)
    BY <2>1
  <2> PICK A : List(x, kind, A)
    OBVIOUS
  <2>2. PICK todo \in Listings(A) :
          clean' = [clean EXCEPT ![x] = [pc |-> kind, todo |-> todo, pending |-> {}]]
    BY DEF List
  <2>3. \A e \in todo : Live(e[1])
    BY ListingsTypes
  <2>4. QED
    BY <2>2, <2>3 DEF List
<1>5. ASSUME ApiCrash \/ WorkerCrash
      PROVE  \E x \in Process : crashes' = crashes + 1 /\ clean' = [clean EXCEPT ![x] = Idle]
  BY <1>5 DEF ApiCrash, WorkerCrash
<1>6. ASSUME UNCHANGED vars PROVE UNCHANGED clean
  BY <1>6 DEF vars
<1>7. QED
  BY <1>1, <1>2, <1>3, <1>4, <1>5, <1>6 DEF Next, ApiStep, WorkerStep, TimePasses, LoopStep

\* A row and its file leave a loop one after the other.
LEMMA DeleteRowStep ==
  ASSUME TypeOK, NEW x \in Process, DeleteRow(x)
  PROVE  /\ clean[x].pending = {} /\ clean[x].todo # {}
         /\ \E e \in clean[x].todo :
              /\ art' = GoneRow(e[1])
              /\ clean'[x].pending = {e}
              /\ Live(e[1]) /\ art[e[1]].path # e[2] => e[1] \in missed'
         /\ clean'[x].pc = clean[x].pc
         /\ \A y \in Process \ {x} : clean'[y] = clean[y]
<1>1. clean[x] \in Loop
  BY DEF TypeOK
<1>2. PICK e \in clean[x].todo :
        /\ art' = GoneRow(e[1])
        /\ clean' = [clean EXCEPT ![x].todo = @ \ {e}, ![x].pending = {e}]
        /\ missed' = IF Live(e[1]) /\ art[e[1]].path # e[2] THEN missed \cup {e[1]} ELSE missed
  BY DEF DeleteRow
<1>3. clean'[x].pending = {e} /\ clean'[x].pc = clean[x].pc
  BY <1>1, <1>2 DEF TypeOK, Loop
<1>4. \A y \in Process \ {x} : clean'[y] = clean[y]
  BY <1>2 DEF TypeOK
<1>5. QED
  BY <1>2, <1>3, <1>4 DEF DeleteRow

--------------------------------------------------------------------------------
(* What a row promises is served *)

\* An upload goes to an artifact that has, or had, a row; what it opened is the file
\* of that artifact.
InodesAreOwned ==
  \A u \in Upload : up[u].pc # "idle" =>
    /\ up[u].target \in Artifact /\ art[up[u].target].state # "none"
    /\ up[u].inode \in Upload
    /\ up[up[u].inode].pc # "idle" /\ up[up[u].inode].target = up[u].target

FilesAreOwned ==
  \A a \in Artifact : dir[a] # NoFile => up[dir[a]].pc # "idle" /\ up[dir[a]].target = a

\* Who opened a file last, and shared it with nobody, is the only one at it.
Alone ==
  \A u \in Upload :
    up[u].pc # "idle" /\ u \notin shared /\ opener[up[u].target] = u =>
      \A v \in Upload \ {u} : ~(Writing(v) /\ up[v].target = up[u].target)

\* A captured file is there until its row is deleted.
CapturesAreKept ==
  \A a \in Captured :
    /\ reg[a] = "file" => art[a].state = "none" /\ work[a]
    /\ reg[a] = "created" /\ Live(a) => work[a]

\* Loops remove the files of rows that have been, and their rows first.
LoopsDeleteFirst ==
  \A x \in Process :
    /\ \A e \in clean[x].todo : art[e[1]].state # "none"
    /\ \A e \in clean[x].pending : art[e[1]].state = "gone"

\* What the pointer of a live row stands for.
PointersAreEarned ==
  \A a \in Artifact :
    /\ art[a].state = "none" => art[a].path = "none"
    /\ Live(a) /\ art[a].path = "work" => a \in Captured /\ work[a]
    /\ Live(a) /\ art[a].path = "objects" => /\ art[a].sum \in Upload
                                             /\ up[art[a].sum].pc = "accepted"
                                             /\ up[art[a].sum].target = a

AcceptedIsFlushed == \A u \in Upload : up[u].pc = "accepted" => up[u].flushed = up[u].sent

\* While an upload is alone at the file of a live row, the file is what it flushed.
IsFlushed(u) ==
  /\ up[u].pc \in {"writing", "accepted"} /\ u \notin shared
  /\ opener[up[u].target] = u /\ Live(up[u].target)
  => /\ dir[up[u].target] = up[u].inode
     /\ data[up[u].inode] = [i \in 1 .. up[u].flushed |-> u]

FileIsFlushed == \A u \in Upload : IsFlushed(u)

ServedInv ==
  /\ InodesAreOwned /\ FilesAreOwned /\ Alone /\ CapturesAreKept /\ LoopsDeleteFirst
  /\ PointersAreEarned /\ AcceptedIsFlushed /\ FileIsFlushed

\* It serves what is promised.
LEMMA ServedInvSuffices == TypeOK /\ ServedInv => BlobIsServed
<1> SUFFICES ASSUME TypeOK, ServedInv, NEW a \in Artifact, Live(a)
             PROVE  /\ art[a].path = "work" => work[a]
                    /\ art[a].path = "objects" /\ opener[a] = art[a].sum
                       /\ art[a].sum \notin shared =>
                         dir[a] # NoFile /\ data[dir[a]] = Body(art[a].sum)
  BY DEF BlobIsServed
<1> USE DEF ServedInv
<1>1. art[a].path = "work" => work[a]
  BY DEF PointersAreEarned
<1>2. ASSUME art[a].path = "objects", opener[a] = art[a].sum, art[a].sum \notin shared
      PROVE  dir[a] # NoFile /\ data[dir[a]] = Body(art[a].sum)
  <2> DEFINE u == art[a].sum
  <2>1. u \in Upload /\ up[u].pc = "accepted" /\ up[u].target = a
    BY <1>2 DEF PointersAreEarned
  <2>2. dir[a] = up[u].inode /\ data[up[u].inode] = [i \in 1 .. up[u].flushed |-> u]
    BY <1>2, <2>1 DEF FileIsFlushed, IsFlushed
  <2>3. up[u].flushed = up[u].sent /\ up[u].inode \in Upload
    BY <2>1 DEF AcceptedIsFlushed, InodesAreOwned
  <2>4. QED
    BY <2>2, <2>3, Constants DEF Body
<1>3. QED
  BY <1>1, <1>2

\* What beginning an upload does.
LEMMA BeginStep ==
  ASSUME TypeOK, NEW u \in Upload, NEW a \in Artifact, BeginUpload(u, a)
  PROVE  /\ up[u].pc = "idle" /\ Live(a)
         /\ up'[u].pc = "writing" /\ up'[u].target = a /\ up'[u].inode = dir'[a]
         /\ up'[u].sent = 0 /\ up'[u].flushed = 0
         /\ \A v \in Upload \ {u} : up'[v] = up[v]
         /\ dir'[a] = IF dir[a] = NoFile THEN u ELSE dir[a]
         /\ \A b \in Artifact \ {a} : dir'[b] = dir[b] /\ opener'[b] = opener[b]
         /\ opener'[a] = u
         /\ \A w \in Upload : data'[w] = IF w = dir'[a] THEN <<>> ELSE data[w]
         /\ UNCHANGED <<art, work, reg, clean>>
<1>1. up' = [up EXCEPT ![u] = [pc |-> "writing", target |-> a, inode |-> dir'[a],
                              sent |-> 0, flushed |-> 0]]
  BY DEF BeginUpload
<1>2. dir'[a] = IF dir[a] = NoFile THEN u ELSE dir[a]
  BY DEF BeginUpload, TypeOK
<1>3. \A b \in Artifact \ {a} : dir'[b] = dir[b] /\ opener'[b] = opener[b]
  BY DEF BeginUpload, TypeOK
<1>4. \A w \in Upload : data'[w] = IF w = dir'[a] THEN <<>> ELSE data[w]
  BY <1>2 DEF BeginUpload, Truncated, TypeOK
<1>5. opener'[a] = u /\ up[u].pc = "idle" /\ Live(a)
  BY DEF BeginUpload, TypeOK
<1>6. UNCHANGED <<art, work, reg, clean>>
  BY DEF BeginUpload, workerVars
<1>7. QED
  BY <1>1, <1>2, <1>3, <1>4, <1>5, <1>6 DEF TypeOK

\* An upload that has begun stays at its artifact and its file.
LEMMA UploadKept ==
  ASSUME TypeOK, [Next]_vars, NEW u \in Upload, up[u].pc # "idle"
  PROVE  /\ up'[u].pc # "idle" /\ up'[u].target = up[u].target /\ up'[u].inode = up[u].inode
         /\ Writing(u)' => Writing(u)
         /\ up[u].pc = "accepted" => up'[u] = up[u]
         /\ up'[u].pc = "accepted" => \/ up[u].pc = "accepted"
                                      \/ Accept(u) /\ up'[u].flushed = up'[u].sent
<1> USE DEF Writing
<1>1. up[u] \in UploadState
  BY DEF TypeOK
<1>2. CASE UNCHANGED uploadVars
  BY <1>2 DEF uploadVars
<1>3. ASSUME NEW v \in Upload, NEW a \in Artifact, BeginUpload(v, a) PROVE up'[u] = up[u]
  BY <1>3, BeginStep
<1>4. ASSUME NEW v \in Upload, v # u,
             ReceiveChunk(v) \/ Accept(v) \/ RejectAndUnlink(v) \/ RejectAndLeave(v)
      PROVE  up'[u] = up[u]
  <2>1. ReceiveChunk(v) \/ \E result : Close(v, result)
    BY <1>4 DEF Accept, RejectAndUnlink, RejectAndLeave
  <2>2. CASE ReceiveChunk(v)
    <3>1. \A w \in Upload \ {v} : up'[w] = up[w]
      BY <2>2, ReceiveStep
    <3>2. QED
      BY <1>4, <3>1
  <2>3. ASSUME NEW result, Close(v, result) PROVE up'[u] = up[u]
    <3>1. \A w \in Upload \ {v} : up'[w] = up[w]
      BY <2>3, CloseStep
    <3>2. QED
      BY <1>4, <3>1
  <2>4. QED
    BY <2>1, <2>2, <2>3
<1>5. CASE ReceiveChunk(u)
  <2>1. PICK n : up'[u] = [up[u] EXCEPT !.sent = @ + 1, !.flushed = n]
    BY <1>5, ReceiveStep
  <2>2. up'[u].inode = up[u].inode
    BY <1>1, <2>1 DEF UploadState
  <2>3. QED
    BY <1>5, <2>2, ReceiveStep
<1>6. ASSUME NEW result, Close(u, result)
      PROVE  /\ Writing(u) /\ up'[u].pc = result /\ up'[u].target = up[u].target
             /\ up'[u].inode = up[u].inode /\ up'[u].flushed = up'[u].sent
  <2>1. up'[u] = [up[u] EXCEPT !.pc = result, !.flushed = up[u].sent]
    BY <1>6, CloseStep
  <2>2. up'[u].inode = up[u].inode /\ up'[u].flushed = up'[u].sent
    BY <1>1, <2>1 DEF UploadState
  <2>3. QED
    BY <1>6, <2>2, CloseStep
<1>7. CASE Accept(u)
  BY <1>6, <1>7 DEF Accept
<1>8. CASE RejectAndUnlink(u) \/ RejectAndLeave(u)
  BY <1>6, <1>8 DEF RejectAndUnlink, RejectAndLeave
<1>9. CASE ApiCrash
  <2>1. up'[u] = IF Writing(u) THEN [up[u] EXCEPT !.pc = "cut"] ELSE up[u]
    BY <1>9 DEF ApiCrash
  <2>2. QED
    BY <1>1, <2>1 DEF UploadState
<1>10. QED
  BY <1>2, <1>3, <1>4, <1>5, <1>7, <1>8, <1>9, UploadSteps

\* One that has not is begun by a request.
LEMMA UploadBegins ==
  ASSUME TypeOK, [Next]_vars, NEW u \in Upload, up[u].pc = "idle", up'[u].pc # "idle"
  PROVE  \E a \in Artifact : BeginUpload(u, a)
<1> USE DEF Writing
<1>1. CASE UNCHANGED uploadVars
  BY <1>1 DEF uploadVars
<1>2. ASSUME NEW v \in Upload,
             ReceiveChunk(v) \/ Accept(v) \/ RejectAndUnlink(v) \/ RejectAndLeave(v)
      PROVE  up'[u] = up[u]
  BY <1>2, ReceiveStep, CloseStep DEF Accept, RejectAndUnlink, RejectAndLeave
<1>3. CASE ApiCrash
  BY <1>3, CrashStep
<1>4. ASSUME NEW v \in Upload, v # u, NEW a \in Artifact, BeginUpload(v, a) PROVE FALSE
  BY <1>4, BeginStep
<1>5. QED
  BY <1>1, <1>2, <1>3, <1>4, UploadSteps

\* What may happen to a row.
LEMMA RowSteps ==
  ASSUME TypeOK, [Next]_vars, NEW a \in Artifact
  PROVE  \/ /\ art'[a].state = art[a].state /\ art'[a].path = art[a].path
            /\ art'[a].sum = art[a].sum
         \/ /\ art'[a].state = "live" /\ art'[a].path = art[a].path
            /\ art'[a].sum = art[a].sum
            /\ CreateArtifact(a) \/ (a \in Captured /\ Register(a))
         \/ /\ Live(a) /\ art'[a].state = "gone"
            /\ DeleteArtifact(a) \/ \E x \in Process : DeleteRow(x)
         \/ /\ Live(a) /\ art'[a].state = "live" /\ art'[a].path = "objects"
            /\ \E u \in Upload : Accept(u) /\ up[u].target = a /\ art'[a].sum = u
         \/ /\ Live(a) /\ art'[a].state = "live" /\ art'[a].path = "work"
            /\ a \in Captured /\ SetBlob(a)
<1> DEFINE Same == /\ art'[a].state = art[a].state /\ art'[a].path = art[a].path
                   /\ art'[a].sum = art[a].sum
<1> USE DEF TypeOK, Row
<1>1. ASSUME NEW b \in Artifact, Presign(b) \/ LinkExpires(b) \/ RetentionEnds(b) PROVE Same
  <2>1. CASE Presign(b)
    BY <2>1 DEF Presign
  <2>2. CASE LinkExpires(b)
    BY <2>2 DEF LinkExpires
  <2>3. CASE RetentionEnds(b)
    BY <2>3 DEF RetentionEnds
  <2>4. QED
    BY <1>1, <2>1, <2>2, <2>3
<1>2. ASSUME NEW b, CreateRow(b)
      PROVE  \/ Same
             \/ /\ b = a /\ art'[a].state = "live" /\ art'[a].path = art[a].path
                /\ art'[a].sum = art[a].sum
  BY <1>2 DEF CreateRow
<1>3. ASSUME NEW b, art' = GoneRow(b)
      PROVE  Same \/ (b = a /\ Live(a) /\ art'[a].state = "gone")
  BY <1>3 DEF GoneRow, Live
<1>4. ASSUME NEW b \in Artifact, DeleteArtifact(b)
      PROVE  Same \/ (Live(a) /\ art'[a].state = "gone" /\ DeleteArtifact(a))
  BY <1>3, <1>4 DEF DeleteArtifact
<1>5. ASSUME NEW x \in Process, DeleteRow(x)
      PROVE  Same \/ (Live(a) /\ art'[a].state = "gone")
  BY <1>3, <1>5 DEF DeleteRow
<1>6. ASSUME NEW b \in Captured, SetBlob(b)
      PROVE  \/ Same
             \/ /\ Live(a) /\ art'[a].state = "live" /\ art'[a].path = "work" /\ b = a
  BY <1>6 DEF SetBlob, Live
<1>7. ASSUME NEW u \in Upload, Accept(u)
      PROVE  \/ Same
             \/ /\ Live(a) /\ art'[a].state = "live" /\ art'[a].path = "objects"
                /\ up[u].target = a /\ art'[a].sum = u
  BY <1>7 DEF Accept, Live
<1>8. ASSUME NEW u \in Upload, \/ ReceiveChunk(u) \/ RejectAndUnlink(u) \/ RejectAndLeave(u)
                               \/ \E b \in Artifact : BeginUpload(u, b)
      PROVE  Same
  BY <1>8 DEF ReceiveChunk, RejectAndUnlink, RejectAndLeave, BeginUpload
<1>9. ASSUME NEW x, Unlink(x) \/ FinishLoop(x) PROVE Same
  BY <1>9 DEF Unlink, FinishLoop
<1>10. ASSUME \/ BeginSession \/ BeginPurge \/ BeginSweep \/ ApiCrash \/ WorkerCrash
              \/ UNCHANGED vars \/ \E b \in Captured : Capture(b)
       PROVE  Same
  BY <1>10 DEF BeginSession, BeginPurge, BeginSweep, List, ApiCrash, WorkerCrash, vars, Capture
<1>11. ASSUME NEW b \in Artifact, CreateArtifact(b)
       PROVE  \/ Same
              \/ /\ b = a /\ art'[a].state = "live" /\ art'[a].path = art[a].path
                 /\ art'[a].sum = art[a].sum
  BY <1>2, <1>11 DEF CreateArtifact
<1>12. ASSUME NEW b \in Captured, Register(b)
       PROVE  \/ Same
              \/ /\ b = a /\ art'[a].state = "live" /\ art'[a].path = art[a].path
                 /\ art'[a].sum = art[a].sum
  BY <1>2, <1>12 DEF Register
<1> HIDE DEF Same
<1>13. CASE ApiStep
  BY <1>1, <1>4, <1>5, <1>7, <1>8, <1>9, <1>10, <1>11, <1>13 DEF ApiStep, LoopStep, Process, Same
<1>14. CASE WorkerStep
  BY <1>5, <1>6, <1>9, <1>10, <1>12, <1>14 DEF WorkerStep, LoopStep, Process, Same
<1>15. CASE TimePasses
  BY <1>1, <1>15 DEF TimePasses, Same
<1>16. QED
  BY <1>10, <1>13, <1>14, <1>15 DEF Next, Same

\* What may happen to the registration of a captured file, and to that file.
LEMMA CaptureSteps ==
  ASSUME TypeOK, [Next]_vars, NEW a \in Captured
  PROVE  /\ \/ reg'[a] = reg[a] \/ (reg'[a] = "lost" /\ crashes' = crashes + 1)
            \/ reg'[a] = "file" /\ art[a].state = "none" /\ UNCHANGED art /\ work'[a]
            \/ reg'[a] = "created" /\ reg[a] = "file" /\ UNCHANGED work
            \/ reg'[a] = "done"
         /\ \/ work'[a] = work[a]
            \/ work'[a] = TRUE /\ reg'[a] = "file" /\ art[a].state = "none"
            \/ work'[a] = FALSE /\ Live(a) /\ DeleteArtifact(a)
            \/ /\ work'[a] = FALSE
               /\ \E x \in Process : UNCHANGED art /\ \E e \in clean[x].pending : e[1] = a
<1> DEFINE SameReg == reg'[a] = reg[a]
<1> DEFINE SameWork == work'[a] = work[a]
<1> USE Constants DEF TypeOK, uploadVars, workerVars
<1>1. ASSUME NEW b, NEW p, Remove(b, p) PROVE SameWork \/ (b = a /\ work'[a] = FALSE)
  BY <1>1 DEF Remove
<1>2. ASSUME NEW b \in Captured, Capture(b)
      PROVE  /\ SameReg \/ (reg'[a] = "file" /\ art[a].state = "none" /\ UNCHANGED art /\ work'[a])
             /\ SameWork \/ (work'[a] = TRUE /\ reg'[a] = "file" /\ art[a].state = "none")
  BY <1>2 DEF Capture
<1>3. ASSUME NEW b \in Captured, Register(b)
      PROVE  /\ SameReg \/ (reg'[a] = "created" /\ reg[a] = "file" /\ UNCHANGED work)
             /\ SameWork
  BY <1>3 DEF Register
<1>4. ASSUME NEW b \in Captured, SetBlob(b) PROVE (SameReg \/ reg'[a] = "done") /\ SameWork
  BY <1>4 DEF SetBlob
<1>5. ASSUME NEW b \in Artifact, DeleteArtifact(b)
      PROVE  SameReg /\ (SameWork \/ (work'[a] = FALSE /\ Live(a) /\ DeleteArtifact(a)))
  BY <1>1, <1>5 DEF DeleteArtifact
<1>6. ASSUME NEW x \in Process, Unlink(x)
      PROVE  /\ SameReg
             /\ \/ SameWork
                \/ work'[a] = FALSE /\ UNCHANGED art /\ \E e \in clean[x].pending : e[1] = a
  <2>1. SameReg /\ UNCHANGED art
    BY <1>6 DEF Unlink
  <2>2. PICK e \in clean[x].pending : Remove(e[1], e[2])
    BY <1>6 DEF Unlink
  <2>3. SameWork \/ (e[1] = a /\ work'[a] = FALSE)
    BY <1>1, <2>2
  <2> HIDE DEF SameReg, SameWork, TypeOK
  <2>4. QED
    BY <2>1, <2>2, <2>3
<1>7. ASSUME WorkerCrash
      PROVE  (SameReg \/ (reg'[a] = "lost" /\ crashes' = crashes + 1)) /\ SameWork
  BY <1>7 DEF WorkerCrash
<1>8. ASSUME NEW b \in Artifact,
             CreateArtifact(b) \/ Presign(b) \/ LinkExpires(b) \/ RetentionEnds(b)
      PROVE  SameReg /\ SameWork
  BY <1>8 DEF CreateArtifact, Presign, LinkExpires, RetentionEnds
<1>9. ASSUME NEW u \in Upload, \/ ReceiveChunk(u) \/ Accept(u)
                               \/ RejectAndUnlink(u) \/ RejectAndLeave(u)
                               \/ \E b \in Artifact : BeginUpload(u, b)
      PROVE  SameReg /\ SameWork
  BY <1>9 DEF ReceiveChunk, Accept, RejectAndUnlink, RejectAndLeave, BeginUpload
<1>10. ASSUME NEW x, DeleteRow(x) \/ FinishLoop(x) PROVE SameReg /\ SameWork
  BY <1>10 DEF DeleteRow, FinishLoop
<1>11. ASSUME BeginSession \/ BeginPurge \/ BeginSweep \/ ApiCrash \/ UNCHANGED vars
       PROVE  SameReg /\ SameWork
  BY <1>11 DEF BeginSession, BeginPurge, BeginSweep, List, ApiCrash, vars
<1> HIDE DEF SameReg, SameWork
<1>12. CASE ApiStep
  BY <1>5, <1>6, <1>8, <1>9, <1>10, <1>11, <1>12 DEF ApiStep, LoopStep, Process, SameReg, SameWork
<1>13. CASE WorkerStep
  BY <1>2, <1>3, <1>4, <1>6, <1>10, <1>11, <1>13
     DEF WorkerStep, LoopStep, Process, SameReg, SameWork
<1>14. CASE TimePasses
  BY <1>8, <1>14 DEF TimePasses, SameReg, SameWork
<1>15. QED
  BY <1>7, <1>11, <1>12, <1>13, <1>14 DEF Next, SameReg, SameWork

\* What may happen to the file of an artifact.
LEMMA FileSteps ==
  ASSUME TypeOK, [Next]_vars, NEW a \in Artifact
  PROVE  \/ dir'[a] = dir[a]
         \/ \E u \in Upload : BeginUpload(u, a)
         \/ /\ dir'[a] = NoFile
            /\ \/ DeleteArtifact(a)
               \/ UNCHANGED art /\ \E x \in Process : \E e \in clean[x].pending : e[1] = a
               \/ \E u \in Upload : RejectAndUnlink(u) /\ up[u].target = a
<1> DEFINE Same == dir'[a] = dir[a]
<1> USE DEF TypeOK, uploadVars, workerVars
<1>1. ASSUME NEW b, NEW p, Remove(b, p) PROVE Same \/ (b = a /\ dir'[a] = NoFile)
  BY <1>1 DEF Remove
<1>2. ASSUME NEW b \in Artifact, DeleteArtifact(b)
      PROVE  Same \/ (dir'[a] = NoFile /\ DeleteArtifact(a))
  BY <1>1, <1>2 DEF DeleteArtifact
<1>3. ASSUME NEW x \in Process, Unlink(x)
      PROVE  \/ Same
             \/ dir'[a] = NoFile /\ UNCHANGED art /\ \E e \in clean[x].pending : e[1] = a
  BY <1>1, <1>3 DEF Unlink
<1>4. ASSUME NEW u \in Upload, RejectAndUnlink(u)
      PROVE  Same \/ (dir'[a] = NoFile /\ up[u].target = a)
  BY <1>4 DEF RejectAndUnlink
<1>5. ASSUME NEW u \in Upload, NEW b \in Artifact, BeginUpload(u, b)
      PROVE  Same \/ BeginUpload(u, a)
  BY <1>5, BeginStep
<1>6. ASSUME NEW b \in Artifact,
             CreateArtifact(b) \/ Presign(b) \/ LinkExpires(b) \/ RetentionEnds(b)
      PROVE  Same
  BY <1>6 DEF CreateArtifact, Presign, LinkExpires, RetentionEnds
<1>7. ASSUME NEW u \in Upload, ReceiveChunk(u) \/ Accept(u) \/ RejectAndLeave(u) PROVE Same
  BY <1>7 DEF ReceiveChunk, Accept, RejectAndLeave
<1>8. ASSUME NEW b \in Captured, Capture(b) \/ Register(b) \/ SetBlob(b) PROVE Same
  BY <1>8 DEF Capture, Register, SetBlob
<1>9. ASSUME NEW x, DeleteRow(x) \/ FinishLoop(x) PROVE Same
  BY <1>9 DEF DeleteRow, FinishLoop
<1>10. ASSUME \/ BeginSession \/ BeginPurge \/ BeginSweep \/ ApiCrash \/ WorkerCrash
              \/ UNCHANGED vars
       PROVE  Same
  BY <1>10 DEF BeginSession, BeginPurge, BeginSweep, List, ApiCrash, WorkerCrash, vars
<1> HIDE DEF Same
<1>11. CASE ApiStep
  BY <1>2, <1>3, <1>4, <1>5, <1>6, <1>7, <1>9, <1>10, <1>11 DEF ApiStep, LoopStep, Process, Same
<1>12. CASE WorkerStep
  BY <1>3, <1>8, <1>9, <1>10, <1>12 DEF WorkerStep, LoopStep, Process, Same
<1>13. CASE TimePasses
  BY <1>6, <1>13 DEF TimePasses, Same
<1>14. QED
  BY <1>10, <1>11, <1>12, <1>13 DEF Next, Same

\* Only a new upload becomes the last to have opened a file; sharing is remembered.
LEMMA OpenerSteps ==
  ASSUME TypeOK, [Next]_vars
  PROVE  /\ shared \subseteq shared'
         /\ \A a \in Artifact : opener'[a] = opener[a] \/ \E u \in Upload : BeginUpload(u, a)
<1> USE DEF uploadVars
<1>1. CASE UNCHANGED uploadVars
  BY <1>1
<1>2. ASSUME NEW u \in Upload, NEW a \in Artifact, BeginUpload(u, a)
      PROVE  /\ shared \subseteq shared'
             /\ \A b \in Artifact : opener'[b] = opener[b] \/ BeginUpload(u, b)
  <2>1. shared \subseteq shared'
    BY <1>2 DEF BeginUpload
  <2>2. QED
    BY <1>2, <2>1, BeginStep
<1>3. ASSUME NEW u \in Upload,
             ReceiveChunk(u) \/ Accept(u) \/ RejectAndUnlink(u) \/ RejectAndLeave(u)
      PROVE  UNCHANGED <<opener, shared>>
  BY <1>3 DEF ReceiveChunk, Accept, RejectAndUnlink, RejectAndLeave
<1>4. CASE ApiCrash
  BY <1>4 DEF ApiCrash
<1>5. QED
  BY <1>1, <1>2, <1>3, <1>4, UploadSteps

\* A deleted row is gone: DeleteArtifact leaves none.
LEMMA DeleteArtifactGone ==
  ASSUME TypeOK, NEW a \in Artifact, DeleteArtifact(a)
  PROVE  ~Live(a)'
BY DEF DeleteArtifact, GoneRow, Live, TypeOK, Row

\* A row is made once.
LEMMA RowsMadeOnce ==
  ASSUME TypeOK, CapturesAreKept, NEW a \in Artifact,
         CreateArtifact(a) \/ (a \in Captured /\ Register(a))
  PROVE  art[a].state = "none"
BY DEF CreateArtifact, Register, CapturesAreKept

\* So a row that has gone stays gone, and one that has been does not vanish.
LEMMA StatesAdvance ==
  ASSUME TypeOK, CapturesAreKept, [Next]_vars, NEW a \in Artifact
  PROVE  /\ art[a].state = "gone" => art'[a].state = "gone"
         /\ art[a].state # "none" => art'[a].state # "none"
         /\ art[a].state # "none" /\ Live(a)' => Live(a)
BY RowSteps, RowsMadeOnce DEF Live

\* Captured files are kept.
LEMMA CapturesStep ==
  ASSUME TypeOK, CapturesAreKept, LoopsDeleteFirst, [Next]_vars
  PROVE  CapturesAreKept'
<1> SUFFICES ASSUME NEW a \in Captured
             PROVE  /\ reg'[a] = "file" => art'[a].state = "none" /\ work'[a]
                    /\ reg'[a] = "created" /\ Live(a)' => work'[a]
  BY DEF CapturesAreKept
<1>1. a \in Artifact
  BY Constants
<1>2. ASSUME NEW x \in Process, NEW e \in clean[x].pending, e[1] = a PROVE art[a].state = "gone"
  BY <1>2 DEF LoopsDeleteFirst
<1>3. ASSUME reg[a] = "file", reg'[a] = "file" PROVE art'[a].state = "none" /\ work'[a]
  <2>1. art[a].state = "none" /\ work[a]
    BY <1>3 DEF CapturesAreKept
  <2>2. ~CreateArtifact(a) /\ ~Register(a)
    BY <1>1, <1>3 DEF CreateArtifact, Register, TypeOK
  <2>3. art'[a].state = "none"
    BY <1>1, <2>1, <2>2, RowSteps DEF Live
  <2>4. work'[a]
    BY <1>2, <2>1, CaptureSteps DEF Live
  <2>5. QED
    BY <2>3, <2>4
<1>4. ASSUME reg[a] # "file", reg'[a] = "file" PROVE art'[a].state = "none" /\ work'[a]
  BY <1>4, CaptureSteps
<1>5. ASSUME reg[a] = "created", reg'[a] = "created", Live(a)' PROVE work'[a]
  <2>1. ~CreateArtifact(a) /\ ~Register(a)
    BY <1>5 DEF CreateArtifact, Register
  <2>2. Live(a)
    BY <1>1, <1>5, <2>1, RowSteps DEF Live
  <2>3. work[a]
    BY <1>5, <2>2 DEF CapturesAreKept
  <2>4. ~DeleteArtifact(a)
    BY <1>1, <1>5, DeleteArtifactGone
  <2>5. QED
    BY <1>2, <2>2, <2>3, <2>4, CaptureSteps DEF Live
<1>6. ASSUME reg[a] # "created", reg'[a] = "created" PROVE work'[a]
  BY <1>6, CaptureSteps DEF CapturesAreKept
<1>7. QED
  BY <1>3, <1>4, <1>5, <1>6

\* Loops delete rows before files.
LEMMA LoopsStep ==
  ASSUME TypeOK, CapturesAreKept, LoopsDeleteFirst, [Next]_vars
  PROVE  LoopsDeleteFirst'
<1> USE DEF LoopsDeleteFirst
<1>1. \A x \in Process : clean[x] \in Loop
  BY DEF TypeOK
<1>2. ASSUME NEW x \in Process
      PROVE  /\ \A e \in clean[x].todo : art'[e[1]].state # "none"
             /\ \A e \in clean[x].pending : art'[e[1]].state = "gone"
  BY <1>1, StatesAdvance DEF Loop
<1>3. CASE UNCHANGED clean
  BY <1>2, <1>3
<1>4. ASSUME NEW x \in Process, NEW kind \in {"purge", "sweep", "session"}, NEW todo,
             \A e \in todo : Live(e[1]),
             clean' = [clean EXCEPT ![x] = [pc |-> kind, todo |-> todo, pending |-> {}]]
      PROVE  LoopsDeleteFirst'
  <2>1. clean'[x].todo = todo /\ clean'[x].pending = {}
    BY <1>4 DEF TypeOK
  <2>2. todo \subseteq Artifact \X Paths
    BY <2>1, NextTypeOK DEF TypeOK, Loop
  <2>3. \A e \in todo : art'[e[1]].state # "none"
    BY <1>4, <2>2, StatesAdvance DEF Live
  <2>4. \A y \in Process \ {x} : clean'[y] = clean[y]
    BY <1>4 DEF TypeOK
  <2>5. QED
    BY <1>2, <2>1, <2>3, <2>4
<1>5. ASSUME NEW x \in Process, DeleteRow(x) PROVE LoopsDeleteFirst'
  <2>1. PICK e \in clean[x].todo : art' = GoneRow(e[1]) /\ clean'[x].pending = {e}
    BY <1>5, DeleteRowStep
  <2>2. e[1] \in Artifact /\ art[e[1]].state # "none"
    BY <1>1 DEF Loop
  <2>3. art'[e[1]].state = "gone"
    BY <2>1, <2>2 DEF GoneRow, Live, TypeOK, Row
  <2>4. clean'[x].todo \subseteq clean[x].todo
    BY <1>1, <1>5 DEF DeleteRow, TypeOK, Loop
  <2>5. \A y \in Process \ {x} : clean'[y] = clean[y]
    BY <1>5, DeleteRowStep
  <2>6. QED
    BY <1>2, <2>1, <2>3, <2>4, <2>5
<1>6. ASSUME NEW x \in Process, Unlink(x) PROVE LoopsDeleteFirst'
  <2>1. clean'[x].todo = clean[x].todo /\ clean'[x].pending = {}
    BY <1>1, <1>6 DEF Unlink, TypeOK, Loop
  <2>2. \A y \in Process \ {x} : clean'[y] = clean[y]
    BY <1>6 DEF Unlink, TypeOK
  <2>3. QED
    BY <1>2, <2>1, <2>2
<1>7. ASSUME NEW x \in Process, clean' = [clean EXCEPT ![x] = Idle] PROVE LoopsDeleteFirst'
  <2>1. clean'[x].todo = {} /\ clean'[x].pending = {}
    BY <1>7 DEF TypeOK, Idle
  <2>2. \A y \in Process \ {x} : clean'[y] = clean[y]
    BY <1>7 DEF TypeOK
  <2>3. QED
    BY <1>2, <2>1, <2>2
<1>8. ASSUME NEW x \in Process, FinishLoop(x) PROVE LoopsDeleteFirst'
  BY <1>7, <1>8 DEF FinishLoop
<1>9. QED
  BY <1>3, <1>4, <1>5, <1>6, <1>7, <1>8, LoopSteps

\* Pointers stay earned.
LEMMA PointersStep ==
  ASSUME TypeOK, ServedInv, [Next]_vars
  PROVE  PointersAreEarned'
<1> USE DEF ServedInv
<1> SUFFICES ASSUME NEW a \in Artifact
             PROVE  /\ art'[a].state = "none" => art'[a].path = "none"
                    /\ Live(a)' /\ art'[a].path = "work" => a \in Captured /\ work'[a]
                    /\ Live(a)' /\ art'[a].path = "objects" =>
                         /\ art'[a].sum \in Upload
                         /\ up'[art'[a].sum].pc = "accepted"
                         /\ up'[art'[a].sum].target = a
  BY DEF PointersAreEarned
<1>0. /\ art[a].state = "none" => art[a].path = "none"
      /\ Live(a) /\ art[a].path = "work" => a \in Captured /\ work[a]
      /\ Live(a) /\ art[a].path = "objects" => /\ art[a].sum \in Upload
                                               /\ up[art[a].sum].pc = "accepted"
                                               /\ up[art[a].sum].target = a
  BY DEF PointersAreEarned
<1>1. CASE /\ art'[a].state = art[a].state /\ art'[a].path = art[a].path
           /\ art'[a].sum = art[a].sum
  <2>1. art'[a].state = "none" => art'[a].path = "none"
    BY <1>1 DEF PointersAreEarned
  <2>2. ASSUME Live(a)', art'[a].path = "work" PROVE a \in Captured /\ work'[a]
    <3>1. Live(a) /\ art[a].path = "work"
      BY <1>1, <2>2 DEF Live
    <3> HIDE DEF ServedInv
    <3>2. a \in Captured /\ work[a]
      BY <1>0, <3>1
    <3>3. ~DeleteArtifact(a)
      BY <2>2, DeleteArtifactGone
    <3>4. ASSUME NEW x \in Process, NEW e \in clean[x].pending, e[1] = a PROVE FALSE
      BY <3>1, <3>4 DEF ServedInv, LoopsDeleteFirst, Live
    <3>5. QED
      BY <3>2, <3>3, <3>4, CaptureSteps
  <2>3. ASSUME Live(a)', art'[a].path = "objects"
        PROVE  /\ art'[a].sum \in Upload
               /\ up'[art'[a].sum].pc = "accepted"
               /\ up'[art'[a].sum].target = a
    <3> HIDE DEF ServedInv
    <3>0. Live(a) /\ art[a].path = "objects"
      BY <1>1, <2>3 DEF Live
    <3>1. /\ art[a].sum \in Upload
          /\ up[art[a].sum].pc = "accepted" /\ up[art[a].sum].target = a
      BY <1>0, <3>0
    <3>2. up'[art[a].sum] = up[art[a].sum]
      BY <3>1, UploadKept
    <3>3. QED
      BY <1>1, <3>1, <3>2
  <2>4. QED
    BY <2>1, <2>2, <2>3
<1>2. CASE /\ art'[a].state = "live" /\ art'[a].path = art[a].path
           /\ CreateArtifact(a) \/ (a \in Captured /\ Register(a))
  <2>1. art[a].path = "none"
    BY <1>2, RowsMadeOnce DEF PointersAreEarned
  <2>2. QED
    BY <1>2, <2>1
<1>3. CASE art'[a].state = "gone"
  BY <1>3 DEF Live
<1>4. ASSUME NEW u \in Upload, Accept(u), up[u].target = a,
             art'[a].state = "live", art'[a].path = "objects", art'[a].sum = u
      PROVE  up'[u].pc = "accepted" /\ up'[u].target = a
  BY <1>4, CloseStep DEF Accept
<1>5. CASE /\ Live(a) /\ art'[a].state = "live" /\ art'[a].path = "work"
           /\ a \in Captured /\ SetBlob(a)
  BY <1>5 DEF SetBlob, CapturesAreKept
<1>6. QED
  BY <1>1, <1>2, <1>3, <1>4, <1>5, RowSteps

\* Uploads keep to the artifacts they opened.
LEMMA InodesStep ==
  ASSUME TypeOK, ServedInv, [Next]_vars
  PROVE  InodesAreOwned'
<1> USE DEF ServedInv
<1> SUFFICES ASSUME NEW u \in Upload, up'[u].pc # "idle"
             PROVE  /\ up'[u].target \in Artifact /\ art'[up'[u].target].state # "none"
                    /\ up'[u].inode \in Upload
                    /\ up'[up'[u].inode].pc # "idle"
                    /\ up'[up'[u].inode].target = up'[u].target
  BY DEF InodesAreOwned
<1>1. CASE up[u].pc # "idle"
  <2>1. up'[u].target = up[u].target /\ up'[u].inode = up[u].inode
    BY <1>1, UploadKept
  <2>2. /\ up[u].target \in Artifact /\ art[up[u].target].state # "none"
        /\ up[u].inode \in Upload
        /\ up[up[u].inode].pc # "idle" /\ up[up[u].inode].target = up[u].target
    BY <1>1 DEF InodesAreOwned
  <2>3. art'[up[u].target].state # "none"
    BY <2>2, StatesAdvance
  <2>4. up'[up[u].inode].pc # "idle" /\ up'[up[u].inode].target = up[u].target
    BY <2>2, UploadKept
  <2>5. QED
    BY <2>1, <2>2, <2>3, <2>4
<1>2. ASSUME up[u].pc = "idle", NEW a \in Artifact, BeginUpload(u, a)
      PROVE  /\ up'[u].target \in Artifact /\ art'[up'[u].target].state # "none"
             /\ up'[u].inode \in Upload
             /\ up'[up'[u].inode].pc # "idle" /\ up'[up'[u].inode].target = up'[u].target
  <2>1. /\ up'[u].target = a /\ Live(a) /\ UNCHANGED art
        /\ up'[u].inode = IF dir[a] = NoFile THEN u ELSE dir[a]
        /\ \A v \in Upload \ {u} : up'[v] = up[v]
    BY <1>2, BeginStep
  <2>2. CASE dir[a] = NoFile
    BY <2>1, <2>2 DEF Live
  <2>3. CASE dir[a] # NoFile
    <3>1. dir[a] \in Upload
      BY <2>3 DEF TypeOK
    <3>2. up[dir[a]].pc # "idle" /\ up[dir[a]].target = a
      BY <2>3 DEF FilesAreOwned
    <3>3. up'[dir[a]].pc # "idle" /\ up'[dir[a]].target = a
      BY <3>1, <3>2, UploadKept
    <3>4. QED
      BY <2>1, <2>3, <3>1, <3>3 DEF Live
  <2>4. QED
    BY <2>2, <2>3
<1>3. QED
  BY <1>1, <1>2, UploadBegins

\* A file belongs to the artifact it was made for.
LEMMA FilesStep ==
  ASSUME TypeOK, ServedInv, [Next]_vars
  PROVE  FilesAreOwned'
<1> USE DEF ServedInv
<1> SUFFICES ASSUME NEW a \in Artifact, dir'[a] # NoFile
             PROVE  up'[dir'[a]].pc # "idle" /\ up'[dir'[a]].target = a
  BY DEF FilesAreOwned
<1>1. ASSUME dir[a] # NoFile, dir'[a] = dir[a]
      PROVE  up'[dir'[a]].pc # "idle" /\ up'[dir'[a]].target = a
  <2>1. dir[a] \in Upload
    BY <1>1 DEF TypeOK
  <2>2. up[dir[a]].pc # "idle" /\ up[dir[a]].target = a
    BY <1>1 DEF FilesAreOwned
  <2>3. QED
    BY <1>1, <2>1, <2>2, UploadKept
<1>2. ASSUME NEW u \in Upload, BeginUpload(u, a), dir[a] = NoFile
      PROVE  up'[dir'[a]].pc # "idle" /\ up'[dir'[a]].target = a
  <2>1. dir'[a] = u /\ up'[u].pc = "writing" /\ up'[u].target = a
    BY <1>2, BeginStep
  <2>2. QED
    BY <2>1
<1>3. ASSUME NEW u \in Upload, BeginUpload(u, a), dir[a] # NoFile PROVE dir'[a] = dir[a]
  BY <1>3, BeginStep
<1>4. QED
  BY <1>1, <1>2, <1>3, FileSteps

\* An upload that was alone at its file stays so, unless another opens the file.
LEMMA AloneStep ==
  ASSUME TypeOK, ServedInv, [Next]_vars
  PROVE  Alone'
<1> USE DEF ServedInv
<1> SUFFICES ASSUME NEW u \in Upload, up'[u].pc # "idle", u \notin shared',
                    opener'[up'[u].target] = u,
                    NEW v \in Upload \ {u}, Writing(v)', up'[v].target = up'[u].target
             PROVE  FALSE
  BY DEF Alone
<1>1. ASSUME NEW a \in Artifact, BeginUpload(u, a) PROVE FALSE
  <2>1. up'[u].target = a /\ up'[v] = up[v]
    BY <1>1, BeginStep
  <2>2. Writing(v) /\ up[v].target = a
    BY <2>1 DEF Writing
  <2>3. u \in shared'
    BY <1>1, <2>2 DEF BeginUpload
  <2>4. QED
    BY <2>3
<1>2. CASE up[u].pc # "idle"
  <2>1. up'[u].target = up[u].target /\ up[u].target \in Artifact
    BY <1>2, UploadKept DEF InodesAreOwned
  <2>2. ASSUME NEW w \in Upload, BeginUpload(w, up[u].target) PROVE FALSE
    <3>1. opener'[up[u].target] = w /\ up[w].pc = "idle"
      BY <2>1, <2>2, BeginStep
    <3>2. QED
      BY <1>2, <2>1, <3>1
  <2>3. opener[up[u].target] = u /\ u \notin shared
    BY <2>1, <2>2, OpenerSteps
  <2>4. CASE up[v].pc = "idle"
    <3>1. PICK b \in Artifact : BeginUpload(v, b)
      BY <2>4, UploadBegins DEF Writing
    <3>2. b = up[u].target
      BY <2>1, <3>1, BeginStep
    <3>3. QED
      BY <2>2, <3>1, <3>2
  <2>5. CASE up[v].pc # "idle"
    <3>1. Writing(v) /\ up[v].target = up[u].target
      BY <2>1, <2>5, UploadKept
    <3>2. QED
      BY <1>2, <2>3, <3>1 DEF Alone
  <2>6. QED
    BY <2>4, <2>5
<1>3. QED
  BY <1>1, <1>2, UploadBegins

\* Accepting an upload flushes it.
LEMMA FlushedStep ==
  ASSUME TypeOK, AcceptedIsFlushed, [Next]_vars
  PROVE  AcceptedIsFlushed'
<1> SUFFICES ASSUME NEW u \in Upload, up'[u].pc = "accepted"
             PROVE  up'[u].flushed = up'[u].sent
  BY DEF AcceptedIsFlushed
<1>1. up[u].pc # "idle"
  BY UploadBegins, BeginStep
<1>2. QED
  BY <1>1, UploadKept DEF AcceptedIsFlushed

\* Flushing more of an upload to a file of its own chunks.
LEMMA PartExtends ==
  ASSUME NEW u, NEW from \in Nat, NEW to \in Nat, from <= to
  PROVE  Overwritten([i \in 1 .. from |-> u], u, from, to) = [i \in 1 .. to |-> u]
<1> DEFINE s == [i \in 1 .. from |-> u]
<1>1. Len(s) = from /\ \A i \in 1 .. from : s[i] = u
  OBVIOUS
<1>2. (IF from < to THEN Longer(Len(s), to) ELSE Len(s)) = to
  BY <1>1 DEF Longer
<1> HIDE DEF s
<1>3. \A i \in 1 .. to :
        (IF i \in from + 1 .. to THEN u ELSE IF i <= Len(s) THEN s[i] ELSE NoBody) = u
  BY <1>1
<1>4. Overwritten(s, u, from, to) = [i \in 1 .. to |-> u]
  BY <1>2, <1>3 DEF Overwritten
<1>5. QED
  BY <1>4 DEF s

\* What an upload's own step does to files.
LEMMA FlushStep ==
  ASSUME TypeOK, NEW v \in Upload,
         ReceiveChunk(v) \/ Accept(v) \/ RejectAndUnlink(v) \/ RejectAndLeave(v)
  PROVE  /\ Writing(v) /\ \A w \in Upload \ {v} : up'[w] = up[w]
         /\ \E n \in Nat : n >= up[v].flushed /\ FlushTo(v, n) /\ up'[v].flushed = n
<1>1. up[v] \in UploadState /\ up[v].flushed <= up[v].sent
  BY DEF TypeOK
<1>2. up[v].flushed \in Nat /\ up[v].sent \in Nat
  BY <1>1, Constants DEF UploadState
<1>3. CASE ReceiveChunk(v)
  <2>1. PICK n \in up[v].flushed .. up[v].sent + 1 :
          FlushTo(v, n) /\ up'[v] = [up[v] EXCEPT !.sent = @ + 1, !.flushed = n]
    BY <1>3, ReceiveStep
  <2>2. up'[v].flushed = n
    BY <1>1, <2>1 DEF UploadState
  <2>3. n \in Nat /\ n >= up[v].flushed
    BY <1>2, <2>1
  <2>4. QED
    BY <1>3, <2>1, <2>2, <2>3, ReceiveStep
<1>4. ASSUME NEW result, Close(v, result)
      PROVE  /\ Writing(v) /\ \A w \in Upload \ {v} : up'[w] = up[w]
             /\ FlushTo(v, up[v].sent) /\ up'[v].flushed = up[v].sent
  <2>1. up'[v] = [up[v] EXCEPT !.pc = result, !.flushed = up[v].sent]
    BY <1>4, CloseStep
  <2>2. up'[v].flushed = up[v].sent
    BY <1>1, <2>1 DEF UploadState
  <2>3. QED
    BY <1>4, <2>2, CloseStep DEF Close
<1>5. CASE Accept(v) \/ RejectAndUnlink(v) \/ RejectAndLeave(v)
  <2>1. PICK result : Close(v, result)
    BY <1>5 DEF Accept, RejectAndUnlink, RejectAndLeave
  <2>2. QED
    BY <1>1, <1>2, <1>4, <2>1
<1>6. QED
  BY <1>3, <1>5

\* While an upload is the only one at its file, the file is what it flushed.
LEMMA FlushedStays ==
  ASSUME TypeOK, ServedInv, [Next]_vars, NEW u \in Upload, up[u].pc # "idle",
         \A v \in Upload \ {u} : ~(Writing(v) /\ up[v].target = up[u].target),
         \A v \in Upload : ~BeginUpload(v, up[u].target),
         data[up[u].inode] = [i \in 1 .. up[u].flushed |-> u]
  PROVE  data'[up[u].inode] = [i \in 1 .. up'[u].flushed |-> u]
<1> USE DEF ServedInv
<1> DEFINE t == up[u].target
<1> DEFINE w == up[u].inode
<1>1. /\ w \in Upload /\ up[w].pc # "idle" /\ up[w].target = t
      /\ data[w] = [i \in 1 .. up[u].flushed |-> u]
  BY DEF InodesAreOwned
<1>2. CASE UNCHANGED uploadVars
  BY <1>1, <1>2 DEF uploadVars
<1>3. ASSUME NEW v \in Upload, NEW b \in Artifact, BeginUpload(v, b)
      PROVE  data'[w] = [i \in 1 .. up'[u].flushed |-> u]
  <2>1. up[v].pc = "idle" /\ up'[u] = up[u]
    BY <1>3, BeginStep
  <2>2. w # dir'[b]
    <3>1. dir'[b] = IF dir[b] = NoFile THEN v ELSE dir[b]
      BY <1>3, BeginStep
    <3>2. CASE dir[b] = NoFile
      BY <1>1, <2>1, <3>1, <3>2
    <3>3. CASE dir[b] # NoFile
      BY <1>1, <1>3, <3>1, <3>3 DEF FilesAreOwned
    <3>4. QED
      BY <3>2, <3>3
  <2>3. data'[w] = data[w]
    BY <1>1, <1>3, <2>2, BeginStep
  <2>4. QED
    BY <1>1, <2>1, <2>3
<1>4. ASSUME NEW v \in Upload,
             ReceiveChunk(v) \/ Accept(v) \/ RejectAndUnlink(v) \/ RejectAndLeave(v)
      PROVE  data'[w] = [i \in 1 .. up'[u].flushed |-> u]
  <2>1. PICK n \in Nat : n >= up[v].flushed /\ FlushTo(v, n) /\ up'[v].flushed = n
    BY <1>4, FlushStep
  <2>2. Writing(v) /\ \A y \in Upload \ {v} : up'[y] = up[y]
    BY <1>4, FlushStep
  <2>3. CASE v = u
    <3>1. up[u].flushed \in Nat
      BY Constants DEF TypeOK, UploadState
    <3>2. data'[w] = Overwritten(data[w], u, up[u].flushed, n)
      BY <1>1, <2>1, <2>3 DEF FlushTo, TypeOK
    <3>3. data'[w] = [i \in 1 .. n |-> u]
      BY <1>1, <2>1, <2>3, <3>1, <3>2, PartExtends
    <3>4. QED
      BY <2>1, <2>3, <3>3
  <2>4. CASE v # u
    <3>1. up[v].inode # w
      BY <1>1, <2>2, <2>4 DEF InodesAreOwned, Writing
    <3>2. data'[w] = data[w]
      BY <1>1, <2>1, <3>1 DEF FlushTo, TypeOK
    <3>3. QED
      BY <1>1, <2>2, <2>4, <3>2
  <2>5. QED
    BY <2>3, <2>4
<1>5. CASE ApiCrash
  BY <1>1, <1>5, CrashStep DEF ApiCrash
<1>6. QED
  BY <1>2, <1>3, <1>4, <1>5, UploadSteps

\* The file of an upload that is alone at it stays what was flushed.
LEMMA FileStep ==
  ASSUME TypeOK, ServedInv, [Next]_vars
  PROVE  FileIsFlushed'
<1> USE DEF ServedInv
<1> SUFFICES ASSUME NEW u \in Upload PROVE IsFlushed(u)'
  BY DEF FileIsFlushed
<1> SUFFICES ASSUME up'[u].pc \in {"writing", "accepted"}, u \notin shared',
                    opener'[up'[u].target] = u, art'[up'[u].target].state = "live"
             PROVE  /\ dir'[up'[u].target] = up'[u].inode
                    /\ data'[up'[u].inode] = [i \in 1 .. up'[u].flushed |-> u]
  BY DEF IsFlushed, Live
<1>1. ASSUME NEW a \in Artifact, BeginUpload(u, a)
      PROVE  /\ dir'[up'[u].target] = up'[u].inode
             /\ data'[up'[u].inode] = [i \in 1 .. up'[u].flushed |-> u]
  <2>1. /\ up'[u].target = a /\ up'[u].inode = dir'[a] /\ up'[u].flushed = 0
        /\ dir'[a] = IF dir[a] = NoFile THEN u ELSE dir[a]
        /\ \A w \in Upload : data'[w] = IF w = dir'[a] THEN <<>> ELSE data[w]
    BY <1>1, BeginStep
  <2>2. dir'[a] \in Upload
    BY <2>1 DEF TypeOK
  <2>3. data'[dir'[a]] = <<>>
    BY <2>1, <2>2
  <2>4. <<>> = [i \in 1 .. 0 |-> u]
    OBVIOUS
  <2>5. QED
    BY <2>1, <2>3, <2>4
<1>2. CASE up[u].pc # "idle"
  <2> DEFINE t == up[u].target
  <2> DEFINE w == up[u].inode
  <2>1. /\ up'[u].target = t /\ up'[u].inode = w /\ t \in Artifact
        /\ art[t].state # "none" /\ w \in Upload
        /\ up[w].pc # "idle" /\ up[w].target = t
    BY <1>2, UploadKept DEF InodesAreOwned
  <2>2. up[u].pc \in {"writing", "accepted"}
    BY <1>2, UploadKept DEF Writing, Accept
  <2>3. Live(t)
    <3>1. art'[t].state = "live"
      BY <2>1
    <3>2. QED
      BY <2>1, <3>1, StatesAdvance DEF Live
  <2>4. ASSUME NEW v \in Upload, BeginUpload(v, t) PROVE FALSE
    <3>1. opener'[t] = v /\ up[v].pc = "idle"
      BY <2>1, <2>4, BeginStep
    <3>2. QED
      BY <1>2, <2>1, <3>1
  <2>5. opener[t] = u /\ u \notin shared
    BY <2>1, <2>4, OpenerSteps
  <2>6. dir[t] = w /\ data[w] = [i \in 1 .. up[u].flushed |-> u]
    BY <2>2, <2>3, <2>5 DEF FileIsFlushed, IsFlushed
  <2>7. ASSUME NEW v \in Upload \ {u}, Writing(v), up[v].target = t PROVE FALSE
    BY <1>2, <2>5, <2>7 DEF Alone
  <2>8. dir'[t] = w
    <3>1. ~DeleteArtifact(t)
      BY <2>1, DeleteArtifactGone DEF Live
    <3>2. ASSUME NEW x \in Process, NEW e \in clean[x].pending, e[1] = t PROVE FALSE
      BY <2>3, <3>2 DEF LoopsDeleteFirst, Live
    <3>3. ASSUME NEW v \in Upload, RejectAndUnlink(v), up[v].target = t PROVE FALSE
      <4>1. PICK result \in Rejected : Close(v, result)
        BY <3>3 DEF RejectAndUnlink, Rejected
      <4>2. Writing(v) /\ up'[v].pc \in Rejected
        <5>1. Writing(v) /\ up'[v].pc = result
          BY <4>1, CloseStep
        <5>2. QED
          BY <4>1, <5>1
      <4>3. QED
        BY <2>7, <3>3, <4>2 DEF Rejected
    <3>4. QED
      BY <2>1, <2>4, <2>6, <3>1, <3>2, <3>3, FileSteps
  <2>9. data'[w] = [i \in 1 .. up'[u].flushed |-> u]
    BY <1>2, <2>4, <2>6, <2>7, FlushedStays
  <2>10. QED
    BY <2>1, <2>8, <2>9
<1>3. QED
  BY <1>1, <1>2, UploadBegins

\* No upload has begun.
LEMMA InitServed == Init => ServedInv
<1> SUFFICES ASSUME Init PROVE ServedInv
  OBVIOUS
<1> USE DEF Init
<1>1. InodesAreOwned /\ FilesAreOwned /\ Alone /\ AcceptedIsFlushed /\ FileIsFlushed
  <2>1. \A u \in Upload : up[u].pc = "idle"
    OBVIOUS
  <2>2. FilesAreOwned
    BY DEF FilesAreOwned
  <2>3. QED
    BY <2>1, <2>2 DEF InodesAreOwned, Alone, AcceptedIsFlushed, FileIsFlushed, IsFlushed
<1>2. CapturesAreKept /\ PointersAreEarned
  BY Constants DEF CapturesAreKept, PointersAreEarned, Live
<1>3. LoopsDeleteFirst
  BY DEF LoopsDeleteFirst, Idle
<1>4. QED
  BY <1>1, <1>2, <1>3 DEF ServedInv

\* Every step of the store keeps what serving rests on.
LEMMA NextServed ==
  ASSUME TypeOK, ServedInv, [Next]_vars
  PROVE  ServedInv'
BY PointersStep, InodesStep, FilesStep, AloneStep, FlushedStep, FileStep, CapturesStep,
   LoopsStep
   DEF ServedInv

\* artifacts.py:684: a row's file is there, and is the captured file, or the body whose
\* checksum the row has unless another upload opened it.
THEOREM BlobServed == Spec => []BlobIsServed
BY InitServed, NextServed, TypeCorrect, ServedInvSuffices, PTL DEF Spec

--------------------------------------------------------------------------------
(* Files that outlive their rows *)

\* A loop has at most one file to remove, none when it is idle.
OnePending ==
  \A x \in Process :
    /\ \A e, f \in clean[x].pending : e = f
    /\ clean[x].pc = "idle" => clean[x].todo = {} /\ clean[x].pending = {}

\* A file of the store is somebody's upload: under way, refused, or accepted and then
\* its row has a pointer.
FileIsUploaded ==
  \A a \in Artifact : dir[a] # NoFile =>
    \E u \in Upload :
      /\ up[u].target = a
      /\ Writing(u) \/ up[u].pc \in Rejected \/ (up[u].pc = "accepted" /\ art[a].path # "none")

\* A captured file has a thread that registers it, or that has died or is done.
CaptureHasThread ==
  \A a \in Captured :
    /\ work[a] => reg[a] # "idle"
    /\ reg[a] = "lost" => crashes > 0

\* A row points to its object only when an upload was accepted, whatever has become
\* of the row.
PathsAreEarned == \A a \in Artifact : art[a].path = "objects" => WasAccepted(a)

\* A file that a deleted row points to is about to be removed, or will not be.
PointedIsPending ==
  \A a \in Artifact, p \in {"objects", "work"} :
    art[a].state = "gone" /\ art[a].path = p /\ FileAt(a, p) =>
      \/ a \in missed \/ crashes > 0
      \/ \E x \in Process : <<a, p>> \in clean[x].pending

OrphanInv ==
  OnePending /\ FileIsUploaded /\ CaptureHasThread /\ PathsAreEarned /\ PointedIsPending

\* It explains every file that outlives its row.
LEMMA OrphanInvSuffices == TypeOK /\ OrphanInv => OrphansAreExplained
<1> SUFFICES ASSUME TypeOK, OrphanInv, NEW a \in Artifact, NEW p \in {"objects", "work"},
                    art[a].state = "gone", FileAt(a, p), ~InUse(a, p)
             PROVE  \/ p = "objects" /\ \E u \in Upload : up[u].target = a /\ up[u].pc \in Rejected
                    \/ p = "work" /\ art[a].path = "none"
                    \/ art[a].path # p /\ WasAccepted(a)
                    \/ a \in missed \/ crashes > 0
  BY DEF OrphansAreExplained
<1> USE DEF OrphanInv
<1>1. art[a].path \in Paths
  BY DEF TypeOK, Row
<1>2. CASE art[a].path = p
  BY <1>2 DEF PointedIsPending, InUse
<1>3. CASE art[a].path # p /\ p = "objects"
  <2>1. dir[a] # NoFile
    BY <1>3 DEF FileAt
  <2>2. PICK u \in Upload :
          /\ up[u].target = a
          /\ Writing(u) \/ up[u].pc \in Rejected \/ (up[u].pc = "accepted" /\ art[a].path # "none")
    BY <2>1 DEF FileIsUploaded
  <2>3. QED
    BY <1>3, <2>2 DEF InUse, WasAccepted
<1>4. CASE art[a].path # p /\ p = "work"
  BY <1>1, <1>4 DEF Paths, PathsAreEarned
<1>5. QED
  BY <1>2, <1>3, <1>4

\* A step that makes the file of an artifact begins an upload to it, and its row
\* is live.
LEMMA FilesAreUploaded ==
  ASSUME TypeOK, [Next]_vars, NEW a \in Artifact, dir[a] = NoFile, dir'[a] # NoFile
  PROVE  \E u \in Upload : BeginUpload(u, a) /\ up'[u].target = a /\ Writing(u)'
<1> USE DEF uploadVars, workerVars
<1>1. ASSUME NEW b, NEW p, Remove(b, p) PROVE FALSE
  BY <1>1 DEF Remove, TypeOK
<1>2. ASSUME NEW u \in Upload, RejectAndUnlink(u) PROVE FALSE
  BY <1>2 DEF RejectAndUnlink, TypeOK
<1>3. dir' # dir
  OBVIOUS
<1>4. ASSUME NEW u \in Upload, NEW b \in Artifact, BeginUpload(u, b)
      PROVE  BeginUpload(u, a) /\ up'[u].target = a /\ Writing(u)'
  <2>1. a = b
    BY <1>4 DEF BeginUpload, TypeOK
  <2>2. QED
    BY <1>4, <2>1 DEF BeginUpload, TypeOK, Writing
<1>5. ASSUME NEW b \in Artifact, \/ CreateArtifact(b) \/ Presign(b) \/ DeleteArtifact(b)
                                 \/ LinkExpires(b) \/ RetentionEnds(b)
      PROVE  FALSE
  BY <1>1, <1>3, <1>5 DEF CreateArtifact, Presign, DeleteArtifact, LinkExpires, RetentionEnds
<1>6. ASSUME NEW u \in Upload, ReceiveChunk(u) \/ Accept(u) \/ RejectAndLeave(u) PROVE FALSE
  BY <1>3, <1>6 DEF ReceiveChunk, Accept, RejectAndLeave
<1>7. ASSUME NEW b \in Captured, Capture(b) \/ Register(b) \/ SetBlob(b) PROVE FALSE
  BY <1>3, <1>7 DEF Capture, Register, SetBlob
<1>8. ASSUME NEW x, LoopStep(x) PROVE FALSE
  BY <1>1, <1>3, <1>8 DEF LoopStep, DeleteRow, Unlink, FinishLoop
<1>9. ASSUME \/ BeginSession \/ BeginPurge \/ BeginSweep \/ ApiCrash \/ WorkerCrash
             \/ UNCHANGED vars
      PROVE  FALSE
  BY <1>3, <1>9 DEF BeginSession, BeginPurge, BeginSweep, List, ApiCrash, WorkerCrash, vars
<1>10. QED
  BY <1>2, <1>4, <1>5, <1>6, <1>7, <1>8, <1>9
     DEF Next, ApiStep, WorkerStep, TimePasses

\* Loops keep to one file at a time.
LEMMA OnePendingStep ==
  ASSUME TypeOK, OnePending, [Next]_vars
  PROVE  OnePending'
<1> USE DEF OnePending
<1>1. CASE UNCHANGED clean
  BY <1>1
<1>2. ASSUME NEW x \in Process, NEW kind \in {"purge", "sweep", "session"}, NEW todo,
             clean' = [clean EXCEPT ![x] = [pc |-> kind, todo |-> todo, pending |-> {}]]
      PROVE  OnePending'
  BY <1>2 DEF TypeOK
<1>3. ASSUME NEW x \in Process, DeleteRow(x) PROVE OnePending'
  BY <1>3, DeleteRowStep
<1>4. ASSUME NEW x \in Process, Unlink(x) PROVE OnePending'
  <2>1. clean[x] \in Loop
    BY DEF TypeOK
  <2>2. clean' = [clean EXCEPT ![x].pending = {}] /\ clean[x].pending # {}
    BY <1>4 DEF Unlink
  <2>3. clean'[x].pending = {} /\ clean'[x].pc = clean[x].pc
    BY <2>1, <2>2 DEF TypeOK, Loop
  <2>4. \A y \in Process \ {x} : clean'[y] = clean[y]
    BY <2>2 DEF TypeOK
  <2>5. QED
    BY <2>2, <2>3, <2>4
<1>5. ASSUME NEW x \in Process, clean' = [clean EXCEPT ![x] = Idle] PROVE OnePending'
  BY <1>5 DEF Idle, TypeOK
<1>6. ASSUME NEW x \in Process, FinishLoop(x) PROVE OnePending'
  BY <1>5, <1>6 DEF FinishLoop
<1>7. QED
  BY <1>1, <1>2, <1>3, <1>4, <1>5, <1>6, LoopSteps

\* A file that is to be removed is, unless a process dies first.
LEMMA PendingStays ==
  ASSUME TypeOK, OnePending, [Next]_vars, NEW x \in Process, NEW e \in clean[x].pending
  PROVE  e \in clean'[x].pending \/ crashes' > 0 \/ Remove(e[1], e[2])
<1> USE DEF OnePending
<1>1. CASE UNCHANGED clean
  BY <1>1
<1>2. ASSUME NEW y \in Process, NEW r, clean[y].pc = "idle", clean' = [clean EXCEPT ![y] = r]
      PROVE  e \in clean'[x].pending
  BY <1>2 DEF TypeOK
<1>3. ASSUME NEW y \in Process, DeleteRow(y) PROVE e \in clean'[x].pending
  BY <1>3, DeleteRowStep
<1>4. ASSUME NEW y \in Process, Unlink(y) PROVE e \in clean'[x].pending \/ Remove(e[1], e[2])
  <2>1. CASE x = y
    BY <1>4, <2>1 DEF Unlink
  <2>2. CASE x # y
    BY <1>4, <2>2 DEF Unlink, TypeOK
  <2>3. QED
    BY <2>1, <2>2
<1>5. ASSUME NEW y \in Process, FinishLoop(y) PROVE e \in clean'[x].pending
  BY <1>5 DEF FinishLoop, TypeOK
<1>6. CASE crashes' = crashes + 1
  BY <1>6, Constants DEF TypeOK
<1>7. QED
  BY <1>1, <1>2, <1>3, <1>4, <1>5, <1>6, LoopSteps

\* What is known of crashes and of rows that were missed is not forgotten.
LEMMA HistoryStays ==
  ASSUME TypeOK, [Next]_vars
  PROVE  missed \subseteq missed' /\ crashes' >= crashes
<1> USE Constants DEF uploadVars, workerVars, TypeOK
<1>1. ASSUME NEW a \in Artifact,
             \/ CreateArtifact(a) \/ Presign(a) \/ DeleteArtifact(a)
             \/ LinkExpires(a) \/ RetentionEnds(a)
      PROVE  UNCHANGED <<missed, crashes>>
  BY <1>1 DEF CreateArtifact, Presign, DeleteArtifact, LinkExpires, RetentionEnds
<1>2. ASSUME NEW a \in Captured, Capture(a) \/ Register(a) \/ SetBlob(a)
      PROVE  UNCHANGED <<missed, crashes>>
  BY <1>2 DEF Capture, Register, SetBlob
<1>3. ASSUME NEW u \in Upload, \/ ReceiveChunk(u) \/ Accept(u)
                               \/ RejectAndUnlink(u) \/ RejectAndLeave(u)
                               \/ \E a \in Artifact : BeginUpload(u, a)
      PROVE  UNCHANGED <<missed, crashes>>
  BY <1>3 DEF ReceiveChunk, Accept, RejectAndUnlink, RejectAndLeave, BeginUpload
<1>4. ASSUME BeginSession \/ BeginPurge \/ BeginSweep PROVE UNCHANGED <<missed, crashes>>
  BY <1>4 DEF BeginSession, BeginPurge, BeginSweep, List
<1>5. ASSUME ApiCrash \/ WorkerCrash PROVE missed \subseteq missed' /\ crashes' >= crashes
  BY <1>5 DEF ApiCrash, WorkerCrash
<1>6. ASSUME NEW x, DeleteRow(x) PROVE missed \subseteq missed' /\ crashes' >= crashes
  BY <1>6 DEF DeleteRow
<1>7. ASSUME NEW x, Unlink(x) \/ FinishLoop(x) PROVE UNCHANGED <<missed, crashes>>
  BY <1>7 DEF Unlink, FinishLoop
<1>8. CASE UNCHANGED vars
  BY <1>8 DEF vars
<1>9. QED
  BY <1>1, <1>2, <1>3, <1>4, <1>5, <1>6, <1>7, <1>8
     DEF Next, ApiStep, WorkerStep, TimePasses, LoopStep

\* How a row comes to be gone.
LEMMA GoneSteps ==
  ASSUME TypeOK, [Next]_vars, NEW a \in Artifact, art'[a].state = "gone"
  PROVE  /\ art'[a].path = art[a].path
         /\ \/ art[a].state = "gone"
            \/ DeleteArtifact(a)
            \/ \E x \in Process : /\ DeleteRow(x) /\ Live(a)
                                  /\ \E e \in clean'[x].pending :
                                       /\ e[1] = a
                                       /\ art[a].path # e[2] => a \in missed'
<1> DEFINE Same == art'[a].path = art[a].path /\ art'[a].state = art[a].state
<1> USE DEF TypeOK, Row, uploadVars, workerVars
<1>1. ASSUME NEW b \in Artifact, Presign(b) \/ LinkExpires(b) \/ RetentionEnds(b) PROVE Same
  <2>1. CASE Presign(b)
    BY <2>1 DEF Presign
  <2>2. CASE LinkExpires(b)
    BY <2>2 DEF LinkExpires
  <2>3. CASE RetentionEnds(b)
    BY <2>3 DEF RetentionEnds
  <2>4. QED
    BY <1>1, <2>1, <2>2, <2>3
<1>2. ASSUME NEW b, CreateRow(b) PROVE Same
  BY <1>2 DEF CreateRow
<1>3. ASSUME NEW b \in Artifact, NEW r, art' = [art EXCEPT ![b] = r], r.state = "live" PROVE Same
  BY <1>3
<1>4. ASSUME NEW b \in Captured, SetBlob(b) PROVE Same
  <2>1. CASE Live(b)
    BY <2>1, <1>4 DEF SetBlob, Live
  <2>2. CASE ~Live(b)
    BY <2>2, <1>4 DEF SetBlob
  <2>3. QED
    BY <2>1, <2>2
<1>5. ASSUME NEW u \in Upload, Accept(u) PROVE Same
  BY <1>5 DEF Accept, Live
<1>6. ASSUME NEW b, art' = GoneRow(b)
      PROVE  art'[a].path = art[a].path /\ (art'[a].state = art[a].state \/ (b = a /\ Live(a)))
  BY <1>6 DEF GoneRow, Live
<1>7. ASSUME NEW b \in Artifact, DeleteArtifact(b)
      PROVE  art'[a].path = art[a].path /\ (art'[a].state = art[a].state \/ DeleteArtifact(a))
  BY <1>6, <1>7 DEF DeleteArtifact
<1>8. ASSUME NEW x \in Process, DeleteRow(x)
      PROVE  /\ art'[a].path = art[a].path
             /\ \/ art'[a].state = art[a].state
                \/ /\ Live(a)
                   /\ \E e \in clean'[x].pending : e[1] = a /\ (art[a].path # e[2] => a \in missed')
  <2>1. PICK e \in clean[x].todo :
          /\ art' = GoneRow(e[1])
          /\ clean'[x].pending = {e}
          /\ Live(e[1]) /\ art[e[1]].path # e[2] => e[1] \in missed'
    BY <1>8, DeleteRowStep
  <2>2. QED
    BY <1>6, <2>1
<1>9. ASSUME NEW u \in Upload, \/ ReceiveChunk(u) \/ RejectAndUnlink(u) \/ RejectAndLeave(u)
                               \/ \E b \in Artifact : BeginUpload(u, b)
      PROVE  Same
  BY <1>9 DEF ReceiveChunk, RejectAndUnlink, RejectAndLeave, BeginUpload
<1>10. ASSUME NEW x, Unlink(x) \/ FinishLoop(x) PROVE Same
  BY <1>10 DEF Unlink, FinishLoop
<1>11. ASSUME \/ BeginSession \/ BeginPurge \/ BeginSweep \/ ApiCrash \/ WorkerCrash
              \/ UNCHANGED vars \/ \E b \in Captured : Capture(b)
       PROVE  Same
  BY <1>11 DEF BeginSession, BeginPurge, BeginSweep, List, ApiCrash, WorkerCrash, vars, Capture
<1>12. ASSUME NEW b \in Artifact, CreateArtifact(b) PROVE Same
  BY <1>2, <1>12 DEF CreateArtifact
<1>13. ASSUME NEW b \in Captured, Register(b) PROVE Same
  BY <1>2, <1>13 DEF Register
<1>14. QED
  BY <1>1, <1>4, <1>5, <1>7, <1>8, <1>9, <1>10, <1>11, <1>12, <1>13
     DEF Next, ApiStep, WorkerStep, TimePasses, LoopStep, Process

\* A file of the store stays somebody's upload.
LEMMA UploadedStep ==
  ASSUME TypeOK, FileIsUploaded, [Next]_vars
  PROVE  FileIsUploaded'
<1> SUFFICES ASSUME NEW a \in Artifact, dir'[a] # NoFile
             PROVE  \E u \in Upload :
                      /\ up'[u].target = a
                      /\ \/ Writing(u)' \/ up'[u].pc \in Rejected
                         \/ up'[u].pc = "accepted" /\ art'[a].path # "none"
  BY DEF FileIsUploaded, Writing
<1>1. CASE dir[a] # NoFile
  <2>1. PICK u \in Upload :
          /\ up[u].target = a
          /\ Writing(u) \/ up[u].pc \in Rejected \/ (up[u].pc = "accepted" /\ art[a].path # "none")
    BY <1>1 DEF FileIsUploaded
  <2>2. CASE up[u].pc = "accepted" /\ art[a].path # "none"
    BY <2>1, <2>2, UploadKept, PointersStay
  <2>3. CASE Writing(u) \/ up[u].pc \in Rejected
    BY <2>1, <2>3, UploadsEndStep
  <2>4. QED
    BY <2>1, <2>2, <2>3
<1>2. CASE dir[a] = NoFile
  BY <1>2, FilesAreUploaded
<1>3. QED
  BY <1>1, <1>2

\* A captured file keeps its thread.
LEMMA ThreadStep ==
  ASSUME TypeOK, CaptureHasThread, [Next]_vars
  PROVE  CaptureHasThread'
<1> SUFFICES ASSUME NEW a \in Captured
             PROVE  /\ work'[a] => reg'[a] # "idle"
                    /\ reg'[a] = "lost" => crashes' > 0
  BY DEF CaptureHasThread
<1>1. crashes \in Nat /\ crashes' \in Nat /\ crashes' >= crashes
  BY HistoryStays, NextTypeOK, Constants DEF TypeOK
<1>2. work'[a] => reg'[a] # "idle"
  BY CaptureSteps DEF CaptureHasThread
<1>3. reg'[a] = "lost" => crashes' > 0
  <2>1. reg'[a] = "lost" => reg[a] = "lost" \/ crashes' = crashes + 1
    BY CaptureSteps
  <2>2. reg[a] = "lost" => crashes > 0
    BY DEF CaptureHasThread
  <2>3. QED
    BY <1>1, <2>1, <2>2
<1>4. QED
  BY <1>2, <1>3

\* What was accepted stays accepted.
LEMMA AcceptedKept ==
  ASSUME TypeOK, [Next]_vars, NEW a, WasAccepted(a)
  PROVE  WasAccepted(a)'
<1>1. PICK u \in Upload : up[u].target = a /\ up[u].pc = "accepted"
  BY DEF WasAccepted
<1>2. up'[u] = up[u]
  BY <1>1, UploadKept
<1>3. QED
  BY <1>1, <1>2 DEF WasAccepted

\* Deleting a row leaves its blob_path.
LEMMA GoneKeepsPath ==
  ASSUME TypeOK, NEW a \in Artifact, DeleteArtifact(a) \/ \E x \in Process : DeleteRow(x)
  PROVE  art'[a].path = art[a].path
<1>1. ASSUME NEW b, art' = GoneRow(b) PROVE art'[a].path = art[a].path
  BY <1>1 DEF GoneRow, TypeOK, Row
<1>2. QED
  BY <1>1 DEF DeleteArtifact, DeleteRow

\* Paths stay earned.
LEMMA PathsKept ==
  ASSUME TypeOK, PathsAreEarned, [Next]_vars
  PROVE  PathsAreEarned'
<1> SUFFICES ASSUME NEW a \in Artifact, art'[a].path = "objects" PROVE WasAccepted(a)'
  BY DEF PathsAreEarned
<1>1. CASE art[a].path = "objects"
  BY <1>1, AcceptedKept DEF PathsAreEarned
<1>2. ASSUME NEW u \in Upload, Accept(u), up[u].target = a PROVE WasAccepted(a)'
  <2>1. up'[u].pc = "accepted" /\ up'[u].target = a
    BY <1>2, CloseStep DEF Accept
  <2>2. QED
    BY <2>1 DEF WasAccepted
<1>3. QED
  BY <1>1, <1>2, RowSteps, GoneKeepsPath

\* A file that a deleted row points to stays about to be removed.
LEMMA PointedStep ==
  ASSUME TypeOK, OrphanInv, [Next]_vars
  PROVE  PointedIsPending'
<1> SUFFICES ASSUME NEW a \in Artifact, NEW p \in {"objects", "work"},
                    art'[a].state = "gone", art'[a].path = p, FileAt(a, p)'
             PROVE  \/ a \in missed' \/ crashes' > 0
                    \/ \E x \in Process : <<a, p>> \in clean'[x].pending
  BY DEF PointedIsPending
<1> USE DEF OrphanInv
<1>1. art[a].path = p
  BY GoneSteps
<1>2. ASSUME Remove(a, p) PROVE FALSE
  BY <1>2 DEF Remove, FileAt, TypeOK
<1>3. CASE art[a].state = "gone"
  <2>1. FileAt(a, p)
    <3>1. CASE p = "objects"
      BY <1>3, <3>1, FilesAreUploaded DEF BeginUpload, Live, FileAt
    <3>2. CASE p = "work"
      BY <1>3, <3>2, CaptureSteps DEF FileAt, Live
    <3>3. QED
      BY <3>1, <3>2
  <2>2. CASE a \in missed \/ crashes > 0
    <3>1. missed \subseteq missed' /\ crashes' >= crashes
      BY HistoryStays
    <3>2. crashes \in Nat /\ crashes' \in Nat
      BY NextTypeOK, Constants DEF TypeOK
    <3>3. QED
      BY <2>2, <3>1, <3>2
  <2>3. ASSUME NEW x \in Process, <<a, p>> \in clean[x].pending
        PROVE  <<a, p>> \in clean'[x].pending \/ crashes' > 0
    BY <2>3, <1>2, PendingStays
  <2>4. QED
    BY <1>1, <1>3, <2>1, <2>2, <2>3 DEF PointedIsPending
<1>4. CASE DeleteArtifact(a)
  BY <1>1, <1>2, <1>4 DEF DeleteArtifact
<1>5. ASSUME NEW x \in Process, NEW e \in clean'[x].pending, e[1] = a,
             art[a].path # e[2] => a \in missed'
      PROVE  a \in missed' \/ <<a, p>> \in clean'[x].pending
  <2>1. clean'[x].pending \subseteq Artifact \X Paths
    BY NextTypeOK DEF TypeOK, Loop
  <2>2. e = <<e[1], e[2]>>
    BY <2>1
  <2>3. QED
    BY <1>1, <1>5, <2>2
<1>6. QED
  BY <1>3, <1>4, <1>5, GoneSteps

\* The invariant behind OrphansAreExplained is kept.
LEMMA NextOrphan == TypeOK /\ OrphanInv /\ [Next]_vars => OrphanInv'
BY OnePendingStep, UploadedStep, ThreadStep, PathsKept, PointedStep DEF OrphanInv

\* artifacts.py:710, as far as it holds: a file, stored or captured, outlives its row
\* only for one of the reasons OrphansAreExplained names.
THEOREM OrphansExplained == Spec => []OrphansAreExplained
<1>1. Init => OrphanInv
  BY DEF Init, Idle, OrphanInv, OnePending, FileIsUploaded, CaptureHasThread, PathsAreEarned,
         PointedIsPending, FileAt, Process
<1>2. QED
  BY <1>1, NextOrphan, TypeCorrect, OrphanInvSuffices, PTL DEF Spec

--------------------------------------------------------------------------------
(* Profiles of commands *)

\* What the constants of ProfileUse give.
LEMMA ProfileConstants ==
  /\ Shareable \subseteq Posted /\ Shareable \subseteq Artifact /\ MaxChunks > 0
  /\ "captured" \notin Upload /\ "default" \notin Upload /\ "raised" \notin Upload
  /\ NoFile # "captured" /\ NoFile # "default" /\ NoFile # "raised"
BY ProfileAssumption DEF ProfileAssumption, Artifact

\* The types of the variables ProfileUse adds, as far as the store depends on them.
SharingTyped == sharing \in [of : Artifact \cup {NoFile}, by : Upload \cup {NoFile}]

\* share_session has the API to itself, and its artifact until the file is written.
SharingIsAlone ==
  /\ sharing # NotSharing => ApiFree
  /\ sharing.by # NoFile => sharing.of # NoFile
  /\ sharing.of # NoFile => art[sharing.of].state # "none"
  /\ sharing.of # NoFile /\ sharing.by = NoFile =>
       \A u \in Upload : up[u].pc # "idle" => up[u].target # sharing.of
  /\ sharing.by # NoFile =>
       /\ up[sharing.by].pc = "writing" /\ up[sharing.by].target = sharing.of
       /\ up[sharing.by].sent = 1 /\ up[sharing.by].flushed = 1

StoreInv == TypeOK /\ ServedInv /\ SharingTyped /\ SharingIsAlone

\* A flush of nothing leaves the file as it is.
LEMMA NothingFlushed ==
  ASSUME NEW S, NEW s \in Seq(S), NEW u, NEW n \in Nat
  PROVE  Overwritten(s, u, n, n) = s
<1>1. \A i \in 1 .. Len(s) : ~(i \in n + 1 .. n) /\ i <= Len(s)
  OBVIOUS
<1>2. Overwritten(s, u, n, n) = [i \in 1 .. Len(s) |-> s[i]]
  BY <1>1 DEF Overwritten
<1>3. QED
  BY <1>2

\* What write_bytes of a shared profile does.
LEMMA ShareFileStep ==
  ASSUME StoreInv, NEW u \in Upload, ShareFile(u)
  PROVE  /\ sharing.of \in Artifact /\ art[sharing.of].state # "none" /\ up[u].pc = "idle"
         /\ up'[u] = [pc |-> "writing", target |-> sharing.of, inode |-> u,
                      sent |-> 1, flushed |-> 1]
         /\ \A v \in Upload \ {u} : up'[v] = up[v] /\ data'[v] = data[v]
         /\ dir'[sharing.of] = u /\ opener'[sharing.of] = u /\ data'[u] = <<u>>
         /\ \A b \in Artifact \ {sharing.of} : dir'[b] = dir[b] /\ opener'[b] = opener[b]
         /\ \A v \in Upload : up[v].pc # "idle" => up[v].target # sharing.of
         /\ sharing'.of = sharing.of /\ sharing'.by = u
         /\ UNCHANGED <<art, shared, workerVars, clean, crashes, missed, use>>
<1> USE DEF StoreInv
<1>1. sharing.of \in Artifact
  BY DEF ShareFile, SharingTyped
<1>2. /\ art[sharing.of].state # "none"
      /\ \A v \in Upload : up[v].pc # "idle" => up[v].target # sharing.of
  BY DEF ShareFile, SharingIsAlone
<1>3. /\ up'[u] = [pc |-> "writing", target |-> sharing.of, inode |-> u,
                   sent |-> 1, flushed |-> 1]
      /\ \A v \in Upload \ {u} : up'[v] = up[v] /\ data'[v] = data[v]
      /\ data'[u] = <<u>>
  BY DEF ShareFile, TypeOK
<1>4. /\ dir'[sharing.of] = u /\ opener'[sharing.of] = u
      /\ \A b \in Artifact \ {sharing.of} : dir'[b] = dir[b] /\ opener'[b] = opener[b]
  BY <1>1 DEF ShareFile, TypeOK
<1>5. sharing'.of = sharing.of /\ sharing'.by = u
  BY DEF ShareFile, SharingTyped
<1>6. QED
  BY <1>1, <1>2, <1>3, <1>4, <1>5 DEF ShareFile

\* It keeps the types.
LEMMA ShareFileTypes ==
  ASSUME StoreInv, NEW u \in Upload, ShareFile(u)
  PROVE  TypeOK'
<1> USE DEF StoreInv
<1> DEFINE r == [pc |-> "writing", target |-> sharing.of, inode |-> u, sent |-> 1, flushed |-> 1]
<1>1. sharing.of \in Artifact
  BY ShareFileStep
<1>2. r \in UploadState /\ r.flushed <= r.sent
  BY <1>1, Constants, ProfileConstants DEF UploadState
<1>3. UploadLimit > 0 => r.sent <= UploadLimit
  BY Constants
<1>4. up' = [up EXCEPT ![u] = r]
  BY DEF ShareFile
<1> HIDE DEF r
<1>5. /\ up' \in [Upload -> UploadState]
      /\ \A v \in Upload : /\ up'[v].flushed <= up'[v].sent
                           /\ UploadLimit > 0 => up'[v].sent <= UploadLimit
  BY <1>2, <1>3, <1>4, UpTypes
<1>6. data' \in [Upload -> Seq(Upload \cup {NoBody})]
  <2>1. <<u>> \in Seq(Upload \cup {NoBody})
    OBVIOUS
  <2>2. QED
    BY <2>1 DEF ShareFile, TypeOK
<1>7. dir' \in [Artifact -> Upload \cup {NoFile}] /\ opener' \in [Artifact -> Upload \cup {NoFile}]
  BY DEF ShareFile, TypeOK
<1>8. QED
  BY <1>5, <1>6, <1>7 DEF ShareFile, TypeOK, workerVars

\* And what serving rests on: the file is new, and nobody else's.
LEMMA ShareFileServed ==
  ASSUME StoreInv, NEW u \in Upload, ShareFile(u)
  PROVE  ServedInv'
<1> USE DEF StoreInv, ServedInv
<1>0. /\ sharing.of \in Artifact /\ art[sharing.of].state # "none" /\ up[u].pc = "idle"
      /\ up'[u] = [pc |-> "writing", target |-> sharing.of, inode |-> u,
                   sent |-> 1, flushed |-> 1]
      /\ \A v \in Upload \ {u} : up'[v] = up[v] /\ data'[v] = data[v]
      /\ dir'[sharing.of] = u /\ opener'[sharing.of] = u /\ data'[u] = <<u>>
      /\ \A b \in Artifact \ {sharing.of} : dir'[b] = dir[b] /\ opener'[b] = opener[b]
      /\ \A v \in Upload : up[v].pc # "idle" => up[v].target # sharing.of
      /\ UNCHANGED <<art, shared, work, reg, clean>>
  <2> HIDE DEF StoreInv
  <2>1. QED
    BY ShareFileStep DEF workerVars
<1> USE <1>0
<1>1. ASSUME NEW v \in Upload \ {u}, up'[v].pc # "idle"
      PROVE  /\ up'[v] = up[v] /\ data'[v] = data[v] /\ up[v].target # sharing.of
             /\ up[v].target \in Artifact
             /\ up[v].inode \in Upload \ {u} /\ up[v].inode = up'[v].inode
             /\ up[up[v].inode].pc # "idle" /\ up[up[v].inode].target = up[v].target
             /\ data'[up[v].inode] = data[up[v].inode]
             /\ dir'[up[v].target] = dir[up[v].target]
             /\ opener'[up[v].target] = opener[up[v].target]
  <2>1. up'[v] = up[v] /\ data'[v] = data[v] /\ up[v].target # sharing.of
    BY <1>1
  <2>2. /\ up[v].target \in Artifact /\ up[v].inode \in Upload
        /\ up[up[v].inode].pc # "idle" /\ up[up[v].inode].target = up[v].target
    BY <1>1, <2>1 DEF InodesAreOwned
  <2>3. up[v].inode # u
    BY <2>2
  <2>4. QED
    BY <2>1, <2>2, <2>3
<1>2. InodesAreOwned'
  <2>1. ASSUME NEW v \in Upload, up'[v].pc # "idle"
        PROVE  /\ up'[v].target \in Artifact /\ art'[up'[v].target].state # "none"
               /\ up'[v].inode \in Upload
               /\ up'[up'[v].inode].pc # "idle" /\ up'[up'[v].inode].target = up'[v].target
    <3>1. CASE v = u
      BY <3>1
    <3>2. CASE v # u
      BY <1>1, <2>1, <3>2 DEF InodesAreOwned
    <3>3. QED
      BY <3>1, <3>2
  <2>2. QED
    BY <2>1 DEF InodesAreOwned
<1>3. FilesAreOwned'
  <2>1. ASSUME NEW a \in Artifact, dir'[a] # NoFile
        PROVE  up'[dir'[a]].pc # "idle" /\ up'[dir'[a]].target = a
    <3>1. CASE a = sharing.of
      BY <3>1
    <3>2. CASE a # sharing.of
      <4>1. dir[a] \in Upload /\ dir'[a] = dir[a]
        BY <2>1, <3>2 DEF TypeOK
      <4>2. up[dir[a]].pc # "idle" /\ up[dir[a]].target = a
        BY <2>1, <4>1 DEF FilesAreOwned
      <4>3. QED
        BY <4>1, <4>2
    <3>3. QED
      BY <3>1, <3>2
  <2>2. QED
    BY <2>1 DEF FilesAreOwned
<1>4. Alone'
  <2>1. ASSUME NEW w \in Upload, up'[w].pc # "idle", w \notin shared', opener'[up'[w].target] = w,
               NEW v \in Upload \ {w}, Writing(v)', up'[v].target = up'[w].target
        PROVE  FALSE
    <3>1. up'[v].pc # "idle"
      BY <2>1 DEF Writing
    <3>2. CASE w = u
      BY <1>1, <2>1, <3>1, <3>2
    <3>3. CASE v = u
      BY <1>1, <2>1, <3>3
    <3>4. CASE w # u /\ v # u
      <4>1. up'[w] = up[w] /\ up'[v] = up[v] /\ opener[up[w].target] = w
        BY <1>1, <2>1, <3>1, <3>4
      <4>2. Writing(v)
        BY <2>1, <4>1 DEF Writing
      <4>3. QED
        BY <2>1, <4>1, <4>2 DEF Alone
    <3>5. QED
      BY <3>2, <3>3, <3>4
  <2>2. QED
    BY <2>1 DEF Alone
<1>5. CapturesAreKept' /\ LoopsDeleteFirst'
  BY DEF CapturesAreKept, LoopsDeleteFirst, Live
<1>6. PointersAreEarned'
  <2>1. ASSUME NEW a \in Artifact, Live(a), art[a].path = "objects"
        PROVE  art[a].sum \in Upload /\ up'[art[a].sum].pc = "accepted" /\ up'[art[a].sum].target = a
    BY <2>1 DEF PointersAreEarned
  <2>2. QED
    BY <2>1 DEF PointersAreEarned, Live
<1>7. AcceptedIsFlushed'
  BY DEF AcceptedIsFlushed
<1>8. FileIsFlushed'
  <2>1. ASSUME NEW v \in Upload PROVE IsFlushed(v)'
    <3>1. CASE v = u
      <4>1. <<u>> = [i \in 1 .. 1 |-> u]
        OBVIOUS
      <4>2. QED
        BY <3>1, <4>1 DEF IsFlushed
    <3>2. CASE v # u
      <4>1. SUFFICES ASSUME up'[v].pc \in {"writing", "accepted"}, v \notin shared',
                            opener'[up'[v].target] = v,
                            art'[up'[v].target].state = "live"
                     PROVE  /\ dir'[up'[v].target] = up'[v].inode
                            /\ data'[up'[v].inode] = [i \in 1 .. up'[v].flushed |-> v]
        BY DEF IsFlushed, Live
      <4>2. /\ up'[v] = up[v] /\ data'[up[v].inode] = data[up[v].inode]
            /\ dir'[up[v].target] = dir[up[v].target]
            /\ opener'[up[v].target] = opener[up[v].target]
        BY <1>1, <3>2, <4>1
      <4>3. IsFlushed(v)
        BY DEF FileIsFlushed
      <4>4. QED
        BY <4>1, <4>2, <4>3 DEF IsFlushed, Live
    <3>3. QED
      BY <3>1, <3>2
  <2>2. QED
    BY <2>1 DEF FileIsFlushed
<1>9. QED
  BY <1>2, <1>3, <1>4, <1>5, <1>6, <1>7, <1>8

\* The pointer of a shared profile is set as update_blob sets it for an upload, or
\* the upload ends without one.
LEMMA SharePointerIsAccept ==
  ASSUME StoreInv, SharePointer
  PROVE  /\ sharing.by \in Upload /\ ApiFree
         /\ Accept(sharing.by) \/ RejectAndLeave(sharing.by)
<1> DEFINE u == sharing.by
<1> USE DEF StoreInv
<1>1. /\ u \in Upload /\ ApiFree /\ Writing(u)
      /\ up[u].target = sharing.of /\ up[u].sent = 1 /\ up[u].flushed = 1
  BY DEF SharePointer, SharingIsAlone, SharingTyped, NotSharing, Writing
<1>2. UNCHANGED <<dir, data, opener, shared, workerVars, clean, crashes, missed>>
  BY DEF SharePointer
<1>3. FlushTo(u, up[u].sent)
  <2>1. up[u].inode \in Upload
    BY <1>1 DEF ServedInv, InodesAreOwned, Writing
  <2>2. data[up[u].inode] \in Seq(Upload \cup {NoBody})
    BY <2>1 DEF TypeOK
  <2>3. Overwritten(data[up[u].inode], u, up[u].flushed, up[u].sent) = data[up[u].inode]
    BY <1>1, <2>2, NothingFlushed
  <2>4. QED
    BY <1>2, <2>1, <2>3 DEF FlushTo, TypeOK
<1>4. ASSUME NEW result, up' = [up EXCEPT ![u].pc = result]
      PROVE  Close(u, result)
  <2>1. up[u] \in UploadState
    BY <1>1 DEF TypeOK
  <2>2. [up[u] EXCEPT !.pc = result] = [up[u] EXCEPT !.pc = result, !.flushed = up[u].sent]
    BY <1>1, <2>1 DEF UploadState
  <2>3. up' = [up EXCEPT ![u].pc = result, ![u].flushed = up[u].sent]
    BY <1>1, <1>4, <2>1, <2>2 DEF TypeOK
  <2>4. QED
    BY <1>1, <1>3, <2>3 DEF Close
<1>5. CASE Live(sharing.of)
  <2>1. Close(u, "accepted")
    BY <1>4, <1>5 DEF SharePointer
  <2>2. Accept(u)
    BY <1>1, <1>2, <1>5, <2>1 DEF Accept, SharePointer
  <2>3. QED
    BY <1>1, <2>2
<1>6. CASE ~Live(sharing.of)
  <2>1. Close(u, "gone") /\ UNCHANGED art
    BY <1>4, <1>6 DEF SharePointer
  <2>2. RejectAndLeave(u)
    BY <1>1, <1>2, <1>6, <2>1 DEF RejectAndLeave
  <2>3. QED
    BY <1>1, <2>2
<1>7. QED
  BY <1>5, <1>6

\* Every step is one of the store, or writes the file of a shared profile.
LEMMA ProfileSteps ==
  ASSUME StoreInv, [ProfileNext]_allVars
  PROVE  [Next]_vars \/ \E u \in Upload : ShareFile(u)
<1>1. ASSUME NEW a \in Shareable, ShareRow(a) PROVE [Next]_vars
  <2>1. a \in Artifact /\ CreateArtifact(a)
    BY <1>1, ProfileConstants DEF ShareRow
  <2>2. QED
    BY <2>1 DEF Next, ApiStep
<1>2. CASE SharePointer
  BY <1>2, SharePointerIsAccept DEF Next, ApiStep
<1>3. CASE CommandStep
  BY <1>3 DEF CommandStep, OpenContext, Runs, Resolve, Resolves, Resolved, Leave
<1>4. CASE ApiStep \/ WorkerStep \/ TimePasses \/ ApiCrash \/ WorkerCrash
  BY <1>4 DEF Next
<1>5. CASE UNCHANGED allVars
  BY <1>5 DEF allVars
<1>6. QED
  BY <1>1, <1>2, <1>3, <1>4, <1>5 DEF ProfileNext, ShareStep

\* The worker and the passing of time leave uploads and the loop of the API alone.
LEMMA WorkerLeaves ==
  ASSUME TypeOK, WorkerStep \/ TimePasses
  PROVE  UNCHANGED up /\ clean'["api"] = clean["api"]
<1> USE DEF uploadVars, workerVars, TypeOK, Process
<1>1. ASSUME NEW a \in Artifact, LinkExpires(a) \/ RetentionEnds(a)
      PROVE  UNCHANGED <<up, clean>>
  BY <1>1 DEF LinkExpires, RetentionEnds
<1>2. ASSUME NEW a \in Captured, Capture(a) \/ Register(a) \/ SetBlob(a)
      PROVE  UNCHANGED <<up, clean>>
  BY <1>2 DEF Capture, Register, SetBlob
<1>3. CASE BeginPurge \/ BeginSweep
  BY <1>3 DEF BeginPurge, BeginSweep, List
<1>4. CASE LoopStep("worker")
  BY <1>4 DEF LoopStep, DeleteRow, Unlink, FinishLoop
<1>5. QED
  BY <1>1, <1>2, <1>3, <1>4 DEF WorkerStep, TimePasses

\* share_session stays alone.
LEMMA SharingStep ==
  ASSUME StoreInv, [ProfileNext]_allVars
  PROVE  SharingTyped' /\ SharingIsAlone'
<1> USE DEF StoreInv
<1>1. ASSUME sharing' = NotSharing PROVE SharingTyped' /\ SharingIsAlone'
  BY <1>1 DEF SharingTyped, SharingIsAlone, NotSharing
<1>2. ASSUME [Next]_vars, UNCHANGED <<sharing, up>>, clean'["api"] = clean["api"]
      PROVE  SharingTyped' /\ SharingIsAlone'
  <2>1. sharing.of # NoFile => art'[sharing.of].state # "none"
    BY <1>2, StatesAdvance DEF ServedInv, SharingIsAlone, SharingTyped
  <2>2. QED
    BY <1>2, <2>1 DEF SharingTyped, SharingIsAlone, ApiFree
<1>3. ASSUME WorkerStep \/ TimePasses, UNCHANGED profileVars
      PROVE  SharingTyped' /\ SharingIsAlone'
  <2>1. UNCHANGED up /\ clean'["api"] = clean["api"] /\ [Next]_vars
    BY <1>3, WorkerLeaves DEF Next
  <2>2. QED
    BY <1>2, <1>3, <2>1 DEF profileVars
<1>4. ASSUME NEW a \in Shareable, ShareRow(a) PROVE SharingTyped' /\ SharingIsAlone'
  <2>1. /\ a \in Artifact /\ ApiFree /\ art[a].state = "none" /\ sharing = NotSharing
        /\ art' = [art EXCEPT ![a].state = "live"] /\ sharing' = [of |-> a, by |-> NoFile]
        /\ UNCHANGED <<up, clean>>
    BY <1>4, ProfileConstants DEF ShareRow, CreateArtifact, CreateRow, NotSharing, uploadVars
  <2>2. art'[a].state = "live"
    BY <2>1 DEF TypeOK, Row
  <2>3. \A u \in Upload : up[u].pc # "idle" => up[u].target # a
    BY <2>1 DEF ServedInv, InodesAreOwned
  <2>4. QED
    BY <2>1, <2>2, <2>3 DEF SharingTyped, SharingIsAlone, ApiFree
<1>5. ASSUME NEW u \in Upload, ShareFile(u) PROVE SharingTyped' /\ SharingIsAlone'
  <2>1. /\ up'[u].pc = "writing" /\ up'[u].target = sharing.of
        /\ up'[u].sent = 1 /\ up'[u].flushed = 1
        /\ sharing.of \in Artifact /\ art[sharing.of].state # "none"
        /\ sharing'.of = sharing.of /\ sharing'.by = u /\ UNCHANGED <<art, clean>>
    <3> HIDE DEF StoreInv
    <3>1. up'[u] = [pc |-> "writing", target |-> sharing.of, inode |-> u,
                    sent |-> 1, flushed |-> 1]
      BY <1>5, ShareFileStep
    <3>2. /\ sharing.of \in Artifact /\ art[sharing.of].state # "none"
          /\ sharing'.of = sharing.of /\ sharing'.by = u
      BY <1>5, ShareFileStep
    <3>3. QED
      BY <1>5, <3>1, <3>2 DEF ShareFile
  <2>2. ApiFree /\ sharing.of # NoFile
    BY <1>5 DEF ShareFile, SharingIsAlone, NotSharing
  <2>3. SharingTyped'
    BY <1>5 DEF ShareFile, SharingTyped
  <2>4. SharingIsAlone'
    BY <2>1, <2>2, Constants DEF SharingIsAlone, ApiFree
  <2>5. QED
    BY <2>3, <2>4
<1>6. ASSUME SharePointer \/ (ApiCrash /\ sharing' = NotSharing)
      PROVE  SharingTyped' /\ SharingIsAlone'
  BY <1>1, <1>6 DEF SharePointer
<1>7. ASSUME sharing = NotSharing, UNCHANGED profileVars PROVE SharingTyped' /\ SharingIsAlone'
  BY <1>1, <1>7 DEF profileVars
<1>8. ASSUME WorkerCrash, UNCHANGED sharing PROVE SharingTyped' /\ SharingIsAlone'
  <2>1. UNCHANGED up /\ clean'["api"] = clean["api"] /\ [Next]_vars
    BY <1>8 DEF WorkerCrash, Next, uploadVars, TypeOK, Process
  <2>2. QED
    BY <1>2, <1>8, <2>1
<1>9. ASSUME UNCHANGED vars, UNCHANGED sharing PROVE SharingTyped' /\ SharingIsAlone'
  BY <1>2, <1>9 DEF vars
<1>10. CASE CommandStep \/ UNCHANGED allVars
  BY <1>9, <1>10
     DEF CommandStep, OpenContext, Runs, Resolve, Resolves, Resolved, Leave, allVars, profileVars
<1> HIDE DEF StoreInv
<1>11. CASE ShareStep
  BY <1>4, <1>5, <1>6, <1>11 DEF ShareStep
<1>12. QED
  BY <1>3, <1>6, <1>7, <1>8, <1>10, <1>11, Zenon DEF ProfileNext

\* Every step keeps what holds of the store.
LEMMA NextStoreInv == StoreInv /\ [ProfileNext]_allVars => StoreInv'
<1> SUFFICES ASSUME StoreInv, [ProfileNext]_allVars PROVE StoreInv'
  OBVIOUS
<1>1. SharingTyped' /\ SharingIsAlone'
  BY SharingStep
<1>2. CASE [Next]_vars
  BY <1>1, <1>2, NextTypeOK, NextServed DEF StoreInv
<1>3. ASSUME NEW u \in Upload, ShareFile(u) PROVE StoreInv'
  BY <1>1, <1>3, ShareFileTypes, ShareFileServed DEF StoreInv
<1>4. QED
  BY <1>2, <1>3, ProfileSteps

\* Initially nothing is shared.
LEMMA InitStoreInv == ProfileInit => StoreInv
BY InitTypeOK, InitServed
   DEF ProfileInit, StoreInv, SharingTyped, SharingIsAlone, NotSharing

--------------------------------------------------------------------------------
(* A command runs with what was accepted *)

\* What a command knows and has.  The captured file and an absent one hold no upload.
UseTyped ==
  use \in [Command -> [pc : UsePC, of : Artifact \cup {NoFile}, path : Paths,
                       seen : Seq(Upload \cup {NoBody, NoFile, "captured"}),
                       got : Upload \cup {NoFile, "captured", "default", "raised"}]]
UseIsEarned ==
  \A c \in Command :
    /\ use[c].path = "objects" => WasAccepted(use[c].of)
    /\ use[c].got \in Upload => use[c].path = "objects"

AcceptedInv == PathsAreEarned /\ UseTyped /\ UseIsEarned

\* What was accepted stays accepted.
LEMMA AcceptedStays ==
  ASSUME StoreInv, [ProfileNext]_allVars, NEW a, WasAccepted(a)
  PROVE  WasAccepted(a)'
<1>1. PICK u \in Upload : up[u].target = a /\ up[u].pc = "accepted"
  BY DEF WasAccepted
<1>2. CASE [Next]_vars
  BY <1>2, AcceptedKept DEF StoreInv
<1>3. ASSUME NEW v \in Upload, ShareFile(v) PROVE WasAccepted(a)'
  <2>1. up'[u] = up[u]
    BY <1>1, <1>3, ShareFileStep
  <2>2. QED
    BY <1>1, <2>1 DEF WasAccepted
<1>4. QED
  BY <1>2, <1>3, ProfileSteps

\* Rows stay true to that.
LEMMA PathsStep ==
  ASSUME StoreInv, PathsAreEarned, [ProfileNext]_allVars
  PROVE  PathsAreEarned'
<1>1. CASE [Next]_vars
  BY <1>1, PathsKept DEF StoreInv
<1>2. ASSUME NEW u \in Upload, ShareFile(u) PROVE PathsAreEarned'
  <2>1. UNCHANGED art
    BY <1>2 DEF ShareFile
  <2>2. QED
    BY <2>1, AcceptedStays DEF PathsAreEarned
<1>3. QED
  BY <1>1, <1>2, ProfileSteps

\* What a path leads to.
LEMMA ContentTypes ==
  ASSUME TypeOK, NEW a \in Artifact \cup {NoFile}, NEW p \in Paths
  PROVE  /\ p # "objects" => Content(a, p) \in {<<"captured">>, <<NoFile>>}
         /\ a \in Artifact =>
              Content(a, p) \in Seq(Upload \cup {NoBody, NoFile, "captured"})
<1>1. p # "objects" => Content(a, p) \in {<<"captured">>, <<NoFile>>}
  BY DEF Content, Absent, Paths
<1>2. <<"captured">> \in Seq(Upload \cup {NoBody, NoFile, "captured"})
  OBVIOUS
<1>3. <<NoFile>> \in Seq(Upload \cup {NoBody, NoFile, "captured"})
  OBVIOUS
<1>4. ASSUME a \in Artifact, dir[a] # NoFile
      PROVE  data[dir[a]] \in Seq(Upload \cup {NoBody, NoFile, "captured"})
  <2>1. dir[a] \in Upload
    BY <1>4 DEF TypeOK
  <2>2. data[dir[a]] \in Seq(Upload \cup {NoBody})
    BY <2>1 DEF TypeOK
  <2>3. QED
    BY <2>2
<1>5. p = "objects" => Content(a, p) = IF dir[a] # NoFile THEN data[dir[a]] ELSE <<NoFile>>
  BY DEF Content, Absent
<1>6. QED
  BY <1>1, <1>2, <1>3, <1>4, <1>5

\* An upload that is whole in a file has its chunks there, so the file is an object.
LEMMA ObjectsHoldUploads ==
  ASSUME TypeOK, NEW a \in Artifact \cup {NoFile}, NEW p \in Paths,
         NEW w \in Upload, w \in Contexts(Content(a, p)) \cup {"raised"}
  PROVE  p = "objects"
<1>1. w \in WholeIn(Content(a, p)) /\ w # "captured"
  BY ProfileConstants DEF Contexts
<1>2. up[w].sent > 0 /\ Content(a, p) = Body(w) /\ up[w].sent \in Nat
  BY <1>1, Constants DEF WholeIn, TypeOK, UploadState
<1>3. Content(a, p)[1] = w
  BY <1>2 DEF Body
<1>4. <<"captured">>[1] # w /\ <<NoFile>>[1] # w
  BY ProfileConstants, Constants
<1>5. QED
  BY <1>3, <1>4, ContentTypes

\* What a command's own step makes of what it knows.
LEMMA CommandSteps ==
  ASSUME CommandStep, UseTyped
  PROVE  /\ UNCHANGED <<vars, sharing>>
         /\ \E c \in Command :
              \/ \E w \in Contexts(Content(use[c].of, use[c].path)) \cup {"raised"} :
                   /\ use[c].pc = "resolved"
                   /\ use' = [use EXCEPT ![c] = [@ EXCEPT !.pc = "running", !.got = w]]
              \/ use' = [use EXCEPT ![c] = [@ EXCEPT !.pc = "failed"]]
              \/ \E a \in Artifact :
                   /\ Content(a, art[a].path) # Absent
                   /\ use' = [use EXCEPT ![c] =
                        [pc |-> "resolved", of |-> a, path |-> art[a].path,
                         seen |-> Content(a, art[a].path), got |-> NoFile]]
<1>1. ASSUME NEW c \in Command, OpenContext(c)
      PROVE  /\ UNCHANGED <<vars, sharing>>
             /\ \/ \E w \in Contexts(Content(use[c].of, use[c].path)) \cup {"raised"} :
                     /\ use[c].pc = "resolved"
                     /\ use' = [use EXCEPT ![c] = [@ EXCEPT !.pc = "running", !.got = w]]
                \/ use' = [use EXCEPT ![c] = [@ EXCEPT !.pc = "failed"]]
  <2>1. CASE Leave(c, "failed")
    BY <2>1 DEF Leave
  <2>2. ASSUME NEW w \in Contexts(Content(use[c].of, use[c].path)) \cup {"raised"}, Runs(c, w)
        PROVE  /\ UNCHANGED <<vars, sharing>>
               /\ use' = [use EXCEPT ![c] = [@ EXCEPT !.pc = "running", !.got = w]]
    BY <2>2 DEF Runs, UseTyped
  <2>3. QED
    BY <1>1, <2>1, <2>2 DEF OpenContext
<1>2. ASSUME NEW c \in Command, NEW a \in Artifact, Resolve(c, a)
      PROVE  /\ UNCHANGED <<vars, sharing>>
             /\ \/ use' = [use EXCEPT ![c] = [@ EXCEPT !.pc = "failed"]]
                \/ /\ Content(a, art[a].path) # Absent
                   /\ use' = [use EXCEPT ![c] =
                        [pc |-> "resolved", of |-> a, path |-> art[a].path,
                         seen |-> Content(a, art[a].path), got |-> NoFile]]
  BY <1>2 DEF Resolve, Resolves, Resolved, Leave
<1>3. QED
  BY <1>1, <1>2 DEF CommandStep

\* What a command knows keeps its type.
LEMMA UseTypes ==
  ASSUME StoreInv, UseTyped, [ProfileNext]_allVars
  PROVE  UseTyped'
<1> DEFINE R == [pc : UsePC, of : Artifact \cup {NoFile}, path : Paths,
                 seen : Seq(Upload \cup {NoBody, NoFile, "captured"}),
                 got : Upload \cup {NoFile, "captured", "default", "raised"}]
<1>1. ASSUME NEW c \in Command, NEW r \in R, use' = [use EXCEPT ![c] = r]
      PROVE  UseTyped'
  BY <1>1 DEF UseTyped
<1>2. \A c \in Command : use[c] \in R
  BY DEF UseTyped
<1>3. CASE CommandStep
  <2>1. ASSUME NEW c \in Command, NEW w \in Contexts(Content(use[c].of, use[c].path)) \cup {"raised"},
               use' = [use EXCEPT ![c] = [@ EXCEPT !.pc = "running", !.got = w]]
        PROVE  UseTyped'
    <3>1. w \in Upload \cup {"captured", "default", "raised"}
      BY <2>1 DEF Contexts, WholeIn
    <3>2. [use[c] EXCEPT !.pc = "running", !.got = w] \in R
      BY <1>2, <3>1 DEF UsePC
    <3>3. use' = [use EXCEPT ![c] = [use[c] EXCEPT !.pc = "running", !.got = w]]
      BY <2>1
    <3> HIDE DEF R
    <3>4. QED
      BY <1>1, <3>2, <3>3
  <2>2. ASSUME NEW c \in Command, use' = [use EXCEPT ![c] = [@ EXCEPT !.pc = "failed"]]
        PROVE  UseTyped'
    <3>1. [use[c] EXCEPT !.pc = "failed"] \in R
      BY <1>2 DEF UsePC
    <3>2. use' = [use EXCEPT ![c] = [use[c] EXCEPT !.pc = "failed"]]
      BY <2>2
    <3> HIDE DEF R
    <3>3. QED
      BY <1>1, <3>1, <3>2
  <2>3. ASSUME NEW c \in Command, NEW a \in Artifact,
               use' = [use EXCEPT ![c] =
                        [pc |-> "resolved", of |-> a, path |-> art[a].path,
                         seen |-> Content(a, art[a].path), got |-> NoFile]]
        PROVE  UseTyped'
    <3>1. art[a].path \in Paths
      BY DEF StoreInv, TypeOK, Row
    <3>2. Content(a, art[a].path) \in Seq(Upload \cup {NoBody, NoFile, "captured"})
      BY <3>1, ContentTypes DEF StoreInv
    <3>3. [pc |-> "resolved", of |-> a, path |-> art[a].path,
           seen |-> Content(a, art[a].path), got |-> NoFile] \in R
      BY <3>1, <3>2 DEF UsePC
    <3> HIDE DEF R
    <3>4. QED
      BY <1>1, <2>3, <3>3
  <2>4. QED
    BY <1>3, <2>1, <2>2, <2>3, CommandSteps
<1>4. CASE WorkerCrash /\ use' = [c \in Command |->
          IF use[c].pc = "resolved" THEN [use[c] EXCEPT !.pc = "lost"] ELSE use[c]]
  <2>1. \A c \in Command : [use[c] EXCEPT !.pc = "lost"] \in R
    BY <1>2 DEF UsePC
  <2>2. QED
    BY <1>2, <1>4, <2>1 DEF UseTyped
<1>5. CASE UNCHANGED use
  BY <1>5 DEF UseTyped
<1>6. QED
  BY <1>3, <1>4, <1>5
     DEF ProfileNext, ShareStep, ShareRow, ShareFile, SharePointer, profileVars, allVars

\* Commands stay true to what was accepted.
LEMMA UseStep ==
  ASSUME StoreInv, AcceptedInv, [ProfileNext]_allVars
  PROVE  UseIsEarned'
<1> DEFINE Then(a) == \E u \in Upload : up'[u].target = a /\ up'[u].pc = "accepted"
<1> DEFINE Earned(c) == /\ use'[c].path = "objects" => Then(use'[c].of)
                        /\ use'[c].got \in Upload => use'[c].path = "objects"
<1>0. SUFFICES \A c \in Command : Earned(c)
  BY DEF UseIsEarned, WasAccepted
<1> USE DEF AcceptedInv
<1>a. ASSUME NEW a, WasAccepted(a) PROVE Then(a)
  <2>1. WasAccepted(a)'
    BY <1>a, AcceptedStays
  <2>2. QED
    BY <2>1 DEF WasAccepted
<1> HIDE DEF Then
<1>1. ASSUME NEW c \in Command, use'[c].path = use[c].path, use'[c].of = use[c].of,
             use'[c].got \in Upload => use'[c].got = use[c].got \/ use[c].path = "objects"
      PROVE  Earned(c)
  <2>1. use[c].path = "objects" => Then(use[c].of)
    BY <1>a DEF UseIsEarned
  <2>2. QED
    BY <1>1, <2>1 DEF UseIsEarned
<1>2. CASE CommandStep
  <2>1. ASSUME NEW c \in Command, NEW d \in Command,
               NEW w \in Contexts(Content(use[c].of, use[c].path)) \cup {"raised"},
               use' = [use EXCEPT ![c] = [@ EXCEPT !.pc = "running", !.got = w]]
        PROVE  /\ use'[d].path = use[d].path /\ use'[d].of = use[d].of
               /\ use'[d].got \in Upload => use'[d].got = use[d].got \/ use[d].path = "objects"
    <3>1. CASE d # c
      BY <2>1, <3>1 DEF UseTyped
    <3>2. CASE d = c
      <4>1. use'[c].path = use[c].path /\ use'[c].of = use[c].of /\ use'[c].got = w
        BY <2>1 DEF UseTyped
      <4>2. use[c].of \in Artifact \cup {NoFile} /\ use[c].path \in Paths
        BY DEF UseTyped
      <4>3. w \in Upload => use[c].path = "objects"
        BY <4>2, ObjectsHoldUploads DEF StoreInv
      <4>4. QED
        BY <3>2, <4>1, <4>3
    <3>3. QED
      BY <3>1, <3>2
  <2>2. ASSUME NEW c \in Command, NEW d \in Command,
               use' = [use EXCEPT ![c] = [@ EXCEPT !.pc = "failed"]]
        PROVE  use'[d].path = use[d].path /\ use'[d].of = use[d].of /\ use'[d].got = use[d].got
    BY <2>2 DEF UseTyped
  <2>3. ASSUME NEW c \in Command, NEW a \in Artifact,
               use' = [use EXCEPT ![c] =
                        [pc |-> "resolved", of |-> a, path |-> art[a].path,
                         seen |-> Content(a, art[a].path), got |-> NoFile]]
        PROVE  \A d \in Command : Earned(d)
    <3>1. art[a].path = "objects" => Then(a)
      BY <1>a DEF PathsAreEarned
    <3>2. /\ use'[c].path = art[a].path /\ use'[c].of = a /\ use'[c].got = NoFile
      BY <2>3 DEF UseTyped
    <3>3. Earned(c)
      BY <3>1, <3>2, Constants
    <3>4. ASSUME NEW d \in Command \ {c}
          PROVE  use'[d] = use[d]
      BY <2>3 DEF UseTyped
    <3>5. \A d \in Command \ {c} : Earned(d)
      BY <1>1, <3>4
    <3>6. QED
      BY <3>3, <3>5
  <2>4. QED
    BY <1>1, <1>2, <2>1, <2>2, <2>3, CommandSteps
<1>3. CASE WorkerCrash /\ use' = [c \in Command |->
          IF use[c].pc = "resolved" THEN [use[c] EXCEPT !.pc = "lost"] ELSE use[c]]
  <2>1. ASSUME NEW c \in Command
        PROVE  use'[c].path = use[c].path /\ use'[c].of = use[c].of /\ use'[c].got = use[c].got
    BY <1>3 DEF UseTyped
  <2>2. QED
    BY <1>1, <2>1
<1>4. CASE UNCHANGED use
  BY <1>1, <1>4
<1>5. QED
  BY <1>2, <1>3, <1>4
     DEF ProfileNext, ShareStep, ShareRow, ShareFile, SharePointer, profileVars, allVars

\* A profile that a command runs with, and that is an upload, is one of an artifact with
\* an accepted upload: no command runs with a body whose checksum was refused, or not
\* checked yet, before any was accepted.
THEOREM ProfilesWereAccepted == ProfileSpec => []ProfileWasAccepted
<1>1. ProfileInit => StoreInv /\ AcceptedInv
  <2> SUFFICES ASSUME ProfileInit PROVE StoreInv /\ AcceptedInv
    OBVIOUS
  <2>1. StoreInv
    BY InitStoreInv
  <2>2. PathsAreEarned
    BY DEF ProfileInit, Init, PathsAreEarned
  <2>3. UseTyped
    <3>1. <<>> \in Seq(Upload \cup {NoBody, NoFile, "captured"})
      OBVIOUS
    <3>2. QED
      BY <3>1 DEF ProfileInit, UseTyped, UsePC, Paths
  <2>4. UseIsEarned
    BY Constants DEF ProfileInit, UseIsEarned
  <2>5. QED
    BY <2>1, <2>2, <2>3, <2>4 DEF AcceptedInv
<1>2. StoreInv /\ AcceptedInv /\ [ProfileNext]_allVars => (StoreInv /\ AcceptedInv)'
  BY NextStoreInv, PathsStep, UseTypes, UseStep DEF AcceptedInv
<1>3. AcceptedInv => ProfileWasAccepted
  BY DEF AcceptedInv, UseIsEarned, WasAccepted, ProfileWasAccepted
<1>4. QED
  BY <1>1, <1>2, <1>3, PTL DEF ProfileSpec

\* Every reachable state of ProfileUse is well typed.
THEOREM ProfileTypeCorrect == ProfileSpec => []ProfileTypeOK
<1>1. ProfileInit => StoreInv /\ UseTyped
  <2> SUFFICES ASSUME ProfileInit PROVE StoreInv /\ UseTyped
    OBVIOUS
  <2>1. <<>> \in Seq(Upload \cup {NoBody, NoFile, "captured"})
    OBVIOUS
  <2>2. QED
    BY <2>1, InitStoreInv DEF ProfileInit, UseTyped, UsePC, Paths
<1>2. StoreInv /\ UseTyped /\ [ProfileNext]_allVars => (StoreInv /\ UseTyped)'
  BY NextStoreInv, UseTypes
<1>3. StoreInv /\ UseTyped => ProfileTypeOK
  BY DEF StoreInv, SharingTyped, UseTyped, ProfileTypeOK
<1>4. QED
  BY <1>1, <1>2, <1>3, PTL DEF ProfileSpec

--------------------------------------------------------------------------------
(* The default context is not used silently *)

\* An upload that is not cut off ends with all of it written, and was not empty if it
\* was accepted or came too late for its row.
EndsWhole(u) ==
  /\ up[u].pc \in {"accepted", "tooLarge", "empty", "mismatch", "gone"} =>
       up[u].flushed = up[u].sent
  /\ up[u].pc \in {"accepted", "gone"} => up[u].sent > 0

\* Who opened a file last, and shared it with nobody.
OpenedAlone(u) == up[u].pc # "idle" /\ u \notin shared /\ opener[up[u].target] = u

\* Its file is what it flushed, while there is one; none if it was refused.
Holds(u) ==
  OpenedAlone(u) =>
    /\ up[u].pc \in {"tooLarge", "mismatch"} => dir[up[u].target] = NoFile
    /\ dir[up[u].target] # NoFile =>
         /\ dir[up[u].target] = up[u].inode
         /\ data[up[u].inode] = [i \in 1 .. up[u].flushed |-> u]

\* A file was opened by an upload.
FilesHaveOpeners ==
  \A a \in Artifact : dir[a] # NoFile =>
    /\ opener[a] \in Upload
    /\ up[opener[a]].pc # "idle" /\ up[opener[a]].target = a

WholeInv ==
  /\ \A u \in Upload : EndsWhole(u)
  /\ \A u \in Upload : Holds(u)
  /\ FilesHaveOpeners

\* Closing a handle writes what is left.
LEMMA CloseIsWhole ==
  ASSUME TypeOK, NEW u \in Upload, NEW result, Close(u, result)
  PROVE  up'[u].flushed = up'[u].sent /\ up'[u].sent = up[u].sent
<1>1. up[u] \in UploadState
  BY DEF TypeOK
<1>2. up'[u] = [up[u] EXCEPT !.pc = result, !.flushed = up[u].sent]
  BY CloseStep
<1>3. QED
  BY <1>1, <1>2 DEF UploadState

\* Uploads end whole.
LEMMA EndsWholeStep ==
  ASSUME TypeOK, [Next]_vars, NEW u \in Upload, EndsWhole(u)
  PROVE  EndsWhole(u)'
<1> USE DEF EndsWhole
<1>1. CASE up'[u] = up[u]
  BY <1>1
<1>2. ASSUME NEW v \in Upload, NEW a \in Artifact, BeginUpload(v, a) PROVE EndsWhole(u)'
  <2>1. up'[v].pc = "writing" /\ (v # u => up'[u] = up[u])
    BY <1>2, BeginStep
  <2>2. QED
    BY <1>1, <2>1
<1>3. ASSUME NEW v \in Upload, ReceiveChunk(v) PROVE EndsWhole(u)'
  <2>1. up'[v].pc = "writing" /\ (v # u => up'[u] = up[u])
    BY <1>3, ReceiveStep
  <2>2. QED
    BY <1>1, <2>1
<1>4. ASSUME NEW v \in Upload, NEW result, Close(v, result),
             result \in {"accepted", "gone"} => up[v].sent > 0
      PROVE  EndsWhole(u)'
  <2>1. up'[v].pc = result /\ (v # u => up'[u] = up[u])
    BY <1>4, CloseStep
  <2>2. up'[v].flushed = up'[v].sent /\ up'[v].sent = up[v].sent
    BY <1>4, CloseIsWhole
  <2>3. QED
    BY <1>1, <1>4, <2>1, <2>2
<1>5. ASSUME NEW v \in Upload, Accept(v) \/ RejectAndUnlink(v) \/ RejectAndLeave(v)
      PROVE  EndsWhole(u)'
  <2> HIDE DEF EndsWhole
  <2>1. PICK result : Close(v, result) /\ (result \in {"accepted", "gone"} => up[v].sent > 0)
    BY <1>5 DEF Accept, RejectAndUnlink, RejectAndLeave
  <2>2. QED
    BY <1>4, <2>1
<1>6. CASE ApiCrash
  BY <1>6, CrashStep
<1>7. CASE UNCHANGED uploadVars
  BY <1>1, <1>7 DEF uploadVars
<1>8. QED
  BY <1>2, <1>3, <1>5, <1>6, <1>7, UploadSteps

\* An upload is refused for its body by a step that unlinks its file.
LEMMA RefusedUnlinks ==
  ASSUME TypeOK, [Next]_vars, NEW u \in Upload, up[u].pc \notin {"tooLarge", "mismatch"},
         up'[u].pc \in {"tooLarge", "mismatch"}, up[u].target \in Artifact
  PROVE  dir'[up[u].target] = NoFile
<1>1. ASSUME NEW v \in Upload, NEW a \in Artifact, BeginUpload(v, a) PROVE FALSE
  <2>1. up'[v].pc = "writing" /\ (v # u => up'[u] = up[u])
    BY <1>1, BeginStep
  <2>2. QED
    BY <2>1
<1>2. ASSUME NEW v \in Upload, ReceiveChunk(v) PROVE FALSE
  <2>1. up'[v].pc = "writing" /\ (v # u => up'[u] = up[u])
    BY <1>2, ReceiveStep
  <2>2. QED
    BY <2>1
<1>3. ASSUME NEW v \in Upload, NEW result, Close(v, result),
             result \notin {"tooLarge", "mismatch"}
      PROVE  FALSE
  <2>1. up'[v].pc = result /\ (v # u => up'[u] = up[u])
    BY <1>3, CloseStep
  <2>2. QED
    BY <1>3, <2>1
<1>4. ASSUME NEW v \in Upload, Accept(v) \/ RejectAndLeave(v) PROVE FALSE
  BY <1>3, <1>4 DEF Accept, RejectAndLeave
<1>5. ASSUME NEW v \in Upload, RejectAndUnlink(v) PROVE dir'[up[u].target] = NoFile
  <2>1. v = u
    <3>1. PICK result : Close(v, result)
      BY <1>5 DEF RejectAndUnlink
    <3>2. QED
      BY <3>1, CloseStep
  <2>2. QED
    BY <1>5, <2>1 DEF RejectAndUnlink, TypeOK
<1>6. ~ApiCrash
  BY CrashStep
<1>7. ~UNCHANGED uploadVars
  BY DEF uploadVars
<1>8. QED
  BY <1>1, <1>2, <1>4, <1>5, <1>6, <1>7, UploadSteps

\* The file of who opened it last stays what it flushed.
LEMMA HoldsStep ==
  ASSUME TypeOK, ServedInv, [Next]_vars, NEW u \in Upload, Holds(u)
  PROVE  Holds(u)'
<1> USE DEF ServedInv
<1> SUFFICES ASSUME up'[u].pc # "idle", u \notin shared', opener'[up'[u].target] = u
             PROVE  /\ up'[u].pc \in {"tooLarge", "mismatch"} => dir'[up'[u].target] = NoFile
                    /\ dir'[up'[u].target] # NoFile =>
                         /\ dir'[up'[u].target] = up'[u].inode
                         /\ data'[up'[u].inode] = [i \in 1 .. up'[u].flushed |-> u]
  BY DEF Holds, OpenedAlone
<1>1. ASSUME NEW a \in Artifact, BeginUpload(u, a)
      PROVE  /\ up'[u].pc = "writing" /\ dir'[up'[u].target] = up'[u].inode
             /\ data'[up'[u].inode] = [i \in 1 .. up'[u].flushed |-> u]
  <2>1. /\ up'[u].pc = "writing" /\ up'[u].target = a /\ up'[u].inode = dir'[a]
        /\ up'[u].flushed = 0
        /\ dir'[a] = IF dir[a] = NoFile THEN u ELSE dir[a]
        /\ \A w \in Upload : data'[w] = IF w = dir'[a] THEN <<>> ELSE data[w]
    BY <1>1, BeginStep
  <2>2. dir'[a] \in Upload
    BY <2>1 DEF TypeOK
  <2>3. data'[dir'[a]] = <<>>
    BY <2>1, <2>2
  <2>4. <<>> = [i \in 1 .. 0 |-> u]
    OBVIOUS
  <2>5. QED
    BY <2>1, <2>3, <2>4
<1>2. CASE up[u].pc # "idle"
  <2> DEFINE t == up[u].target
  <2>1. up'[u].target = t /\ up'[u].inode = up[u].inode /\ t \in Artifact
    BY <1>2, UploadKept DEF InodesAreOwned
  <2>2. ASSUME NEW v \in Upload, BeginUpload(v, t) PROVE FALSE
    <3>1. opener'[t] = v /\ up[v].pc = "idle"
      BY <2>1, <2>2, BeginStep
    <3>2. QED
      BY <1>2, <2>1, <3>1
  <2>3. opener[t] = u /\ u \notin shared
    BY <2>1, <2>2, OpenerSteps
  <2>4. /\ up[u].pc \in {"tooLarge", "mismatch"} => dir[t] = NoFile
        /\ dir[t] # NoFile => /\ dir[t] = up[u].inode
                              /\ data[up[u].inode] = [i \in 1 .. up[u].flushed |-> u]
    BY <1>2, <2>3 DEF Holds, OpenedAlone
  <2>5. dir'[t] = dir[t] \/ dir'[t] = NoFile
    BY <2>1, <2>2, FileSteps
  <2>6. up'[u].pc \in {"tooLarge", "mismatch"} => dir'[t] = NoFile
    BY <2>1, <2>4, <2>5, RefusedUnlinks
  <2>7. ASSUME NEW v \in Upload \ {u}, Writing(v), up[v].target = t PROVE FALSE
    BY <1>2, <2>3, <2>7 DEF Alone
  <2>8. ASSUME dir'[t] # NoFile
        PROVE  /\ dir'[t] = up[u].inode
               /\ data'[up[u].inode] = [i \in 1 .. up'[u].flushed |-> u]
    <3>1. dir'[t] = up[u].inode /\ data[up[u].inode] = [i \in 1 .. up[u].flushed |-> u]
      BY <2>4, <2>5, <2>8
    <3> HIDE DEF ServedInv
    <3>2. QED
      BY <1>2, <2>2, <2>7, <3>1, FlushedStays
  <2>9. QED
    BY <2>1, <2>6, <2>8
<1>3. QED
  BY <1>1, <1>2, UploadBegins

\* Files keep their openers.
LEMMA OpenersStep ==
  ASSUME TypeOK, FilesHaveOpeners, [Next]_vars
  PROVE  FilesHaveOpeners'
<1> SUFFICES ASSUME NEW a \in Artifact, dir'[a] # NoFile
             PROVE  /\ opener'[a] \in Upload
                    /\ up'[opener'[a]].pc # "idle" /\ up'[opener'[a]].target = a
  BY DEF FilesHaveOpeners
<1>1. ASSUME NEW u \in Upload, BeginUpload(u, a)
      PROVE  /\ opener'[a] \in Upload
             /\ up'[opener'[a]].pc # "idle" /\ up'[opener'[a]].target = a
  <2>1. opener'[a] = u /\ up'[u].pc = "writing" /\ up'[u].target = a
    BY <1>1, BeginStep
  <2>2. QED
    BY <2>1
<1>2. CASE dir'[a] = dir[a] /\ opener'[a] = opener[a]
  <2>1. /\ opener[a] \in Upload
        /\ up[opener[a]].pc # "idle" /\ up[opener[a]].target = a
    BY <1>2 DEF FilesHaveOpeners
  <2>2. QED
    BY <1>2, <2>1, UploadKept
<1>3. QED
  BY <1>1, <1>2, FileSteps, OpenerSteps

\* A shared profile is written as a whole, and nobody else has been at its file.
LEMMA ShareFileWhole ==
  ASSUME StoreInv, WholeInv, NEW u \in Upload, ShareFile(u)
  PROVE  WholeInv'
<1>0. /\ sharing.of \in Artifact /\ up[u].pc = "idle"
      /\ up'[u] = [pc |-> "writing", target |-> sharing.of, inode |-> u,
                   sent |-> 1, flushed |-> 1]
      /\ \A v \in Upload \ {u} : up'[v] = up[v] /\ data'[v] = data[v]
      /\ dir'[sharing.of] = u /\ opener'[sharing.of] = u /\ data'[u] = <<u>>
      /\ \A b \in Artifact \ {sharing.of} : dir'[b] = dir[b] /\ opener'[b] = opener[b]
      /\ \A v \in Upload : up[v].pc # "idle" => up[v].target # sharing.of
      /\ UNCHANGED <<art, shared, work, reg, clean>>
  BY ShareFileStep DEF workerVars
<1>1. ASSUME NEW v \in Upload PROVE EndsWhole(v)'
  <2>1. CASE v = u
    BY <1>0, <2>1 DEF EndsWhole
  <2>2. CASE v # u
    BY <1>0, <2>2 DEF EndsWhole, WholeInv
  <2>3. QED
    BY <2>1, <2>2
<1>2. ASSUME NEW v \in Upload PROVE Holds(v)'
  <2>1. CASE v = u
    <3>1. <<u>> = [i \in 1 .. 1 |-> u]
      OBVIOUS
    <3>2. QED
      BY <1>0, <2>1, <3>1 DEF Holds
  <2>2. CASE v # u
    <3>1. SUFFICES ASSUME up[v].pc # "idle" PROVE Holds(v)'
      BY <1>0, <2>2 DEF Holds, OpenedAlone
    <3>2. /\ up[v].target \in Artifact \ {sharing.of} /\ up[v].inode \in Upload
          /\ up[up[v].inode].pc # "idle"
      BY <1>0, <3>1 DEF StoreInv, ServedInv, InodesAreOwned
    <3>3. /\ up'[v] = up[v] /\ data'[up[v].inode] = data[up[v].inode]
          /\ dir'[up[v].target] = dir[up[v].target]
          /\ opener'[up[v].target] = opener[up[v].target]
      BY <1>0, <2>2, <3>2
    <3>4. Holds(v)
      BY DEF WholeInv
    <3>5. QED
      BY <1>0, <3>3, <3>4 DEF Holds, OpenedAlone
  <2>3. QED
    BY <2>1, <2>2
<1>3. ASSUME NEW a \in Artifact, dir'[a] # NoFile
      PROVE  /\ opener'[a] \in Upload
             /\ up'[opener'[a]].pc # "idle" /\ up'[opener'[a]].target = a
  <2>1. CASE a = sharing.of
    BY <1>0, <2>1
  <2>2. CASE a # sharing.of
    <3>1. /\ opener[a] \in Upload
          /\ up[opener[a]].pc # "idle" /\ up[opener[a]].target = a
      BY <1>0, <1>3, <2>2 DEF WholeInv, FilesHaveOpeners
    <3>2. QED
      BY <1>0, <2>2, <3>1
  <2>3. QED
    BY <2>1, <2>2
<1>4. FilesHaveOpeners'
  BY <1>3 DEF FilesHaveOpeners
<1>5. QED
  BY <1>1, <1>2, <1>4 DEF WholeInv

\* Every step of the store keeps files whole.
LEMMA NextWholeInv == StoreInv /\ WholeInv /\ [ProfileNext]_allVars => WholeInv'
<1> SUFFICES ASSUME StoreInv, WholeInv, [ProfileNext]_allVars PROVE WholeInv'
  OBVIOUS
<1>1. CASE [Next]_vars
  <2>1. ASSUME NEW u \in Upload PROVE EndsWhole(u)' /\ Holds(u)'
    BY <1>1, EndsWholeStep, HoldsStep DEF WholeInv, StoreInv
  <2>2. FilesHaveOpeners'
    BY <1>1, OpenersStep DEF WholeInv, StoreInv
  <2>3. QED
    BY <2>1, <2>2 DEF WholeInv
<1>2. QED
  BY <1>1, ProfileSteps, ShareFileWhole

\* A command that has its path found a file there, and has no context yet.
FoundFirst ==
  \A c \in Command : use[c].pc = "resolved" =>
    use[c].of \in Artifact /\ use[c].seen # Absent /\ use[c].got = NoFile

\* Only Resolve makes a command one that has its path.
LEMMA FoundStep ==
  ASSUME StoreInv, UseTyped, FoundFirst, [ProfileNext]_allVars
  PROVE  FoundFirst'
<1>1. CASE CommandStep
  <2>1. ASSUME NEW c \in Command, NEW w,
               use' = [use EXCEPT ![c] = [@ EXCEPT !.pc = "running", !.got = w]]
        PROVE  FoundFirst'
    BY <2>1 DEF UseTyped, FoundFirst, Absent
  <2>2. ASSUME NEW c \in Command, use' = [use EXCEPT ![c] = [@ EXCEPT !.pc = "failed"]]
        PROVE  FoundFirst'
    BY <2>2 DEF UseTyped, FoundFirst, Absent
  <2>3. ASSUME NEW c \in Command, NEW a \in Artifact, Content(a, art[a].path) # Absent,
               use' = [use EXCEPT ![c] =
                        [pc |-> "resolved", of |-> a, path |-> art[a].path,
                         seen |-> Content(a, art[a].path), got |-> NoFile]]
        PROVE  FoundFirst'
    BY <2>3 DEF UseTyped, FoundFirst, Absent
  <2>4. QED
    BY <1>1, <2>1, <2>2, <2>3, CommandSteps
<1>2. CASE WorkerCrash /\ use' = [c \in Command |->
          IF use[c].pc = "resolved" THEN [use[c] EXCEPT !.pc = "lost"] ELSE use[c]]
  BY <1>2 DEF UseTyped, FoundFirst, Absent
<1>3. CASE UNCHANGED use
  BY <1>3 DEF FoundFirst, Absent
<1>4. QED
  BY <1>1, <1>2, <1>3
     DEF ProfileNext, ShareStep, ShareRow, ShareFile, SharePointer, profileVars, allVars

\* A file that is as it was found, and that no other upload was at, gives a context.
LEMMA UnspoiltIsWhole ==
  ASSUME StoreInv, UseTyped, WholeInv, FoundFirst,
         NEW c \in Command, use[c].pc = "resolved", ~Spoilt(c)
  PROVE  \E w \in WholeIn(Content(use[c].of, use[c].path)) : IsDone(w)
<1> DEFINE a == use[c].of
<1> DEFINE s == Content(use[c].of, use[c].path)
<1>1. a \in Artifact /\ use[c].path \in Paths /\ s # Absent
  BY DEF FoundFirst, UseTyped, Spoilt
<1>2. CASE use[c].path # "objects"
  <2>1. s = <<"captured">>
    BY <1>1, <1>2, ContentTypes DEF StoreInv, Absent
  <2>2. "captured" \in WholeIn(s) /\ IsDone("captured")
    BY <2>1 DEF WholeIn, IsDone
  <2>3. QED
    BY <2>2
<1>3. CASE use[c].path = "objects"
  <2> DEFINE w == opener[a]
  <2>1. dir[a] # NoFile /\ s = data[dir[a]]
    BY <1>1, <1>3 DEF Content
  <2>2. w \in Upload /\ up[w].pc # "idle" /\ up[w].target = a
    BY <1>1, <2>1 DEF WholeInv, FilesHaveOpeners
  <2>3. w \notin shared /\ up[w].pc \notin {"writing", "cut", "empty"}
    BY <2>2 DEF Spoilt
  <2>4. EndsWhole(w) /\ Holds(w)
    BY <2>2 DEF WholeInv
  <2>5. /\ up[w].pc \notin {"tooLarge", "mismatch"}
        /\ s = [i \in 1 .. up[w].flushed |-> w]
    BY <2>1, <2>2, <2>3, <2>4 DEF Holds, OpenedAlone
  <2>6. up[w].pc \in {"accepted", "gone"}
    BY <2>2, <2>3, <2>5 DEF StoreInv, TypeOK, UploadState, Rejected
  <2>7. up[w].sent > 0 /\ s = Body(w)
    BY <2>4, <2>5, <2>6 DEF EndsWhole, Body
  <2>8. w \in WholeIn(s)
    BY <2>2, <2>3, <2>7 DEF WholeIn
  <2>9. IsDone(w)
    BY <2>6 DEF IsDone, Writing
  <2>10. QED
    BY <2>8, <2>9
<1>4. QED
  BY <1>2, <1>3

\* The file of a profile gives no context only if it was changed or removed since the
\* command found it, if uploads to it were under way, cut off or one over the other, or
\* if what was found is no storage state.
THEOREM FallbacksAreEarned == ProfileSpec => FallbackIsEarned
<1> DEFINE Inv == StoreInv /\ UseTyped /\ WholeInv /\ FoundFirst
<1>1. ProfileInit => Inv
  <2> SUFFICES ASSUME ProfileInit PROVE Inv
    OBVIOUS
  <2>1. StoreInv
    BY InitStoreInv
  <2>2. UseTyped
    <3>1. <<>> \in Seq(Upload \cup {NoBody, NoFile, "captured"})
      OBVIOUS
    <3>2. QED
      BY <3>1 DEF ProfileInit, UseTyped, UsePC, Paths
  <2>3. WholeInv
    BY DEF ProfileInit, Init, WholeInv, EndsWhole, Holds, OpenedAlone, FilesHaveOpeners
  <2>4. FoundFirst
    BY DEF ProfileInit, FoundFirst
  <2>5. QED
    BY <2>1, <2>2, <2>3, <2>4
<1>2. Inv /\ [ProfileNext]_allVars => Inv'
  BY NextStoreInv, UseTypes, NextWholeInv, FoundStep
<1>3. ASSUME Inv, [ProfileNext]_allVars,
             NEW c \in Command, use[c].pc = "resolved", use'[c].got = "default"
      PROVE  Spoilt(c) \/ ~(WholeIn(use[c].seen) \subseteq State)
  <2>1. use[c].got # "default"
    BY <1>3, ProfileConstants DEF FoundFirst
  <2>2. ASSUME NEW d \in Command,
               NEW w \in Contexts(Content(use[d].of, use[d].path)) \cup {"raised"},
               use' = [use EXCEPT ![d] = [@ EXCEPT !.pc = "running", !.got = w]]
        PROVE  Spoilt(c) \/ ~(WholeIn(use[c].seen) \subseteq State)
    <3>1. d = c /\ w = "default"
      BY <1>3, <2>1, <2>2 DEF UseTyped
    <3>2. "default" \notin WholeIn(Content(use[c].of, use[c].path))
      BY ProfileConstants DEF WholeIn
    <3>3. ~\E v \in WholeIn(Content(use[c].of, use[c].path)) \cap State : IsDone(v)
      BY <2>2, <3>1, <3>2 DEF Contexts
    <3>4. SUFFICES ASSUME ~Spoilt(c) PROVE ~(WholeIn(use[c].seen) \subseteq State)
      OBVIOUS
    <3>5. PICK v \in WholeIn(Content(use[c].of, use[c].path)) : IsDone(v)
      BY <1>3, <3>4, UnspoiltIsWhole
    <3>6. Content(use[c].of, use[c].path) = use[c].seen
      BY <3>4 DEF Spoilt
    <3>7. QED
      BY <3>3, <3>5, <3>6
  <2>3. CASE CommandStep
    <3>1. ASSUME NEW d \in Command, use' = [use EXCEPT ![d] = [@ EXCEPT !.pc = "failed"]]
          PROVE  FALSE
      BY <1>3, <2>1, <3>1 DEF UseTyped
    <3>2. ASSUME NEW d \in Command, NEW a \in Artifact,
                 use' = [use EXCEPT ![d] =
                          [pc |-> "resolved", of |-> a, path |-> art[a].path,
                           seen |-> Content(a, art[a].path), got |-> NoFile]]
          PROVE  FALSE
      BY <1>3, <2>1, <3>2, ProfileConstants DEF UseTyped
    <3>3. QED
      BY <1>3, <2>2, <2>3, <3>1, <3>2, CommandSteps
  <2>4. CASE WorkerCrash /\ use' = [d \in Command |->
          IF use[d].pc = "resolved" THEN [use[d] EXCEPT !.pc = "lost"] ELSE use[d]]
    BY <1>3, <2>1, <2>4 DEF UseTyped
  <2>5. CASE UNCHANGED use
    BY <1>3, <2>1, <2>5
  <2>6. QED
    BY <1>3, <2>3, <2>4, <2>5
       DEF ProfileNext, ShareStep, ShareRow, ShareFile, SharePointer, profileVars, allVars
<1>4. Inv /\ [ProfileNext]_allVars =>
        (\A c \in Command : use[c].pc = "resolved" /\ use'[c].got = "default" =>
           Spoilt(c) \/ ~(WholeIn(use[c].seen) \subseteq State))
  BY <1>3
<1> HIDE DEF Inv
<1>5. QED
  BY <1>1, <1>2, <1>4, PTL DEF ProfileSpec, FallbackIsEarned
================================================================================
