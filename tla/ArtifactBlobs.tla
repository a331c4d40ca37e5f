----------------------------- MODULE ArtifactBlobs -----------------------------
(***************************************************************************)
(* Artifacts of one owner: a row in the database and a file on disk, with  *)
(* no transaction over the two.                                            *)
(*   - The API (artifacts.py) creates rows, streams uploads into the file  *)
(*     of an artifact, deletes one artifact or all of a session.  Its      *)
(*     handlers are coroutines; an upload awaits every chunk.              *)
(*   - Threads of the worker register the files they captured.             *)
(*   - The worker (worker.py) purges the artifacts of an expired sandbox   *)
(*     and sweeps those past their retention.  Neither awaits anything     *)
(*     between listing and the last unlink, but the API is another         *)
(*     process, and the registering threads run beside the event loop.     *)
(* Upload u sends chunks; a file is the sequence of whose chunk is where.  *)
(***************************************************************************)
EXTENDS Naturals, Sequences, FiniteSets

CONSTANTS
  Posted,       \* artifacts created by POST /artifacts
  Captured,     \* artifacts a worker thread registers; one of both is made by
                \* whichever comes first
  Scoped,       \* the artifacts that carry the sandbox_id of the expiring sandbox
  Upload,       \* PUT requests
  UploadLimit,  \* ARTIFACT_MAX_UPLOAD_BYTES in chunks, 0 for none
  BatchLimit,   \* limit=1000 of every listing for deletion
  InfoEnabled,  \* the worker logs at level INFO
  Presigned,    \* bound: artifacts that upload links are asked for
  MaxChunks,    \* bound: chunks of an upload
  MaxCrashes,   \* bound: crashes of the API and of the worker
  NoFile, NoBody

Artifact == Posted \cup Captured

ASSUME BlobAssumption ==
  /\ Scoped \subseteq Artifact /\ Presigned \subseteq Artifact
  /\ {UploadLimit, MaxChunks, MaxCrashes} \subseteq Nat
  /\ BatchLimit \in Nat \ {0}
  /\ InfoEnabled \in BOOLEAN
  /\ NoFile \notin Upload /\ NoBody \notin Upload

VARIABLES
  art,      \* [Artifact -> Row]
  dir,      \* [Artifact -> inode at ArtifactStore.blob_path, or NoFile]
  data,     \* [Upload -> Seq]: content of the inode that upload created
  up,       \* [Upload -> state of its upload_blob]
  work,     \* [Captured -> BOOLEAN]: the captured file is on disk
  reg,      \* [Captured -> position in register_artifact_file]
  clean,    \* [Process -> state of the deletion loop it runs]
  sweeping, \* _retention_sweep_loop is alive
  purge,    \* enforce_ttl's purge of the sandbox
  crashes,
  opener,   \* history: [Artifact -> last upload that opened its file]
  shared,   \* history: uploads whose file another upload opened meanwhile
  missed    \* history: rows deleted with a blob_path the listing did not have

vars == <<art, dir, data, up, work, reg, clean, sweeping, purge, crashes, opener,
          shared, missed>>
uploadVars == <<data, up, opener, shared>>
workerVars == <<work, reg, sweeping, purge>>

Process == {"api", "worker"}
Paths == {"none", "objects", "work"}
Row == [state : {"none", "live", "gone"}, path : Paths,
        sum : Upload \cup {NoBody, "captured"},
        link : {"none", "valid", "expired"}, old : BOOLEAN]
Rejected == {"tooLarge", "empty", "mismatch", "gone", "cut"}
UploadState ==
  [pc : {"idle", "writing", "accepted"} \cup Rejected,
   target : Artifact \cup {NoFile}, inode : Upload \cup {NoFile},
   sent : 0 .. MaxChunks, flushed : 0 .. MaxChunks]
Loop == [pc : {"idle", "purge", "sweep", "session"},
         todo : SUBSET (Artifact \X Paths), pending : SUBSET (Artifact \X Paths)]

TypeOK ==
  /\ art \in [Artifact -> Row]
  /\ dir \in [Artifact -> Upload \cup {NoFile}]
  /\ data \in [Upload -> Seq(Upload \cup {NoBody})]
  /\ up \in [Upload -> UploadState]
  /\ \A u \in Upload : up[u].flushed <= up[u].sent /\ (UploadLimit > 0 => up[u].sent <= UploadLimit)
  /\ work \in [Captured -> BOOLEAN]
  /\ reg \in [Captured -> {"idle", "file", "created", "done", "lost"}]
  /\ clean \in [Process -> Loop]
  /\ sweeping \in BOOLEAN
  /\ purge \in {"none", "done", "lost"}
  /\ crashes \in 0 .. MaxCrashes
  /\ opener \in [Artifact -> Upload \cup {NoFile}]
  /\ shared \subseteq Upload
  /\ missed \subseteq Artifact

Idle == [pc |-> "idle", todo |-> {}, pending |-> {}]

Init ==
  /\ art = [a \in Artifact |-> [state |-> "none", path |-> "none", sum |-> NoBody,
                                link |-> "none", old |-> FALSE]]
  /\ dir = [a \in Artifact |-> NoFile]
  /\ data = [u \in Upload |-> <<>>]
  /\ up = [u \in Upload |-> [pc |-> "idle", target |-> NoFile, inode |-> NoFile,
                             sent |-> 0, flushed |-> 0]]
  /\ work = [a \in Captured |-> FALSE]
  /\ reg = [a \in Captured |-> "idle"]
  /\ clean = [x \in Process |-> Idle]
  /\ sweeping = TRUE
  /\ purge = "none"
  /\ crashes = 0
  /\ opener = [a \in Artifact |-> NoFile]
  /\ shared = {}
  /\ missed = {}

Live(a) == art[a].state = "live"

\* A handler that deletes a session's artifacts does not yield to the others.
ApiFree == clean["api"].pc = "idle"

--------------------------------------------------------------------------------
(* Rows: create_artifact, presigned uploads, the passing of time. *)

CreateRow(a) == art' = [art EXCEPT ![a].state = "live"]

CreateArtifact(a) ==
  /\ ApiFree /\ a \in Posted /\ art[a].state = "none"
  /\ a \in Captured => reg[a] = "idle"
  /\ CreateRow(a)
  /\ UNCHANGED <<dir, uploadVars, workerVars, clean, crashes, missed>>

Presign(a) ==
  /\ ApiFree /\ a \in Presigned /\ Live(a)
  /\ art' = [art EXCEPT ![a].link = "valid"]
  /\ UNCHANGED <<dir, uploadVars, workerVars, clean, crashes, missed>>

LinkExpires(a) ==
  /\ art[a].link = "valid"
  /\ art' = [art EXCEPT ![a].link = "expired"]
  /\ UNCHANGED <<dir, uploadVars, workerVars, clean, crashes, missed>>

RetentionEnds(a) ==
  /\ Live(a) /\ ~art[a].old
  /\ art' = [art EXCEPT ![a].old = TRUE]
  /\ UNCHANGED <<dir, uploadVars, workerVars, clean, crashes, missed>>

--------------------------------------------------------------------------------
(* upload_blob *)

Writing(u) == up[u].pc = "writing"

OpenToAppend(u, a) == data

\* blob_path.open("wb"): truncates the file that is there, or makes one.
Truncated(u, a) == [data EXCEPT ![IF dir[a] = NoFile THEN u ELSE dir[a]] = <<>>]

BeginUpload(u, a) ==
  /\ ApiFree /\ up[u].pc = "idle"
  /\ Live(a) /\ art[a].link # "expired"
  /\ data' = Truncated(u, a)
  /\ dir' = [dir EXCEPT ![a] = IF @ = NoFile THEN u ELSE @]
  /\ up' = [up EXCEPT ![u] = [pc |-> "writing", target |-> a, inode |-> dir'[a],
                              sent |-> 0, flushed |-> 0]]
  /\ opener' = [opener EXCEPT ![a] = u]
  /\ LET others == {v \in Upload : Writing(v) /\ up[v].target = a}
     IN  shared' = shared \cup (IF others = {} THEN {} ELSE others \cup {u})
  /\ UNCHANGED <<art, workerVars, clean, crashes, missed>>

\* The handle has its own offset: u's chunks from + 1 .. to, holes before.
Longer(m, n) == IF m < n THEN n ELSE m
Overwritten(s, u, from, to) ==
  [i \in 1 .. (IF from < to THEN Longer(Len(s), to) ELSE Len(s)) |->
     IF i \in from + 1 .. to THEN u ELSE IF i <= Len(s) THEN s[i] ELSE NoBody]

FlushTo(u, n) ==
  data' = [data EXCEPT ![up[u].inode] = Overwritten(@, u, up[u].flushed, n)]

WithinLimit(u) == UploadLimit = 0 \/ up[u].sent < UploadLimit

\* handle.write buffers: any part of what was sent may be in the file.
ReceiveChunk(u) ==
  /\ ApiFree /\ Writing(u)
  /\ up[u].sent < MaxChunks /\ WithinLimit(u)
  /\ \E n \in up[u].flushed .. up[u].sent + 1 :
       /\ FlushTo(u, n)
       /\ up' = [up EXCEPT ![u].sent = @ + 1, ![u].flushed = n]
  /\ UNCHANGED <<art, dir, workerVars, clean, crashes, opener, shared, missed>>

\* The handle is closed, with what was buffered written.
Close(u, result) ==
  /\ ApiFree /\ Writing(u)
  /\ FlushTo(u, up[u].sent)
  /\ up' = [up EXCEPT ![u].pc = result, ![u].flushed = up[u].sent]

\* update_blob. It may replace the path of a captured file, which then stays.
Accept(u) ==
  /\ up[u].sent > 0 /\ Writing(u) /\ Live(up[u].target)
  /\ Close(u, "accepted")
  /\ art' = [art EXCEPT ![up[u].target].path = "objects",
                        ![up[u].target].sum = u]
  /\ UNCHANGED <<dir, workerVars, clean, crashes, opener, shared, missed>>

\* 413 and 401: the file is unlinked, whichever it is by now.
RejectAndUnlink(u) ==
  /\ \/ up[u].sent > 0 /\ Close(u, "mismatch")
     \/ UploadLimit > 0 /\ up[u].sent >= UploadLimit /\ Close(u, "tooLarge")
  /\ dir' = [dir EXCEPT ![up[u].target] = NoFile]
  /\ UNCHANGED <<art, workerVars, clean, crashes, opener, shared, missed>>

\* 400 for an empty body, 404 if the row has gone, a client that disconnects: the
\* file stays as it is.
RejectAndLeave(u) ==
  /\ \/ up[u].sent = 0 /\ Close(u, "empty")
     \/ up[u].sent > 0 /\ Writing(u) /\ ~Live(up[u].target) /\ Close(u, "gone")
     \/ Close(u, "cut")
  /\ UNCHANGED <<art, dir, workerVars, clean, crashes, opener, shared, missed>>

--------------------------------------------------------------------------------
(* register_artifact_file, in a thread of the worker *)

Capture(a) ==
  /\ reg[a] = "idle" /\ art[a].state = "none"
  /\ work' = [work EXCEPT ![a] = TRUE]
  /\ reg' = [reg EXCEPT ![a] = "file"]
  /\ UNCHANGED <<art, dir, uploadVars, clean, sweeping, purge, crashes, missed>>

Register(a) ==
  /\ reg[a] = "file"
  /\ CreateRow(a)
  /\ reg' = [reg EXCEPT ![a] = "created"]
  /\ UNCHANGED <<dir, uploadVars, work, clean, sweeping, purge, crashes, missed>>

\* The row may have been deleted; the artifact is announced all the same.
SetBlob(a) ==
  /\ reg[a] = "created"
  /\ art' = IF Live(a)
            THEN [art EXCEPT ![a].path = "work", ![a].sum = "captured"] ELSE art
  /\ reg' = [reg EXCEPT ![a] = "done"]
  /\ UNCHANGED <<dir, uploadVars, work, clean, sweeping, purge, crashes, missed>>

--------------------------------------------------------------------------------
(* Deleting rows and files *)

\* The rows a listing returns, with the blob_path each has at that moment.
Listings(A) ==
  LET live == {a \in A : Live(a)}
      size == IF Cardinality(live) < BatchLimit THEN Cardinality(live) ELSE BatchLimit
  IN  {{<<a, art[a].path>> : a \in B} : B \in {C \in SUBSET live : Cardinality(C) = size}}

List(x, kind, A) ==
  /\ clean[x].pc = "idle"
  /\ \E todo \in Listings(A) :
       clean' = [clean EXCEPT ![x] = [pc |-> kind, todo |-> todo, pending |-> {}]]
  /\ UNCHANGED <<art, dir, uploadVars, workerVars, crashes, missed>>

BeginSession == List("api", "session", Artifact)
BeginPurge == purge = "none" /\ List("worker", "purge", Scoped)

\* A sweep that finds nothing changes nothing.
Stale == {a \in Artifact : Live(a) /\ art[a].old}
BeginSweep == sweeping /\ Stale # {} /\ List("worker", "sweep", Stale)

GoneRow(a) == IF Live(a) THEN [art EXCEPT ![a].state = "gone"] ELSE art

DeleteRow(x) ==
  /\ clean[x].pending = {}
  /\ \E entry \in clean[x].todo :
       /\ art' = GoneRow(entry[1])
       /\ clean' = [clean EXCEPT ![x].todo = @ \ {entry}, ![x].pending = {entry}]
       /\ missed' = IF Live(entry[1]) /\ art[entry[1]].path # entry[2]
                    THEN missed \cup {entry[1]} ELSE missed
  /\ UNCHANGED <<dir, uploadVars, workerVars, crashes>>

\* Path(blob_path).unlink(), by the path given.
RemoveStored(a, p) ==
  dir' = (IF p = "objects" THEN [dir EXCEPT ![a] = NoFile] ELSE dir) /\ UNCHANGED work
Remove(a, p) ==
  /\ dir' = IF p = "objects" THEN [dir EXCEPT ![a] = NoFile] ELSE dir
  /\ work' = IF p = "work" THEN [work EXCEPT ![a] = FALSE] ELSE work

Unlink(x) ==
  /\ \E entry \in clean[x].pending : Remove(entry[1], entry[2])
  /\ clean' = [clean EXCEPT ![x].pending = {}]
  /\ UNCHANGED <<art, uploadVars, reg, sweeping, purge, crashes, missed>>

\* A sweep logs at INFO with keyword arguments, which the logger refuses; the
\* handler of that error logs the same way, and the loop ends.
SurvivesLogging == ~InfoEnabled
FinishLoop(x) ==
  /\ clean[x].pc # "idle" /\ clean[x].todo = {} /\ clean[x].pending = {}
  /\ clean' = [clean EXCEPT ![x] = Idle]
  /\ purge' = IF clean[x].pc = "purge" THEN "done" ELSE purge
  /\ sweeping' = (sweeping /\ (clean[x].pc = "sweep" => SurvivesLogging))
  /\ UNCHANGED <<art, dir, uploadVars, work, reg, crashes, missed>>

DeleteArtifact(a) ==
  /\ ApiFree /\ Live(a)
  /\ art' = GoneRow(a)
  /\ Remove(a, art[a].path)
  /\ UNCHANGED <<uploadVars, reg, clean, sweeping, purge, crashes, missed>>

--------------------------------------------------------------------------------
(* Crashes.  A restarted worker sweeps again; its TTL tasks are lost. *)

ApiCrash ==
  /\ crashes < MaxCrashes
  /\ crashes' = crashes + 1
  /\ up' = [u \in Upload |-> IF Writing(u) THEN [up[u] EXCEPT !.pc = "cut"] ELSE up[u]]
  /\ clean' = [clean EXCEPT !["api"] = Idle]
  /\ UNCHANGED <<art, dir, data, opener, shared, workerVars, missed>>

WorkerCrash ==
  /\ crashes < MaxCrashes
  /\ crashes' = crashes + 1
  /\ clean' = [clean EXCEPT !["worker"] = Idle]
  /\ reg' = [a \in Captured |-> IF reg[a] \in {"file", "created"} THEN "lost" ELSE reg[a]]
  /\ sweeping' = TRUE
  /\ purge' = IF purge = "done" THEN "done" ELSE "lost"
  /\ UNCHANGED <<art, dir, uploadVars, work, missed>>

--------------------------------------------------------------------------------
LoopStep(x) == DeleteRow(x) \/ Unlink(x) \/ FinishLoop(x)

ApiStep ==
  \/ \E a \in Artifact :
       \/ CreateArtifact(a) \/ Presign(a) \/ DeleteArtifact(a)
       \/ \E u \in Upload : BeginUpload(u, a)
  \/ \E u \in Upload :
       ReceiveChunk(u) \/ Accept(u) \/ RejectAndUnlink(u) \/ RejectAndLeave(u)
  \/ BeginSession \/ LoopStep("api")

WorkerStep ==
  \/ \E a \in Captured : Capture(a) \/ Register(a) \/ SetBlob(a)
  \/ BeginPurge \/ BeginSweep \/ LoopStep("worker")

TimePasses == \E a \in Artifact : LinkExpires(a) \/ RetentionEnds(a)

Next == ApiStep \/ WorkerStep \/ TimePasses \/ ApiCrash \/ WorkerCrash

Spec == Init /\ [][Next]_vars

\* The worker goes on with a loop it has begun, registers what it captured, and
\* wakes up for the next sweep.  Clients and crashes come when they like.
Fairness ==
  /\ WF_vars(LoopStep("worker")) /\ SF_vars(BeginSweep)
  /\ \A a \in Captured : WF_vars(Register(a) \/ SetBlob(a))

FairSpec == Spec /\ Fairness

--------------------------------------------------------------------------------
(* Properties. *)

Body(u) == [i \in 1 .. up[u].sent |-> u]

\* What a row promises a download (artifacts.py:684): the captured file, or the
\* body whose checksum the row has, unless another upload opened the same file
\* while that body came in or afterwards.
BlobIsServed ==
  \A a \in Artifact : Live(a) =>
    /\ art[a].path = "work" => work[a]
    /\ art[a].path = "objects" /\ opener[a] = art[a].sum /\ art[a].sum \notin shared =>
         dir[a] # NoFile /\ data[dir[a]] = Body(art[a].sum)

\* An artifact may have a file in the store and the one that was captured.
FileAt(a, p) ==
  \/ p = "objects" /\ dir[a] # NoFile
  \/ p = "work" /\ a \in Captured /\ work[a]

\* Somebody will still touch the file of artifact a at p.
InUse(a, p) ==
  \/ p = "objects" /\ \E u \in Upload : Writing(u) /\ up[u].target = a
  \/ p = "work" /\ reg[a] \in {"file", "created"}
  \/ \E x \in Process : <<a, p>> \in clean[x].pending

\* artifacts.py:710 "Delete artifact (row + blob)": a deleted artifact leaves no
\* file.
DeleteRemovesBlob ==
  \A a \in Artifact, p \in {"objects", "work"} :
    art[a].state = "gone" /\ FileAt(a, p) => InUse(a, p)

WasAccepted(a) == \E u \in Upload : up[u].target = a /\ up[u].pc = "accepted"

\* What the code keeps of it: a file, stored or captured, outlives its row only if
\* an upload to it was not accepted, the row was deleted before the captured file was
\* set in it, an accepted upload and the captured file took the row's one pointer
\* from each other, the pointer moved after the row was listed for deletion, or a
\* process died.  A file that the deleted row pointed to is never one of them.
OrphansAreExplained ==
  \A a \in Artifact, p \in {"objects", "work"} :
    art[a].state = "gone" /\ FileAt(a, p) /\ ~InUse(a, p) =>
      \/ p = "objects" /\ \E u \in Upload : up[u].target = a /\ up[u].pc \in Rejected
      \/ p = "work" /\ art[a].path = "none"
      \/ art[a].path # p /\ WasAccepted(a)
      \/ a \in missed \/ crashes > 0

\* worker.py:1240 "purge sandbox-scoped artifacts on termination": once the purge
\* is over no artifact of the sandbox is registered.
PurgedStaysPurged ==
  purge = "done" => \A a \in Scoped \cap Captured : ~Live(a)

\* worker.py:1638 "Periodically delete artifacts older than
\* ARTIFACT_RETENTION_DAYS": an artifact past its retention goes in the end.
OldArtifactsGo == \A a \in Artifact : (Live(a) /\ art[a].old) ~> ~Live(a)
================================================================================
