------------------------------- MODULE ProfileUse -------------------------------
(***************************************************************************)
(* Commands that run with a stored browser profile, beside everything that *)
(* may happen to the artifact the profile is.                              *)
(*   - A thread of the worker resolves profile_artifact_id to a path       *)
(*     (worker._resolve_profile_path), starts Playwright, and only then    *)
(*     has the browser read the file (run_artifact.BrowserRunner.attach).  *)
(*     A context that cannot be made, for whatever reason, is replaced by  *)
(*     the browser's default context, silently.                            *)
(*   - POST /share-session (share_session.py) stores a profile in three    *)
(*     steps, row, file, pointer, without letting other requests in.       *)
(* A file gives a context if it holds one storage state and all of it;     *)
(* the API takes any body for an artifact, so not every upload is one.     *)
(***************************************************************************)
EXTENDS ArtifactBlobs

CONSTANTS
  State,        \* bodies that are storage states: uploads, or "captured"
  Command,      \* bound: commands with a profile
  Shareable     \* bound: posted artifacts that may also be made by share-session

ASSUME ProfileAssumption ==
  /\ Shareable \subseteq Posted /\ MaxChunks > 0
  /\ State \subseteq Upload \cup {"captured"}
  /\ {"captured", "default", "raised"} \cap (Upload \cup {NoFile}) = {}

VARIABLES
  use,      \* [Command -> its profile and what became of it]
  sharing   \* share_session under way: its artifact and its upload, or NoFile

profileVars == <<use, sharing>>
allVars == <<vars, profileVars>>

UsePC == {"idle", "resolved", "failed", "running", "lost"}

ProfileTypeOK ==
  /\ TypeOK
  /\ use \in [Command -> [pc : UsePC, of : Artifact \cup {NoFile}, path : Paths,
                          seen : Seq(Upload \cup {NoBody, NoFile, "captured"}),
                          got : Upload \cup {NoFile, "captured", "default", "raised"}]]
  /\ sharing \in [of : Artifact \cup {NoFile}, by : Upload \cup {NoFile}]

NotSharing == [of |-> NoFile, by |-> NoFile]

ProfileInit ==
  /\ Init
  /\ use = [c \in Command |-> [pc |-> "idle", of |-> NoFile, path |-> "none",
                               seen |-> <<>>, got |-> NoFile]]
  /\ sharing = NotSharing

--------------------------------------------------------------------------------
(* share_session *)

ShareRow(a) ==
  /\ sharing = NotSharing /\ a \in Shareable
  /\ CreateArtifact(a)
  /\ sharing' = [sharing EXCEPT !.of = a]
  /\ UNCHANGED use

\* write_bytes of the whole storage state.
ShareFile(u) ==
  /\ sharing.of # NoFile /\ sharing.by = NoFile /\ up[u].pc = "idle"
  /\ sharing' = [sharing EXCEPT !.by = u]
  /\ dir' = [dir EXCEPT ![sharing.of] = u]
  /\ data' = [data EXCEPT ![u] = <<u>>]
  /\ up' = [up EXCEPT ![u] = [pc |-> "writing", target |-> sharing.of, inode |-> u,
                              sent |-> 1, flushed |-> 1]]
  /\ opener' = [opener EXCEPT ![sharing.of] = u]
  /\ UNCHANGED <<art, shared, workerVars, clean, crashes, missed, use>>

\* update_blob; when the row has gone the answer is 500 and the file stays.
SharePointer ==
  /\ sharing.by # NoFile
  /\ sharing' = NotSharing
  /\ up' = [up EXCEPT ![sharing.by].pc = IF Live(sharing.of) THEN "accepted" ELSE "gone"]
  /\ art' = IF Live(sharing.of)
            THEN [art EXCEPT ![sharing.of].path = "objects", ![sharing.of].sum = sharing.by]
            ELSE art
  /\ UNCHANGED <<dir, data, opener, shared, workerVars, clean, crashes, missed, use>>

--------------------------------------------------------------------------------
(* A command with profile_artifact_id *)

Absent == <<NoFile>>

\* What a path leads to.
Content(a, path) ==
  CASE path = "work" -> IF work[a] THEN <<"captured">> ELSE Absent
    [] path = "objects" -> IF dir[a] # NoFile THEN data[dir[a]] ELSE Absent
    [] path = "none" -> Absent

Leave(c, pc) ==
  /\ use' = [use EXCEPT ![c].pc = pc]
  /\ UNCHANGED <<vars, sharing>>

Resolved(c, a, path) ==
  /\ use' = [use EXCEPT ![c] = [pc |-> "resolved", of |-> a, path |-> path,
                                seen |-> Content(a, path), got |-> NoFile]]
  /\ UNCHANGED <<vars, sharing>>

ResolvesInStore(c, a) ==
  Live(a) /\ Content(a, "objects") # Absent /\ Resolved(c, a, "objects")
ResolvesUnchecked(c, a) ==
  Live(a) /\ art[a].path # "none" /\ Resolved(c, a, art[a].path)

\* The row, its blob_path and the file are there.
Resolves(c, a) ==
  Live(a) /\ Content(a, art[a].path) # Absent /\ Resolved(c, a, art[a].path)

Resolve(c, a) ==
  /\ use[c].pc = "idle" /\ art[a].state # "none"
  /\ \/ Resolves(c, a)
     \/ (~Live(a) \/ Content(a, art[a].path) = Absent) /\ Leave(c, "failed")

\* The bodies that a file holds the whole of; an upload may have flushed all of its
\* own before it is done.
WholeIn(s) ==
  {w \in Upload : up[w].sent > 0 /\ up[w].pc # "cut" /\ s = Body(w)}
  \cup IF s = <<"captured">> THEN {"captured"} ELSE {}
IsDone(w) == w = "captured" \/ ~Writing(w)

\* new_context raises unless the file holds one state.
Contexts(s) == (WholeIn(s) \cap State) \cup
  IF \E w \in WholeIn(s) \cap State : IsDone(w) THEN {} ELSE {"default"}

Runs(c, context) ==
  /\ use' = [use EXCEPT ![c].pc = "running", ![c].got = context]
  /\ UNCHANGED <<vars, sharing>>

\* new_context and new_page may raise whatever the file holds ("raised"): that too
\* gives the default context.  connect_over_cdp, and the calls that get the default
\* context, are not caught.
OpenContext(c) ==
  /\ use[c].pc = "resolved"
  /\ \/ \E w \in Contexts(Content(use[c].of, use[c].path)) : Runs(c, w)
     \/ Runs(c, "raised")
     \/ Leave(c, "failed")

CommandStep == \E c \in Command :
  OpenContext(c) \/ \E a \in Artifact : Resolve(c, a)

--------------------------------------------------------------------------------
ShareStep == (\E a \in Shareable : ShareRow(a)) \/ (\E u \in Upload : ShareFile(u)) \/ SharePointer

ProfileNext ==
  \/ sharing = NotSharing /\ ApiStep /\ UNCHANGED profileVars
  \/ (WorkerStep \/ TimePasses) /\ UNCHANGED profileVars
  \/ ShareStep
  \/ CommandStep
  \/ ApiCrash /\ sharing' = NotSharing /\ UNCHANGED use
  \/ /\ WorkerCrash
     /\ use' = [c \in Command |->
          IF use[c].pc = "resolved" THEN [use[c] EXCEPT !.pc = "lost"] ELSE use[c]]
     /\ UNCHANGED sharing

ProfileSpec == ProfileInit /\ [][ProfileNext]_allVars

--------------------------------------------------------------------------------
(* Properties *)

\* A file gives no context, and its command the default one as if no profile had
\* been asked for, only if it was changed or removed between the worker's check and the
\* browser's reading of it, if uploads to it were under way, cut off or one over the
\* other, or if what the worker had found there is a whole body but no storage state.
Spoilt(c) ==
  \/ Content(use[c].of, use[c].path) # use[c].seen
  \/ \E u \in Upload :
       /\ up[u].target = use[c].of
       /\ u \in shared \/ up[u].pc \in {"writing", "cut", "empty"}
FallbackIsEarned ==
  [][\A c \in Command : use[c].pc = "resolved" /\ use'[c].got = "default" =>
       Spoilt(c) \/ ~(WholeIn(use[c].seen) \subseteq State)]_allVars

\* A command runs with a body that was accepted, or that came over one that was:
\* never with the first body of an artifact before its checksum is known to hold.
ProfileWasAccepted ==
  \A c \in Command :
    use[c].got \in Upload => WasAccepted(use[c].of)
================================================================================
