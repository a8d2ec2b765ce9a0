------------------------ MODULE RestoreRunnerProof ------------------------
(***************************************************************************)
(* Proofs about RestoreRunner.  RunnerInv says which jobs reach a step and *)
(* what holds of the guest there; it is inductive, and the safety          *)
(* properties of the runner are parts or consequences of it.               *)
(***************************************************************************)
EXTENDS RestoreRunner, TLAPS

(* The names of sets of steps and the shape of a job are expanded in every  *)
(* proof of this module.                                                    *)
USE DEF Working, Commands, LocalSteps, Settled, Trailing, PreChunk, Tolerated,
        Large, NeedsExec

(* What the assumption on the constants says of the job and the site at     *)
(* hand.                                                                    *)
LEMMA Constants ==
  ASSUME TypeOK
  PROVE  job \in JobType /\ site \in SiteType /\ Rank[site.minimum] <= Rank[site.preferred]
BY RunnerAssumption DEF TypeOK

(* An empty scratch directory is within the bound.                          *)
LEMMA ZeroChunks == 0 \in 0..MaxChunks
<1>1. MaxChunks \in Nat
  BY RunnerAssumption
<1> QED BY <1>1

(* The order of TLS_MODES.                                                  *)
LEMMA ModeRanks == Rank["plaintext"] = 0 /\ Rank["insecure"] = 1 /\ Rank["verify"] = 2
BY DEF Rank, Modes

(* resolve_tls_mode() returns a mode of the range that the tool supports,   *)
(* or none.                                                                 *)
LEMMA ResolvedMode ==
  ASSUME NEW t, NEW p \in Modes, NEW least \in Modes,
         NEW m, m = ResolveTlsMode(t, p, least), m # "none"
  PROVE  /\ m \in Modes
         /\ Rank[least] <= Rank[m] /\ Rank[m] <= Rank[p]
         /\ ToolSupportsTls(t, m)
<1> DEFINE able == {n \in Modes : /\ Rank[least] <= Rank[n]
                                  /\ Rank[n] <= Rank[p]
                                  /\ ToolSupportsTls(t, n)}
<1>1. able # {} /\ m = CHOOSE n \in able : \A o \in able : Rank[o] <= Rank[n]
  BY DEF ResolveTlsMode
<1>2. \E n \in able : \A o \in able : Rank[o] <= Rank[n]
  <2>1. CASE "verify" \in able
    BY <2>1, ModeRanks DEF Modes
  <2>2. CASE "verify" \notin able /\ "insecure" \in able
    BY <2>2, ModeRanks DEF Modes
  <2>3. CASE "verify" \notin able /\ "insecure" \notin able
    BY <2>3, <1>1, ModeRanks DEF Modes
  <2> QED BY <2>1, <2>2, <2>3
<1>3. m \in able
  BY <1>1, <1>2
<1> QED BY <1>3

(* The clamped floor is within what the administrator allows, and plaintext *)
(* only where it is preferred.                                              *)
LEMMA MinimumRange ==
  ASSUME TypeOK
  PROVE  /\ Minimum \in Modes
         /\ Rank[site.minimum] <= Rank[Minimum]
         /\ Rank[Minimum] <= Rank[site.preferred]
         /\ Minimum = "plaintext" => site.preferred = "plaintext"
BY Constants, ModeRanks DEF Minimum, ClampedMinimum, SiteType, Modes

(* What moving content into the guest leaves of the scratch directory.      *)
LEMMA MovedFits ==
  ASSUME NEW g \in GuestType, NEW what \in {"partial", "source"}, NEW m \in {"other", "0666"},
         NEW h, h \in {Moved(g, what, m), Overwritten(g, what, m)}
  PROVE  /\ h \in GuestType /\ h.scratch = g.scratch /\ h.chunks = g.chunks
         /\ h.owner = g.owner /\ h.mode \in {g.mode, m}
<1>1. Overwritten(g, what, m) =
        [g EXCEPT !.content = what, !.mtime = "other",
                  !.mode = IF g.content = "absent" THEN m ELSE g.mode]
  BY DEF Overwritten, GuestType
<1>2. \/ h = Overwritten(g, what, m)
      \/ h = [g EXCEPT !.archive = IF g.scratch THEN what ELSE g.archive]
  BY DEF Moved, GuestType
<1>3. CASE h = Overwritten(g, what, m)
  BY <1>1, <1>3 DEF GuestType, Contents
<1>4. CASE h = [g EXCEPT !.archive = IF g.scratch THEN what ELSE g.archive]
  BY <1>4 DEF GuestType
<1> QED BY <1>2, <1>3, <1>4

(* A late chmod u+w adds the owner's write permission to a restored mode,   *)
(* and that is all it does to the file.                                     *)
LEMMA OwnerWrite ==
  ASSUME NEW g \in GuestType,
         NEW h, h \in {g, [g EXCEPT !.mode = OwnerWritable(g.mode)],
                       [g EXCEPT !.locked = FALSE, !.mode = OwnerWritable(g.mode)]}
  PROVE  /\ h \in GuestType /\ h.scratch = g.scratch /\ h.chunks = g.chunks
         /\ h.content = g.content /\ h.mtime = g.mtime /\ h.owner = g.owner
         /\ h.mode # g.mode => ~site.windows /\ g.mode = "source" /\ h.mode = "widened"
<1>1. OwnerWritable(g.mode) \in {"other", "0666", "source", "stripped", "widened"}
  BY DEF OwnerWritable, GuestType
<1>2. OwnerWritable(g.mode) # g.mode =>
        ~site.windows /\ g.mode = "source" /\ OwnerWritable(g.mode) = "widened"
  BY DEF OwnerWritable
<1>3. /\ h.content = g.content /\ h.mtime = g.mtime /\ h.owner = g.owner
      /\ h.scratch = g.scratch /\ h.chunks = g.chunks
      /\ h.mode \in {g.mode, OwnerWritable(g.mode)}
  BY DEF GuestType
<1>4. h \in GuestType
  BY <1>1 DEF GuestType
<1> QED BY <1>2, <1>3, <1>4

(* What a change of the owner does to the mode.                             *)
LEMMA OwnerChange ==
  ASSUME NEW g \in GuestType,
         NEW h, h = [g EXCEPT !.owner = "source", !.mode = SetIdCleared(g.mode)]
  PROVE  /\ h \in GuestType /\ h.scratch = g.scratch /\ h.chunks = g.chunks
         /\ h.content = g.content /\ h.mtime = g.mtime /\ h.owner = "source"
         /\ h.mode = SetIdCleared(g.mode)
         /\ h.mode = "0666" => g.mode = "0666"
<1>1. /\ SetIdCleared(g.mode) \in {"other", "0666", "source", "stripped", "widened"}
      /\ SetIdCleared(g.mode) = "0666" => g.mode = "0666"
  BY DEF SetIdCleared, GuestType
<1> QED BY <1>1 DEF GuestType

(* What a command leaves behind, carried out in full or not.                *)
LEMMA GuestAfter ==
  ASSUME job \in JobType,
         NEW g \in GuestType, NEW s \in Commands, s = "write_chunk" => g.chunks < job.chunks,
         NEW h, h \in {Carried(s, g)} \cup Spoilt(s, g)
  PROVE  /\ h \in GuestType
         /\ h.scratch => g.scratch \/ s = "create_scratch"
         /\ s # "write_chunk" => h.chunks = g.chunks \/ h.chunks = 0
         /\ s \in Tolerated \cup {"remove_scratch"} =>
              /\ h.content = g.content /\ h.mtime = g.mtime /\ h.owner = g.owner
              /\ h.mode # g.mode =>
                   /\ s = "clear_readonly" /\ ~site.windows
                   /\ g.mode = "source" /\ h.mode = "widened"
         /\ s \in Tolerated => h.chunks = g.chunks
<1>1. CASE s \in {"write_file", "concat", "run_fetch"}
  <2>1. Carried(s, g) \in {Overwritten(g, "source", "0666"), Moved(g, "source", "other"),
                           Moved(g, "partial", "other")}
    BY <1>1 DEF Carried
  <2>2. Spoilt(s, g) \subseteq {g, Overwritten(g, "partial", "0666"),
                             Moved(g, "partial", "other")}
    BY <1>1 DEF Spoilt
  <2> QED BY <1>1, <2>1, <2>2, MovedFits
<1>2. CASE s = "create_scratch"
  <2>1. h = g \/ h = [g EXCEPT !.scratch = TRUE]
    BY <1>2 DEF Carried, Spoilt
  <2> QED BY <1>2, <2>1 DEF GuestType
<1>3. CASE s = "extract"
  <2>1. \/ Carried(s, g) = g
        \/ Carried(s, g) = [g EXCEPT !.content = g.archive, !.manifest = TRUE]
    BY <1>3 DEF Carried
  <2>2. Spoilt(s, g) =
          {g} \cup {[g EXCEPT !.content = "partial", !.manifest = m] : m \in BOOLEAN}
    BY <1>3 DEF Spoilt
  <2>3. \/ h = g
        \/ \E c \in Contents, m \in BOOLEAN : h = [g EXCEPT !.content = c, !.manifest = m]
    BY <2>1, <2>2 DEF GuestType, Contents
  <2> QED BY <1>3, <2>3 DEF GuestType
<1>4. CASE s = "write_chunk"
  BY <1>4, RunnerAssumption DEF Carried, Spoilt, GuestType, JobType
<1>5. CASE s = "remove_scratch"
  <2>1. h \in {g, [g EXCEPT !.chunks = 0],
               [g EXCEPT !.scratch = FALSE, !.chunks = 0, !.archive = "absent"]}
    BY <1>5 DEF Carried, Spoilt
  <2> QED BY <1>5, <2>1, ZeroChunks DEF GuestType
<1>6. CASE s = "clear_readonly"
  <2>1. h \in {g, [g EXCEPT !.mode = OwnerWritable(g.mode)],
               [g EXCEPT !.locked = FALSE, !.mode = OwnerWritable(g.mode)]}
    BY <1>6 DEF Carried, Spoilt, GuestType
  <2> QED BY <1>6, <2>1, OwnerWrite, ZenonT(40)
<1>7. CASE s = "set_file_mode"
  BY <1>7 DEF Carried, Spoilt, GuestType
<1>8. CASE s = "restore_mtime"
  BY <1>8 DEF Carried, Spoilt, GuestType
<1>9. CASE s = "chown"
  <2>1. h = g \/ h = [g EXCEPT !.owner = "source", !.mode = SetIdCleared(g.mode)]
    BY <1>9 DEF Carried, Spoilt, GuestType
  <2> QED BY <1>9, <2>1, OwnerChange
<1>10. CASE s = "chmod"
  BY <1>10 DEF Carried, Spoilt, GuestType
<1>11. CASE s = "remove_manifest"
  BY <1>11 DEF Carried, Spoilt, GuestType
<1>12. CASE s \in {"ensure_dir", "probe_zst", "verify_exists", "verify_checksum",
                  "verify_manifest"}
  BY <1>12 DEF Carried, Spoilt, GuestType
<1> QED BY <1>1, <1>2, <1>3, <1>4, <1>5, <1>6, <1>7, <1>8, <1>9, <1>10, <1>11, <1>12

(* Every way out with a failure: a step that fails or is cancelled,         *)
(* whatever its command left in the guest or on its way, keeps the          *)
(* invariant.                                                               *)
LEMMA Stops ==
  ASSUME RunnerInv, at \in Working,
         UNCHANGED <<options, fetch, scratchDir>>,
         at' = Cleanup, status' \in {"failed", "cancelled"},
         cancelling' \in BOOLEAN, warned' \in BOOLEAN,
         guest' = guest \/ (at \in Commands /\ guest' \in Spoilt(at, guest)),
         UNCHANGED adrift \/ SetAdrift(at)
  PROVE  RunnerInv'
<1>1. at' \notin Working
  BY DEF Cleanup
<1>2. /\ guest' \in GuestType
      /\ guest'.scratch => scratchDir
      /\ guest'.chunks = guest.chunks \/ guest'.chunks = 0
  <2>1. CASE guest' = guest
    BY <2>1 DEF RunnerInv, TypeOK, ScratchKnown
  <2>2. CASE at \in Commands /\ guest' \in Spoilt(at, guest)
    <3>1. at = "write_chunk" => guest' = guest
      BY <2>2 DEF Spoilt
    <3>2. guest \in GuestType /\ (at = "write_chunk" => guest.chunks < job.chunks)
      BY DEF RunnerInv, TypeOK, ChunksFit
    <3>3. guest.scratch \/ at = "create_scratch" => scratchDir
      BY DEF RunnerInv, ScratchKnown
    <3> QED BY <2>1, <2>2, <3>1, <3>2, <3>3, GuestAfter, Constants DEF RunnerInv
  <2> QED BY <2>1, <2>2
<1>3. /\ adrift' \subseteq adrift \cup ({at} \cap Commands)
      /\ at \notin Commands => guest' = guest /\ adrift' = adrift
  BY DEF SetAdrift
<1>4. "write_chunk" \in adrift' => guest'.chunks < job.chunks
  BY <1>2, <1>3, Constants DEF RunnerInv, TypeOK, ChunksFit, JobType, GuestType
<1>5. ~site.exec /\ NeedsExec => guest' = guest /\ adrift' = adrift
  BY <1>3 DEF RunnerInv, Denied
<1> QED
  BY <1>1, <1>2, <1>3, <1>4, <1>5, Constants
     DEF options, fetch, JobType, RunnerInv, TypeOK, StepFits, ScratchKnown,
     ChunksFit, QuietGuest, Denied, RefusedUntouched, Delivered, VerifiedIsSource,
     MetadataSet, MetadataSurvives, ModeKnown, NotLeftWritable, LadderInRange,
     FloorKept, Cleanup

(* The failures of _run_single_file_restore and _run_bundle_restore.        *)
LEMMA FailKeeps ==
  ASSUME RunnerInv, at \in Working, Fail,
         UNCHANGED <<options, cancelling, fetch>>, warned' \in BOOLEAN,
         guest' = guest \/ (at \in Commands /\ guest' \in Spoilt(at, guest)),
         UNCHANGED adrift \/ SetAdrift(at)
  PROVE  RunnerInv'
<1>1. cancelling' \in BOOLEAN
  BY DEF RunnerInv, TypeOK
<1> QED BY <1>1, Stops DEF Fail

(* The delivery of a cancellation.                                          *)
LEMMA CancelledKeeps == ASSUME RunnerInv, Cancelled PROVE RunnerInv'
<1>1. warned' \in BOOLEAN
  BY DEF Cancelled, RunnerInv, TypeOK
<1> QED BY <1>1, Stops DEF Cancelled, options, fetch

-----------------------------------------------------------------------------
(* From here on the parts of RunnerInv are expanded: a step is checked      *)
(* against all of them.                                                     *)
USE DEF RunnerInv, TypeOK, StepFits, ScratchKnown, ChunksFit, QuietGuest, Denied,
        RefusedUntouched, Delivered, VerifiedIsSource, MetadataSet, MetadataSurvives,
        ModeKnown, NotLeftWritable, LadderInRange, FloorKept

(* The initial states, one job and one guest of each kind.                  *)
LEMMA Initially == ASSUME Init PROVE RunnerInv
<1>1. job \in JobType /\ site \in SiteType
  BY RunnerAssumption DEF Init
<1>2. guest \in GuestType
  <2>1. PICK c \in {"absent", "old"}, l \in BOOLEAN : guest = Fresh(c, l)
    BY DEF Init
  <2> QED BY <2>1, ZeroChunks DEF Fresh, GuestType, Contents
<1>3. guest.content \in {"absent", "old"} /\ guest.owner = "other" /\ guest.mode = "other"
      /\ guest.chunks = 0 /\ guest.scratch = FALSE
  BY DEF Init, Fresh
<1> QED
  BY <1>1, <1>2, <1>3 DEF Init, JobType

(* The check of the capabilities refuses a job or lets it into the guest.   *)
LEMMA CapabilitiesKeeps == ASSUME RunnerInv, Capabilities PROVE RunnerInv'
<1>1. CASE NeedsExec /\ ~site.exec
  BY <1>1, FailKeeps DEF Capabilities
<1>2. CASE ~(NeedsExec /\ ~site.exec)
  <2>1. Enter(IF site.exec THEN "ensure_dir" ELSE "write_file")
    BY <1>2, Constants
       DEF Capabilities, Following, FileOrder, BundleOrder, OwnershipOrder
  <2> QED
  BY <1>2, <2>1, Constants DEF Capabilities, options, fetch, Enter, JobType
<1> QED BY <1>1, <1>2

(* The steps on this side.                                                  *)
LEMMA LocallyKeeps == ASSUME RunnerInv, Locally PROVE RunnerInv'
<1>1. CASE at = "open_download"
  <2>1. Enter("capabilities")
    BY <1>1 DEF Locally, Following, FileOrder, OwnershipOrder
  <2> QED
  BY <1>1, <2>1, Constants DEF Locally, options, fetch, Enter, JobType
<1>2. CASE at = "build_bundle"
  <2>1. Enter(IF job.chunks > 1 THEN "select_nic" ELSE "write_chunk")
    BY <1>2 DEF Locally, Following, BundleOrder
  <2> QED
  BY <1>2, <2>1, Constants DEF Locally, options, fetch, Enter, JobType
<1>3. CASE at = "drain"
  <2>1. Enter(FromMtime)
    BY <1>3 DEF Locally, Following, FileOrder, OwnershipOrder
  <2> QED
  BY <1>3, <2>1, Constants
     DEF Locally, options, fetch, FromMtime, FromOwnership, FromVerify, Cleanup, Enter,
         JobType
<1> QED BY <1>1, <1>2, <1>3 DEF Locally

(* The lookup of the source's owner and mode.                               *)
LEMMA FetchOwnershipKeeps == ASSUME RunnerInv, FetchOwnership PROVE RunnerInv'
<1>1. Enter("chown") \/ Enter(FromVerify)
  BY DEF FetchOwnership, Following, FileOrder, OwnershipOrder
<1> QED
  BY <1>1, Constants
     DEF FetchOwnership, options, fetch, FromVerify, Cleanup, Enter, JobType

(* A request to cancel changes nothing before it is delivered.              *)
LEMMA CancelKeeps == ASSUME RunnerInv, Cancel PROVE RunnerInv'
  BY DEF Cancel, options, fetch

(* The removal of the scratch directory, however it ends.                   *)
LEMMA RemoveScratchKeeps == ASSUME RunnerInv, RemoveScratch PROVE RunnerInv'
<1>1. /\ guest' \in GuestType
      /\ guest'.scratch => guest.scratch
      /\ guest'.chunks = guest.chunks \/ guest'.chunks = 0
      /\ guest'.content = guest.content /\ guest'.mtime = guest.mtime
      /\ guest'.owner = guest.owner /\ guest'.mode = guest.mode
  <2>1. guest' \in {Carried("remove_scratch", guest)} \cup Spoilt("remove_scratch", guest)
    BY DEF RemoveScratch
  <2> QED BY <2>1, GuestAfter, Constants
<1>2. adrift' \subseteq adrift \cup {"remove_scratch"}
  BY DEF RemoveScratch, SetAdrift
<1> QED
  BY <1>1, <1>2, Constants DEF RemoveScratch, options, fetch, JobType

(* A late effect: only commands whose loss is tolerated are adrift while    *)
(* the runner works, and nothing but the removal of the scratch directory   *)
(* besides once it is done.                                                 *)
LEMMA LateKeeps == ASSUME RunnerInv, Late PROVE RunnerInv'
<1>1. PICK s \in adrift : /\ adrift' = adrift \ {s}
                          /\ guest' \in {guest, Carried(s, guest)} \cup Spoilt(s, guest)
                          /\ UNCHANGED <<options, warned, at, status, cancelling,
                                         scratchDir, fetch>>
  BY DEF Late
<1>2. /\ guest' \in GuestType
      /\ guest'.scratch => guest.scratch \/ s = "create_scratch"
      /\ s # "write_chunk" => guest'.chunks = guest.chunks \/ guest'.chunks = 0
      /\ s \in Tolerated \cup {"remove_scratch"} =>
           /\ guest'.content = guest.content /\ guest'.mtime = guest.mtime
           /\ guest'.owner = guest.owner
           /\ guest'.mode # guest.mode =>
                /\ s = "clear_readonly" /\ ~site.windows
                /\ guest.mode = "source" /\ guest'.mode = "widened"
      /\ s \in Tolerated => guest'.chunks = guest.chunks
  BY <1>1, GuestAfter, Constants
<1> QED
  BY <1>1, <1>2, Constants DEF options, fetch, JobType

(* A step that raises: swallowed for two commands, the end of the job for   *)
(* the others.                                                              *)
LEMMA RaisesKeeps == ASSUME RunnerInv, Raises PROVE RunnerInv'
<1>1. CASE Fail
  BY <1>1, FailKeeps DEF Raises
<1>2. adrift' \subseteq adrift \cup ({at} \cap Commands)
  <2>1. adrift' = adrift \/ SetAdrift(at)
    BY DEF Raises
  <2> QED BY <2>1 DEF SetAdrift
<1>3. CASE at = "probe_zst" /\ Enter("build_bundle")
  BY <1>2, <1>3, Constants DEF Raises, options, fetch, Enter, JobType
<1>4. CASE at = "clear_readonly" /\ Enter(IF Large THEN "concat" ELSE "write_file")
  BY <1>2, <1>4, Constants DEF Raises, options, fetch, Enter, JobType
<1> QED
  BY <1>1, <1>3, <1>4
     DEF Raises, Swallowed, Following, FileOrder, BundleOrder, OwnershipOrder

(* A nonzero exit: ignored by the best-effort commands, the end of the job  *)
(* for the others.                                                          *)
LEMMA ExitsNonzeroKeeps == ASSUME RunnerInv, ExitsNonzero PROVE RunnerInv'
<1>1. CASE at \notin Soft
  BY <1>1, FailKeeps DEF ExitsNonzero, Spoilt
<1>2. CASE at = "clear_readonly"
  <2>1. guest' \in {guest, [guest EXCEPT !.mode = OwnerWritable(guest.mode)]}
    BY <1>2 DEF ExitsNonzero, Spoilt, Blocked, Writers, GuestType
  <2>2. /\ guest' \in GuestType
        /\ guest'.scratch = guest.scratch /\ guest'.chunks = guest.chunks
        /\ guest'.content = guest.content /\ guest'.mtime = guest.mtime
        /\ guest'.owner = guest.owner
        /\ guest'.mode = "0666" => guest.mode = "0666"
    BY <2>1, OwnerWrite, ZenonT(40)
  <2>3. at' = IF Large THEN "concat" ELSE "write_file"
    BY <1>2, Constants DEF ExitsNonzero, Soft, Following, FileOrder, OwnershipOrder, Enter
  <2>4. /\ status' = status /\ scratchDir' = scratchDir /\ warned' = warned
        /\ UNCHANGED <<options, cancelling, fetch, adrift>>
    BY <1>2, <2>3, Constants
       DEF ExitsNonzero, Soft, Following, FileOrder, OwnershipOrder, Enter
  <2> QED
    BY <1>2, <2>2, <2>3, <2>4, Constants DEF options, fetch, JobType
<1>3. CASE at = "set_file_mode"
  <2>1. Enter(FromMtime) /\ guest' = guest /\ warned' = TRUE
    BY <1>3
       DEF ExitsNonzero, Spoilt, Blocked, Writers, Soft, Following, FileOrder,
           OwnershipOrder
  <2> QED
  BY <1>3, <2>1, Constants
     DEF ExitsNonzero, FromMtime, FromOwnership, FromVerify, Cleanup, options, fetch,
         Enter, JobType
<1>4. CASE at = "probe_zst"
  BY <1>4, Constants
     DEF ExitsNonzero, Spoilt, Blocked, Writers, Soft, Following, BundleOrder, options,
         fetch, Enter, JobType
<1>5. CASE at = "remove_manifest"
  BY <1>5, Constants
     DEF ExitsNonzero, Spoilt, Blocked, Writers, Soft, Following, BundleOrder, Cleanup,
         options, fetch, Enter, JobType
<1> QED
  BY <1>1, <1>2, <1>3, <1>4, <1>5 DEF Soft

(* What a failed fetch leaves.                                              *)
LEMMA FetchSpoils ==
  ASSUME RunnerInv, at \in {"select_nic", "detect_tool", "trust_ca", "run_fetch"},
         guest' \in Spoilt("run_fetch", guest)
  PROVE  /\ guest' \in GuestType
         /\ guest'.scratch = guest.scratch /\ guest'.chunks = 0
         /\ guest'.owner = guest.owner
         /\ guest'.mode \in {guest.mode, "other"}
<1>1. guest' = guest \/ guest' = Moved(guest, "partial", "other")
  BY DEF Spoilt
<1>2. guest \in GuestType /\ guest.chunks = 0
  OBVIOUS
<1>3. guest' \in GuestType /\ guest'.scratch = guest.scratch /\ guest'.chunks = 0
  BY <1>1, <1>2, MovedFits
<1>4. guest'.owner = guest.owner /\ guest'.mode \in {guest.mode, "other"}
  BY <1>1, <1>2, MovedFits
<1> QED BY <1>3, <1>4

(* Direct Network Transfer gives way to the chunks.                         *)
LEMMA NotAvailableKeeps ==
  ASSUME RunnerInv, at \in {"select_nic", "detect_tool", "trust_ca", "run_fetch"},
         NotAvailable,
         UNCHANGED <<options, warned, cancelling, adrift>>,
         guest' \in Spoilt("run_fetch", guest)
  PROVE  RunnerInv'
<1>1. /\ job' = job /\ site' = site /\ tool' = tool /\ mode' = mode
      /\ network' = FALSE /\ status' = status
      /\ at' = IF job.bundle THEN "write_chunk" ELSE "create_scratch"
      /\ scratchDir' = (scratchDir \/ ~job.bundle)
  BY Constants DEF NotAvailable, Chunked, Enter, options, JobType
<1>2. /\ guest' \in GuestType
      /\ guest'.scratch = guest.scratch /\ guest'.chunks = 0
      /\ guest'.owner = guest.owner
      /\ guest'.mode \in {guest.mode, "other"}
  BY FetchSpoils
<1>3. NeedsExec /\ site.exec
  OBVIOUS
<1>4. TypeOK' /\ StepFits'
  BY <1>1, <1>2, Constants, ZenonT(40) DEF JobType
<1>5. ScratchKnown' /\ QuietGuest' /\ Denied' /\ RefusedUntouched'
  BY <1>1, <1>2, <1>3, <1>4, Constants DEF JobType, options
<1>8. ChunksFit'
  BY <1>1, <1>2, Constants, RunnerAssumption DEF JobType
<1>6. Delivered' /\ VerifiedIsSource' /\ MetadataSet' /\ MetadataSurvives'
  BY <1>1, <1>2, <1>3, <1>4, Constants DEF JobType
<1>7. ModeKnown' /\ NotLeftWritable' /\ LadderInRange' /\ FloorKept'
  BY <1>1, <1>2, <1>3, <1>4, Constants DEF JobType
<1> QED
  BY <1>4, <1>5, <1>6, <1>7, <1>8

(* The choice of the data NIC.                                              *)
LEMMA SelectNicKeeps == ASSUME RunnerInv, SelectNic PROVE RunnerInv'
<1>1. CASE NotAvailable
  BY <1>1, NotAvailableKeeps DEF SelectNic, Spoilt
<1>2. CASE Enter("detect_tool") /\ UNCHANGED fetch
  BY <1>2, Constants DEF SelectNic, Enter, options, fetch, JobType
<1> QED BY <1>1, <1>2 DEF SelectNic

(* The policy when no TLS mode fits.                                        *)
LEMMA UnmetKeeps ==
  ASSUME RunnerInv, at \in {"detect_tool", "trust_ca"}, Unmet,
         UNCHANGED <<options, warned, cancelling, guest, adrift>>
  PROVE  RunnerInv'
<1>1. CASE Fail /\ UNCHANGED fetch
  BY <1>1, FailKeeps
<1>2. CASE NotAvailable
  BY <1>2, NotAvailableKeeps DEF Spoilt
<1> QED BY <1>1, <1>2 DEF Unmet

(* The first mode of the ladder.                                            *)
LEMMA DetectToolKeeps == ASSUME RunnerInv, DetectTool PROVE RunnerInv'
<1>1. PICK t \in site.tools \cup {"none"} :
        LET m == ResolveTlsMode(t, site.preferred, Minimum)
        IN  IF t \in {"none", "cscript"} THEN NotAvailable
            ELSE IF m = "none" THEN Unmet
            ELSE /\ Enter(IF m = "verify" /\ site.installCa THEN "trust_ca" ELSE "run_fetch")
                 /\ network' = TRUE /\ tool' = t /\ mode' = m
  BY DEF DetectTool
<1> DEFINE m == ResolveTlsMode(t, site.preferred, Minimum)
<1>2. CASE NotAvailable
  BY <1>2, NotAvailableKeeps DEF DetectTool, Spoilt
<1>3. CASE Unmet
  BY <1>3, UnmetKeeps DEF DetectTool
<1>4. CASE /\ t \in Tools /\ m # "none"
           /\ Enter(IF m = "verify" /\ site.installCa THEN "trust_ca" ELSE "run_fetch")
           /\ network' = TRUE /\ tool' = t /\ mode' = m
  <2>1. /\ m \in Modes
        /\ Rank[Minimum] <= Rank[m] /\ Rank[m] <= Rank[site.preferred]
        /\ ToolSupportsTls(t, m)
    BY <1>4, ResolvedMode, MinimumRange, Constants DEF SiteType
  <2>2. /\ Rank[site.minimum] <= Rank[m]
        /\ m = "plaintext" => site.preferred = "plaintext"
        /\ m = "verify" => site.preferred = "verify"
    BY <2>1, MinimumRange, Constants, ModeRanks DEF SiteType, Modes
  <2> QED
    BY <1>4, <2>1, <2>2, Constants DEF DetectTool, Enter, options, JobType
<1> QED
  BY <1>1, <1>2, <1>3, <1>4, Constants DEF SiteType

(* A rung down when the guest cannot be made to trust the CA.               *)
LEMMA TrustCaKeeps == ASSUME RunnerInv, TrustCa PROVE RunnerInv'
<1> DEFINE stepped == ResolveTlsMode(tool, "insecure", Minimum)
<1>1. CASE Enter("run_fetch") /\ UNCHANGED fetch
  <2>1. /\ ToolSupportsTls(tool, mode)
        /\ Rank[site.minimum] <= Rank[mode] /\ Rank[mode] <= Rank[site.preferred]
    BY Constants, ModeRanks DEF TrustCa, SiteType, Modes
  <2> QED
    BY <1>1, <2>1, Constants DEF TrustCa, Enter, options, fetch, JobType
<1>2. CASE Unmet
  BY <1>2, UnmetKeeps DEF TrustCa
<1>3. CASE /\ stepped # "none"
           /\ Enter("run_fetch") /\ mode' = stepped /\ UNCHANGED <<network, tool>>
  <2>1. /\ stepped \in Modes
        /\ Rank[Minimum] <= Rank[stepped] /\ Rank[stepped] <= Rank["insecure"]
        /\ ToolSupportsTls(tool, stepped)
    BY <1>3, ResolvedMode, MinimumRange DEF Modes
  <2>2. /\ Rank[site.minimum] <= Rank[stepped] /\ Rank[stepped] <= Rank[site.preferred]
        /\ stepped # "plaintext"
    BY <2>1, MinimumRange, Constants, ModeRanks DEF TrustCa, SiteType, Modes
  <2> QED
    BY <1>3, <2>1, <2>2, Constants DEF TrustCa, Enter, options, JobType
<1> QED
  BY <1>1, <1>2, <1>3 DEF TrustCa

(* A rung down after a failed handshake.                                    *)
LEMMA TlsFailsKeeps == ASSUME RunnerInv, TlsFails PROVE RunnerInv'
<1>1. guest' \in Spoilt("run_fetch", guest)
  BY DEF TlsFails, Spoilt
<1>2. CASE NotAvailable
  BY <1>1, <1>2, NotAvailableKeeps DEF TlsFails
<1>3. CASE Fail /\ UNCHANGED fetch
  BY <1>1, <1>3, FailKeeps DEF TlsFails
<1>4. CASE /\ SteppedDown # "none" /\ mode' = SteppedDown
           /\ UNCHANGED <<at, status, scratchDir, network, tool>>
  <2> DEFINE stepped == ResolveTlsMode(tool, OneRungDown(mode), Minimum)
  <2>1. mode' = stepped /\ stepped # "none"
    BY <1>4 DEF SteppedDown
  <2>2. /\ stepped \in Modes
        /\ Rank[Minimum] <= Rank[stepped] /\ Rank[stepped] <= Rank[OneRungDown(mode)]
        /\ ToolSupportsTls(tool, stepped)
    BY <2>1, ResolvedMode, MinimumRange DEF Modes, OneRungDown
  <2>3. /\ mode \in Modes /\ OneRungDown(mode) \in Modes
        /\ Rank[OneRungDown(mode)] <= Rank[mode] /\ Rank[mode] <= Rank[site.preferred]
    BY ModeRanks DEF OneRungDown, TlsFails, Modes, ToolSupportsTls
  <2>4. /\ Rank[site.minimum] <= Rank[stepped] /\ Rank[stepped] <= Rank[site.preferred]
        /\ stepped = "plaintext" => site.preferred = "plaintext"
    BY <2>2, <2>3, MinimumRange, Constants, ModeRanks DEF SiteType, Modes
  <2>5. /\ guest' \in GuestType
        /\ guest'.scratch = guest.scratch /\ guest'.chunks = 0
        /\ guest'.owner = guest.owner
        /\ guest'.mode \in {guest.mode, "other"}
    BY <1>1, FetchSpoils DEF TlsFails
  <2> QED
    BY <1>4, <2>1, <2>2, <2>4, <2>5, Constants DEF TlsFails, options, JobType
<1> QED
  BY <1>2, <1>3, <1>4 DEF TlsFails

(* The content arrives in the guest, complete or not.                       *)
LEMMA MovesKeeps ==
  ASSUME RunnerInv, at \in {"concat", "run_fetch"},
         guest' \in {guest, Moved(guest, "source", "other"), Moved(guest, "partial", "other")},
         Enter(Following(at, guest')),
         UNCHANGED <<options, warned, cancelling, fetch, adrift>>
  PROVE  RunnerInv'
<1>1. /\ guest' \in GuestType
      /\ guest'.scratch = guest.scratch /\ guest'.chunks = guest.chunks
  BY MovedFits
<1>2. guest'.owner = guest.owner /\ guest'.mode \in {guest.mode, "other"}
  BY MovedFits
<1>3. at' = IF job.bundle /\ at = "concat" THEN "extract" ELSE "verify_exists"
  BY Constants DEF Following, FileOrder, BundleOrder, OwnershipOrder, Enter, JobType
<1>4. status' = status /\ scratchDir' = scratchDir
  BY <1>3, Constants
     DEF Enter, Following, FileOrder, BundleOrder, OwnershipOrder, JobType
<1> QED
  BY <1>1, <1>2, <1>3, <1>4, Constants DEF options, fetch, JobType

(* A command that is carried out, one case per step.                        *)
LEMMA ReturnsKeeps == ASSUME RunnerInv, Returns PROVE RunnerInv'
<1> USE DEF Returns, Enter, options, fetch, JobType
<1>1. CASE at = "ensure_dir"
  BY <1>1, Constants DEF Carried, Following, FileOrder, BundleOrder, OwnershipOrder
<1>2. CASE at = "clear_readonly"
  <2>1. /\ guest \in GuestType
        /\ guest' = [guest EXCEPT !.locked = FALSE, !.mode = OwnerWritable(guest.mode)]
    BY <1>2 DEF Carried, GuestType
  <2>2. /\ guest' \in GuestType
        /\ guest'.scratch = guest.scratch /\ guest'.chunks = guest.chunks
        /\ guest'.content = guest.content /\ guest'.mtime = guest.mtime
        /\ guest'.owner = guest.owner
        /\ guest'.mode = "0666" => guest.mode = "0666"
    <3>1. guest' \in {guest, [guest EXCEPT !.mode = OwnerWritable(guest.mode)],
                     [guest EXCEPT !.locked = FALSE, !.mode = OwnerWritable(guest.mode)]}
      BY <2>1
    <3> HIDE DEF Returns, Enter, RunnerInv
    <3> QED BY <2>1, <3>1, OwnerWrite
  <2>3. at' = IF Large THEN "concat" ELSE "write_file"
    BY <1>2, Constants DEF Following, FileOrder, OwnershipOrder
  <2>4. status' = status /\ scratchDir' = scratchDir /\ warned' = warned
    BY <1>2, Constants DEF Following, FileOrder, OwnershipOrder
  <2> QED
    BY <1>2, <2>2, <2>3, <2>4, Constants
<1>3. CASE at = "write_file"
  <2>1. guest' = Overwritten(guest, "source", "0666")
    BY <1>3 DEF Carried
  <2>2. guest' \in GuestType /\ guest'.scratch = guest.scratch /\ guest'.chunks = guest.chunks
    BY <2>1, MovedFits
  <2>3. guest'.content = "source" /\ guest'.owner = guest.owner
        /\ guest'.mode \in {guest.mode, "0666"}
    BY <2>1 DEF Overwritten, GuestType
  <2>4. at' = IF ModeStep THEN "set_file_mode"
              ELSE IF FromMtime = "settle" THEN Cleanup ELSE FromMtime
    BY <1>3, Constants
       DEF Following, FileOrder, OwnershipOrder, ModeStep, FromMtime, FromOwnership,
           FromVerify
  <2>5. ~site.windows => ModeStep \/ warned'
    BY <1>3, Constants DEF ModeStep, SiteType
  <2> QED
    BY <1>3, <2>2, <2>3, <2>4, <2>5, Constants
       DEF Following, FileOrder, OwnershipOrder, ModeStep, FromMtime, FromOwnership,
           FromVerify, Cleanup
<1>4. CASE at = "set_file_mode"
  BY <1>4, Constants
     DEF Carried, Following, FileOrder, OwnershipOrder, GuestType, Works, FromMtime,
         FromOwnership, FromVerify, Cleanup
<1>5. CASE at = "create_scratch"
  <2>1. guest' = [guest EXCEPT !.scratch = TRUE]
    BY <1>5 DEF Carried
  <2>2. guest' \in GuestType
    BY <2>1 DEF GuestType
  <2>3. at' = IF job.bundle THEN "probe_zst" ELSE "write_chunk"
    BY <1>5, Constants DEF Following, FileOrder, BundleOrder, OwnershipOrder
  <2>4. status' = status /\ scratchDir' = scratchDir /\ warned' = warned
    BY <1>5, <2>3, Constants DEF Following, FileOrder, BundleOrder, OwnershipOrder
  <2> QED
    BY <1>5, <2>1, <2>2, <2>3, <2>4, Constants DEF GuestType
<1>6. CASE at = "probe_zst"
  BY <1>6, Constants DEF Carried, Following, BundleOrder
<1>7. CASE at = "write_chunk"
  <2>1. guest' = [guest EXCEPT !.chunks = guest.chunks + 1]
    BY <1>7 DEF Carried, Works, GuestType
  <2>2. guest' \in GuestType
    BY <1>7, GuestAfter, Constants
  <2>3. \/ at' = "write_chunk" /\ guest'.chunks < job.chunks
        \/ at' = "concat" /\ job.bundle
        \/ at' = "clear_readonly" /\ ~job.bundle
    BY <1>7, Constants DEF Following, FileOrder, BundleOrder, OwnershipOrder, MoreChunks
  <2>4. status' = status /\ scratchDir' = scratchDir /\ warned' = warned
    BY <1>7, <2>3, Constants DEF Following, FileOrder, BundleOrder, OwnershipOrder
  <2>5. "write_chunk" \notin adrift'
    BY <1>7
  <2> QED
    BY <1>7, <2>1, <2>2, <2>3, <2>4, <2>5, Constants DEF GuestType
<1>8. CASE at \in {"concat", "run_fetch"}
  <2>1. guest' \in {Moved(guest, "source", "other"), Moved(guest, "partial", "other")}
    BY <1>8 DEF Carried
  <2>2. warned' = warned
    BY <1>8
  <2> QED BY <1>8, <2>1, <2>2, MovesKeeps
<1>9. CASE at = "verify_exists"
  BY <1>9, Constants
     DEF Carried, Works, Following, FileOrder, BundleOrder, OwnershipOrder, FromMtime,
         FromOwnership, FromVerify, Cleanup
<1>10. CASE at = "restore_mtime"
  BY <1>10, Constants
     DEF Carried, Works, Following, FileOrder, OwnershipOrder, FromOwnership,
         FromVerify, Cleanup, GuestType
<1>11. CASE at = "chown"
  <2>1. guest' = [guest EXCEPT !.owner = "source", !.mode = SetIdCleared(guest.mode)]
    BY <1>11 DEF Carried, GuestType
  <2>2. guest' \in GuestType
    BY <2>1, OwnerChange
  <2>4. /\ guest'.content = guest.content /\ guest'.mtime = guest.mtime
        /\ guest'.scratch = guest.scratch /\ guest'.chunks = guest.chunks
        /\ guest'.mode = "0666" => guest.mode = "0666"
    BY <2>1, OwnerChange, ZenonT(40)
  <2>3. at' = "chmod" /\ status' = status /\ scratchDir' = scratchDir /\ warned' = warned
    BY <1>11, Constants DEF Following, FileOrder, OwnershipOrder
  <2> QED
    BY <1>11, <2>2, <2>3, <2>4, Constants
<1>12. CASE at = "chmod"
  BY <1>12, Constants
     DEF Carried, Works, Following, FileOrder, OwnershipOrder, FromVerify, Cleanup,
         GuestType
<1>13. CASE at = "verify_checksum"
  BY <1>13, Constants
     DEF Carried, Works, Writers, Following, FileOrder, OwnershipOrder, Cleanup
<1>14. CASE at = "extract"
  <2>1. guest' = [guest EXCEPT !.content = "source", !.manifest = TRUE]
    BY <1>14 DEF Carried, Works, Writers, GuestType
  <2>2. guest' \in GuestType
    BY <2>1 DEF GuestType, Contents
  <2>3. /\ at' = "verify_manifest" /\ status' = "verifying"
        /\ scratchDir' = scratchDir /\ warned' = warned
    BY <1>14, Constants DEF Following, BundleOrder
  <2>4. /\ guest'.scratch = guest.scratch /\ guest'.chunks = guest.chunks
        /\ guest'.owner = guest.owner /\ guest'.mode = guest.mode
    BY <2>1 DEF GuestType
  <2> QED
    BY <1>14, <2>2, <2>3, <2>4, Constants
<1>15. CASE at = "verify_manifest"
  BY <1>15, Constants DEF Carried, Works, Writers, Following, BundleOrder
<1>16. CASE at = "remove_manifest"
  <2>1. guest' = [guest EXCEPT !.manifest = FALSE]
    BY <1>16 DEF Carried
  <2>2. guest' \in GuestType
    BY <2>1 DEF GuestType
  <2>3. at' = Cleanup /\ status' = "done" /\ scratchDir' = scratchDir /\ warned' = warned
    BY <1>16, Constants DEF Following, BundleOrder
  <2> QED
    BY <1>16, <2>1, <2>2, <2>3, Constants DEF GuestType, Cleanup
<1> QED
  BY <1>1, <1>2, <1>3, <1>4, <1>5, <1>6, <1>7, <1>8, <1>9, <1>10, <1>11, <1>12,
     <1>13, <1>14, <1>15, <1>16

(* A command that reports success without having worked.                    *)
LEMMA MisreportsKeeps == ASSUME RunnerInv, Misreports PROVE RunnerInv'
<1>1. CASE at \in {"concat", "run_fetch"}
  <2>1. guest' \in {guest, Moved(guest, "partial", "other")}
    BY <1>1 DEF Misreports, Spoilt
  <2> QED BY <1>1, <2>1, MovesKeeps DEF Misreports
<1>2. CASE at = "extract"
  <2>1. /\ guest' \in GuestType
        /\ guest'.scratch = guest.scratch /\ guest'.chunks = guest.chunks
        /\ guest'.owner = guest.owner /\ guest'.mode = guest.mode
    <3>1. guest' \in {guest} \cup
            {[guest EXCEPT !.content = "partial", !.manifest = m] : m \in BOOLEAN}
      BY <1>2 DEF Misreports, Spoilt
    <3>2. CASE guest' = guest
      BY <3>2 DEF GuestType
    <3>3. CASE \E m \in BOOLEAN : guest' = [guest EXCEPT !.content = "partial", !.manifest = m]
      <4>1. PICK m \in BOOLEAN : guest' = [guest EXCEPT !.content = "partial", !.manifest = m]
        BY <3>3
      <4> QED BY <4>1 DEF GuestType, Contents
    <3> QED BY <3>1, <3>2, <3>3
  <2>2. at' = "verify_manifest" /\ status' = "verifying" /\ scratchDir' = scratchDir
    BY <1>2, Constants DEF Misreports, Enter, Following, BundleOrder
  <2> QED
    BY <1>2, <2>1, <2>2, Constants DEF Misreports, options, fetch, JobType
<1> QED BY <1>1, <1>2 DEF Misreports, Unreliable

(* Every step of the specification keeps the invariant.                     *)
LEMMA StepKeeps == ASSUME RunnerInv, Next PROVE RunnerInv'
  BY CapabilitiesKeeps, LocallyKeeps, FetchOwnershipKeeps, ReturnsKeeps,
     MisreportsKeeps,
     ExitsNonzeroKeeps, RaisesKeeps, CancelledKeeps, RemoveScratchKeeps, SelectNicKeeps,
     DetectToolKeeps, TrustCaKeeps, TlsFailsKeeps, CancelKeeps, LateKeeps
     DEF Next, RunnerStep

(* So does a stuttering step.                                               *)
LEMMA StutterKeeps == ASSUME RunnerInv, UNCHANGED vars PROVE RunnerInv'
  BY DEF vars

-----------------------------------------------------------------------------
HIDE DEF RunnerInv, TypeOK, StepFits, ScratchKnown, ChunksFit, QuietGuest, Denied,
         RefusedUntouched, Delivered, VerifiedIsSource, MetadataSet, MetadataSurvives,
         ModeKnown, NotLeftWritable, LadderInRange, FloorKept

(* RunnerInv holds throughout, for every set of jobs and sites and any      *)
(* number of chunks.                                                        *)
THEOREM Inductive == Spec => []RunnerInv
<1>1. Init => RunnerInv
  BY Initially
<1>2. RunnerInv /\ [Next]_vars => RunnerInv'
  BY StepKeeps, StutterKeeps
<1> QED
  BY <1>1, <1>2, PTL DEF Spec

(* Every step, status and guest state is one there is.                      *)
THEOREM TypeCorrect == Spec => []TypeOK
<1>1. RunnerInv => TypeOK
  BY DEF RunnerInv
<1> QED BY <1>1, Inductive, PTL

(* A job that says done restored what it was asked to, whatever exit codes  *)
(* of the guest were wrong on the way (_verify_checksum,                    *)
(* build_verify_command).                                                   *)
THEOREM DoneWasRestored == Spec => []VerifiedIsSource
<1>1. RunnerInv => VerifiedIsSource
  BY DEF RunnerInv
<1> QED BY <1>1, Inductive, PTL

(* The metadata steps of a done job hold what each of them set              *)
(* (_restore_mtime before _restore_ownership, chown before chmod), a late   *)
(* chmod u+w of _clear_readonly_if_present excepted.                        *)
THEOREM MetadataHolds == Spec => []MetadataSurvives
<1>1. RunnerInv => MetadataSurvives
  BY DEF RunnerInv
<1> QED BY <1>1, Inductive, PTL

(* No done job leaves qemu-ga's 0666 behind without a warning               *)
(* (_set_restored_file_mode).                                               *)
THEOREM WritableIsWarned == Spec => []NotLeftWritable
<1>1. RunnerInv => NotLeftWritable
  BY DEF RunnerInv
<1> QED BY <1>1, Inductive, PTL

(* A restore that needs guest-exec and may not use it never touches the     *)
(* guest (the capability check of _run_single_file_restore and              *)
(* _run_bundle_restore).                                                    *)
THEOREM RefusalIsClean == Spec => []RefusedUntouched
<1>1. RunnerInv => RefusedUntouched
  BY DEF RunnerInv
<1> QED BY <1>1, Inductive, PTL

(* Every fetch uses a TLS mode the administrator allows, the tool supports  *)
(* and the listener speaks, however often the ladder was stepped down       *)
(* (_try_direct_network_transfer).                                          *)
THEOREM FloorHolds == Spec => []FloorKept
<1>1. RunnerInv => FloorKept
  BY DEF RunnerInv
<1> QED BY <1>1, Inductive, PTL

(* No step is followed by the end without the cleanup.                      *)
LEMMA NeverFinished ==
  ASSUME NEW s, NEW g
  PROVE  Following(s, g) # "finished" /\ FromVerify # "finished" /\ Chunked # "finished"
  BY DEF Following, FileOrder, BundleOrder, OwnershipOrder, FromMtime, FromOwnership,
         FromVerify, Chunked, ModeStep

(* A runner that ends without the sweep has no scratch directory.           *)
LEMMA EnterEnds ==
  ASSUME NEW next, next # "finished", Enter(next), at' = "finished"
  PROVE  ~scratchDir'
  BY DEF Enter, Cleanup

(* The same for a failure.                                                  *)
LEMMA FailEnds == ASSUME Fail, at' = "finished" PROVE ~scratchDir'
  BY DEF Fail, Cleanup

(* And for the TLS policy.                                                  *)
LEMMA UnmetEnds == ASSUME Unmet \/ NotAvailable, at' = "finished" PROVE ~scratchDir'
  BY FailEnds, EnterEnds, NeverFinished DEF Unmet, NotAvailable

(* And for every step.                                                      *)
LEMMA EndsUnscratched ==
  ASSUME Next, at \notin {"finished", "remove_scratch"}, at' = "finished"
  PROVE  ~scratchDir'
<1>1. CASE Capabilities \/ Locally \/ FetchOwnership \/ Returns \/ Misreports
           \/ ExitsNonzero \/ Raises
  BY <1>1, FailEnds, EnterEnds, NeverFinished
     DEF Capabilities, Locally, FetchOwnership, Returns, Misreports, ExitsNonzero, Raises
<1>2. CASE SelectNic \/ DetectTool \/ TrustCa \/ TlsFails
  BY <1>2, FailEnds, EnterEnds, UnmetEnds DEF SelectNic, DetectTool, TrustCa, TlsFails
<1>3. CASE Cancelled
  BY <1>3 DEF Cancelled, Cleanup
<1>4. CASE Cancel \/ Late \/ RemoveScratch
  BY <1>4 DEF Cancel, Late, RemoveScratch
<1> QED BY <1>1, <1>2, <1>3, <1>4 DEF Next, RunnerStep

(* If there is a scratch directory in the guest when the runner ends,       *)
(* removing it was the last thing tried (the finally of                     *)
(* _run_single_file_restore and _run_bundle_restore).                       *)
THEOREM SweepIsLast == Spec => ScratchIsSwept
<1>1. ASSUME RunnerInv, [Next]_vars
      PROVE  [at # "finished" /\ at' = "finished" /\ guest'.scratch
                => at = "remove_scratch"]_vars
  <2> SUFFICES ASSUME Next, at # "finished", at' = "finished", guest'.scratch,
                      at # "remove_scratch"
               PROVE  FALSE
    BY <1>1
  <2>1. RunnerInv'
    BY <1>1, StepKeeps
  <2> QED BY <2>1, EndsUnscratched DEF RunnerInv, ScratchKnown
<1> QED BY <1>1, Inductive, PTL DEF Spec, ScratchIsSwept

-----------------------------------------------------------------------------
(* The refinement of Restore.                                               *)

(* What a command does to the guest, seen from the promise: nothing, a      *)
(* write, a description or a clearing of the way.                           *)
LEMMA CommandIsSeen ==
  ASSUME job \in JobType,
         guest \in GuestType, guest' \in GuestType, NEW s \in Commands,
         guest' \in {Carried(s, guest)} \cup Spoilt(s, guest),
         s \in Describers => guest.content # "absent",
         s = "extract" => job.bundle,
         s = "clear_readonly" => ~job.bundle /\ site.exec,
         job.bundle => /\ guest.mtime = "other" /\ guest.mode = "other"
                       /\ s \notin Describers \cup {"write_file"}
  PROVE  /\ UNCHANGED Promise!file \/ Promise!Write \/ Promise!Describe \/ Promise!Clear
         /\ guest.content # "absent" => guest'.content # "absent"
         /\ job.bundle => /\ guest'.mtime = "other" /\ guest'.owner = guest.owner
                          /\ guest'.mode = "other"
<1> USE DEF Promise!file
<1>1. ASSUME NEW c \in {"partial", "source"}, NEW m \in {"other", "0666"},
             guest' = Overwritten(guest, c, m)
      PROVE  Promise!Write /\ guest'.content = c /\ guest'.mtime = "other" /\ guest'.owner = guest.owner
  <2>1. guest' = [guest EXCEPT !.content = c, !.mtime = "other",
                    !.mode = IF guest.content = "absent" THEN m ELSE guest.mode]
    BY <1>1 DEF Overwritten, GuestType
  <2>2. /\ guest'.content = c /\ guest'.mtime = "other" /\ guest'.owner = guest.owner
        /\ guest'.mode = IF guest.content = "absent" THEN m ELSE guest.mode
    BY <2>1 DEF GuestType
  <2> QED BY <2>2 DEF Promise!Write
<1>2. ASSUME UNCHANGED <<guest.content, guest.mtime, guest.owner, guest.mode>>
      PROVE  UNCHANGED Promise!file
  BY <1>2
<1>3. CASE s = "write_file"
  <2>1. CASE guest' = guest
    BY <2>1, <1>2, <1>3
  <2>2. CASE guest' \in {Overwritten(guest, "source", "0666"), Overwritten(guest, "partial", "0666")}
    BY <2>2, <1>1, <1>3
  <2> QED BY <1>3, <2>1, <2>2 DEF Carried, Spoilt
<1>4. CASE s \in {"concat", "run_fetch"}
  <2>1. guest' \in {guest, Moved(guest, "source", "other"), Moved(guest, "partial", "other")}
    BY <1>4 DEF Carried, Spoilt
  <2>2. CASE guest' = guest
    BY <2>2, <1>2
  <2>3. CASE guest' # guest /\ job.bundle
    <3>1. /\ guest'.content = guest.content /\ guest'.mtime = guest.mtime
          /\ guest'.owner = guest.owner /\ guest'.mode = guest.mode
      BY <2>1, <2>3 DEF Moved, GuestType
    <3> QED BY <3>1, <1>2
  <2>4. CASE guest' # guest /\ ~job.bundle
    <3>1. PICK c \in {"partial", "source"} : guest' = Overwritten(guest, c, "other")
      BY <2>1, <2>4 DEF Moved
    <3> QED BY <3>1, <2>4, <1>1
  <2> QED BY <2>2, <2>3, <2>4
<1>5. CASE s = "extract"
  <2>1. CASE guest' = guest
    BY <2>1, <1>2, <1>5
  <2>2. CASE guest' # guest
    <3>1. PICK c \in {"partial", "source"}, m \in BOOLEAN :
            guest' = [guest EXCEPT !.content = c, !.manifest = m]
      <4>1. CASE guest' = Carried(s, guest)
        <5>1. /\ guest.archive \in {"partial", "source"}
              /\ guest' = [guest EXCEPT !.content = guest.archive, !.manifest = TRUE]
          BY <1>5, <2>2, <4>1 DEF Carried, GuestType
        <5> QED BY <5>1
      <4>2. CASE guest' \in Spoilt(s, guest)
        BY <1>5, <2>2, <4>2 DEF Spoilt
      <4> QED BY <4>1, <4>2
    <3>2. /\ guest'.content = c /\ guest'.mtime = "other"
          /\ guest'.owner = guest.owner /\ guest'.mode = "other" /\ guest.mode = "other"
      BY <3>1, <1>5 DEF GuestType
    <3> QED BY <3>2 DEF Promise!Write
  <2> QED BY <2>1, <2>2
<1>6. CASE s \in Describers
  <2>1. CASE guest' = guest
    BY <2>1, <1>2, <1>6 DEF Describers
  <2>2. CASE guest' # guest
    <3>1. guest' = Carried(s, guest)
      BY <1>6, <2>2 DEF Spoilt, Describers
    <3>2. guest.content # "absent" /\ ~job.bundle
      BY <1>6
    <3>3. Promise!Describe /\ guest'.content = guest.content
      <4>1. CASE s = "set_file_mode"
        <5>1. /\ guest'.content = guest.content /\ guest'.mtime = guest.mtime
              /\ guest'.owner = guest.owner
              /\ guest'.mode = IF guest.mode = "0666" THEN "other" ELSE guest.mode
          BY <3>1, <4>1 DEF Carried, GuestType
        <5>2. guest.mode = "0666"
          BY <2>2, <3>1, <4>1 DEF Carried, GuestType
        <5> QED BY <3>2, <5>1, <5>2 DEF Promise!Describe
      <4>2. CASE s = "restore_mtime"
        <5>1. /\ guest'.content = guest.content /\ guest'.mtime = "source"
              /\ guest'.owner = guest.owner /\ guest'.mode = guest.mode
          BY <3>1, <4>2 DEF Carried, GuestType
        <5> QED BY <3>2, <5>1 DEF Promise!Describe
      <4>3. CASE s = "chown"
        <5>1. guest' = [guest EXCEPT !.owner = "source", !.mode = SetIdCleared(guest.mode)]
          BY <3>1, <4>3 DEF Carried, GuestType
        <5>2. /\ guest'.content = guest.content /\ guest'.mtime = guest.mtime
              /\ guest'.owner = "source"
              /\ guest'.mode = SetIdCleared(guest.mode)
          BY <5>1, OwnerChange
        <5> QED BY <3>2, <5>2 DEF Promise!Describe, SetIdCleared
      <4>4. CASE s = "chmod"
        <5>1. /\ guest'.content = guest.content /\ guest'.mtime = guest.mtime
              /\ guest'.owner = guest.owner /\ guest'.mode = "source"
          BY <3>1, <4>4 DEF Carried, GuestType
        <5> QED BY <3>2, <5>1 DEF Promise!Describe
      <4> QED BY <1>6, <4>1, <4>2, <4>3, <4>4 DEF Describers
    <3> QED BY <3>2, <3>3
  <2> QED BY <2>1, <2>2
<1>7. CASE s \notin {"write_file", "concat", "run_fetch", "extract"} \cup Describers
  <2> DEFINE Same == /\ guest'.content = guest.content /\ guest'.mtime = guest.mtime
                     /\ guest'.owner = guest.owner /\ guest'.mode = guest.mode
  <2>1. CASE s \in Tolerated \cup {"remove_scratch"}
    <3>1. /\ guest'.content = guest.content /\ guest'.mtime = guest.mtime
          /\ guest'.owner = guest.owner
          /\ guest'.mode # guest.mode =>
               /\ s = "clear_readonly" /\ ~site.windows
               /\ guest.mode = "source" /\ guest'.mode = "widened"
      BY <2>1, GuestAfter
    <3>2. guest'.mode # guest.mode => Promise!Clear /\ ~job.bundle
      BY <3>1 DEF Promise!Clear, Wish
    <3> QED BY <2>1, <3>1, <3>2, <1>2
  <2>2. CASE s = "create_scratch"
    <3>1. Same
      BY <2>2 DEF Carried, Spoilt, GuestType
    <3> QED BY <2>2, <3>1, <1>2
  <2>3. CASE s = "write_chunk"
    <3>1. guest' = guest \/ guest' = [guest EXCEPT !.chunks = IF guest.scratch THEN @ + 1 ELSE @]
      BY <2>3 DEF Carried, Spoilt
    <3>2. Same
      BY <3>1 DEF GuestType
    <3> QED BY <2>3, <3>2, <1>2
  <2>4. CASE s = "remove_manifest"
    <3>1. Same
      BY <2>4 DEF Carried, Spoilt, GuestType
    <3> QED BY <2>4, <3>1, <1>2
  <2>5. CASE s \in {"ensure_dir", "verify_exists", "verify_checksum", "verify_manifest"}
    <3>1. guest' = guest
      BY <2>5 DEF Carried, Spoilt
    <3> QED BY <2>5, <3>1, <1>2
  <2> QED BY <1>7, <2>1, <2>2, <2>3, <2>4, <2>5 DEF Describers
<1> QED BY <1>3, <1>4, <1>5, <1>6, <1>7

(* What a step does: the command the runner waits for or one it gave up on  *)
(* takes effect, and at most the former is left behind.                     *)
LEMMA StepsOfGuest ==
  ASSUME TypeOK, Next
  PROVE  /\ UNCHANGED options
         /\ adrift' \subseteq adrift \cup ({at} \cap Commands)
         /\ \/ guest' = guest
            \/ \E s \in ({at} \cup adrift) \cap Commands :
                 guest' \in {Carried(s, guest)} \cup Spoilt(s, guest)
<1>1. adrift \subseteq Commands
  BY DEF TypeOK
<1>2. CASE Capabilities \/ Locally \/ FetchOwnership \/ Cancel \/ SelectNic
           \/ DetectTool \/ TrustCa
  BY <1>2 DEF Capabilities, Locally, FetchOwnership, Cancel, SelectNic, DetectTool, TrustCa
<1>3. CASE Returns \/ Misreports \/ ExitsNonzero
  BY <1>3 DEF Returns, Misreports, ExitsNonzero, Unreliable
<1>4. CASE Raises
  BY <1>4 DEF Raises, SetAdrift
<1>5. CASE Cancelled
  BY <1>5 DEF Cancelled, SetAdrift
<1>6. CASE RemoveScratch
  BY <1>6 DEF RemoveScratch, SetAdrift
<1>7. CASE TlsFails
  BY <1>7 DEF TlsFails
<1>8. CASE Late
  BY <1>1, <1>8 DEF Late
<1> QED BY <1>2, <1>3, <1>4, <1>5, <1>6, <1>7, <1>8 DEF Next, RunnerStep

(* Seen from the promise, every step writes, describes or does nothing, and *)
(* what is left behind still fits the destination.                          *)
LEMMA FileStep ==
  ASSUME RunnerInv, AdriftFits, Next
  PROVE  /\ UNCHANGED Promise!file \/ Promise!Write \/ Promise!Describe \/ Promise!Clear
         /\ AdriftFits'
<1>1. TypeOK /\ RunnerInv' /\ TypeOK'
  BY StepKeeps DEF RunnerInv
<1>2. guest \in GuestType /\ guest' \in GuestType
  BY <1>1 DEF TypeOK
<1>3. job' = job /\ site' = site
  BY <1>1, StepsOfGuest DEF options
<1>4. /\ at \in Describers => guest.content # "absent" /\ ~job.bundle
      /\ at = "write_file" => ~job.bundle
      /\ at = "extract" => job.bundle
      /\ at = "clear_readonly" => ~job.bundle /\ site.exec
  BY DEF RunnerInv, Delivered, StepFits, Describers
<1>5. /\ UNCHANGED Promise!file \/ Promise!Write \/ Promise!Describe \/ Promise!Clear
      /\ guest.content # "absent" => guest'.content # "absent"
      /\ job.bundle => /\ guest'.mtime = "other" /\ guest'.owner = "other"
                       /\ guest'.mode = "other"
  <2>1. CASE guest' = guest
    BY <2>1 DEF Promise!file, AdriftFits
  <2>2. ASSUME NEW s \in ({at} \cup adrift) \cap Commands,
               guest' \in {Carried(s, guest)} \cup Spoilt(s, guest)
        PROVE  <1>5!:
    <3>1. /\ s \in Describers => guest.content # "absent"
          /\ s = "extract" => job.bundle
          /\ s = "clear_readonly" => ~job.bundle /\ site.exec
          /\ job.bundle => /\ guest.mtime = "other" /\ guest.mode = "other"
                           /\ guest.owner = "other"
                           /\ s \notin Describers \cup {"write_file"}
      BY <1>4 DEF AdriftFits
    <3> QED BY <1>1, <1>2, <2>2, <3>1, CommandIsSeen, Constants
  <2> QED BY <1>1, <2>1, <2>2, StepsOfGuest
<1>6. AdriftFits'
  BY <1>1, <1>3, <1>4, <1>5, StepsOfGuest DEF AdriftFits
<1> QED BY <1>5, <1>6

(* Only a runner at work changes its job's status.                          *)
LEMMA StatusStep ==
  ASSUME RunnerInv, Next
  PROVE  UNCHANGED status \/ status \in {"running", "verifying"}
<1>1. status \in {"running", "verifying"} \cup Settled /\ (at \in Working => status \notin Settled)
  BY DEF RunnerInv, TypeOK, StepFits
<1>2. CASE at \in Working
  BY <1>1, <1>2
<1>3. CASE at \notin Working
  BY <1>3
     DEF Next, RunnerStep, Capabilities, Locally, FetchOwnership, Returns, Misreports,
         ExitsNonzero, Raises, Cancelled, RemoveScratch, SelectNic, DetectTool, TrustCa,
         TlsFails, Cancel, Late, Unreliable
<1> QED BY <1>2, <1>3

(* Nothing but a late clearing of the way touches the file of a job that is *)
(* done.                                                                    *)
LEMMA DoneIsQuiet ==
  ASSUME RunnerInv, AdriftFits, Next, status = "done"
  PROVE  (UNCHANGED Promise!file \/ Promise!Clear) /\ UNCHANGED status
<1>1. /\ TypeOK /\ at \notin Working /\ at \in {"remove_scratch", "finished"}
      /\ adrift \subseteq Tolerated \cup {"remove_scratch"}
  BY DEF RunnerInv, TypeOK, StepFits, QuietGuest
<1>2. UNCHANGED status
  BY StatusStep
<1>3. CASE guest' = guest
  BY <1>2, <1>3 DEF Promise!file
<1>4. ASSUME NEW s \in ({at} \cup adrift) \cap Commands,
             guest' \in {Carried(s, guest)} \cup Spoilt(s, guest)
      PROVE  UNCHANGED Promise!file \/ Promise!Clear
  <2>1. s \in Tolerated \cup {"remove_scratch"}
    BY <1>1
  <2>2. s # "write_chunk" /\ guest \in GuestType
    BY <1>1, <2>1 DEF TypeOK
  <2>3. /\ guest'.content = guest.content /\ guest'.mtime = guest.mtime
        /\ guest'.owner = guest.owner
        /\ guest'.mode # guest.mode =>
             /\ s = "clear_readonly" /\ ~site.windows
             /\ guest.mode = "source" /\ guest'.mode = "widened"
    BY <1>1, <1>4, <2>1, <2>2, GuestAfter, Constants
  <2>4. s = "clear_readonly" => ~job.bundle /\ site.exec
    BY <1>1 DEF AdriftFits
  <2> QED BY <2>3, <2>4 DEF Promise!file, Promise!Clear, Wish
<1> QED BY <1>1, <1>2, <1>3, <1>4, StepsOfGuest

(* Every step of the runner and of what it left behind is a step of the     *)
(* promise.                                                                 *)
LEMMA StepKeepsPromise ==
  ASSUME RunnerInv, AdriftFits, Next
  PROVE  [Promise!Step \/ Promise!Stray]_<<Wish, Promise!file, Outcome>> /\ AdriftFits'
<1>1. TypeOK /\ RunnerInv' /\ TypeOK' /\ AdriftFits'
  BY StepKeeps, FileStep DEF RunnerInv
<1>2. job' = job /\ UNCHANGED Wish
  BY <1>1, StepsOfGuest DEF options, Wish
<1>3. CASE status = "done"
  <2>1. Outcome = "done" /\ Outcome' = "done"
    BY <1>1, <1>3, DoneIsQuiet DEF Outcome
  <2> QED BY <1>1, <1>2, <1>3, <2>1, DoneIsQuiet DEF Promise!Stray
<1>4. CASE status # "done"
  <2>1. Outcome # "done"
    BY <1>4 DEF Outcome
  <2>2. UNCHANGED Promise!file \/ Promise!Write \/ Promise!Describe \/ Promise!Clear
    BY FileStep
  <2>3. UNCHANGED Outcome \/ Promise!Settle
    <3>1. CASE UNCHANGED status
      BY <3>1 DEF Outcome
    <3>2. CASE status \in {"running", "verifying"}
      <4>1. Outcome = "underway"
        BY <3>2 DEF Outcome
      <4>2. Outcome' = "done" => Promise!Restored'
        <5> SUFFICES ASSUME status' = "done" PROVE Promise!Restored'
          BY <1>1 DEF Outcome
        <5>1. /\ guest'.content # "absent"
              /\ job.verify \/ job.bundle \/ ~Large => guest'.content = "source"
          BY <1>1, <1>2 DEF RunnerInv, VerifiedIsSource
        <5>2. CASE job.bundle
          <6>1. guest'.owner = "other"
            BY <1>1, <1>2, <5>2 DEF AdriftFits
          <6> QED BY <1>2, <5>1, <5>2, <6>1 DEF Promise!Restored, Wish, Promise!file
        <5>3. CASE ~job.bundle
          <6>1. /\ job.metadata /\ job.mtime => guest'.mtime = "source"
                /\ guest'.owner = "source" => guest'.mode \in {"source", "widened"}
            BY <1>1, <1>2, <5>3 DEF RunnerInv, MetadataSurvives
          <6> QED BY <1>2, <5>1, <5>3, <6>1 DEF Promise!Restored, Wish, Promise!file
        <5> QED BY <5>2, <5>3
      <4>3. Outcome' \in {"underway", "done", "failed", "cancelled"}
        BY <1>1 DEF TypeOK, Outcome
      <4> QED BY <4>1, <4>2, <4>3 DEF Promise!Settle
    <3> QED BY <3>1, <3>2, StatusStep
  <2> QED BY <1>1, <1>2, <2>1, <2>2, <2>3 DEF Promise!Step
<1> QED BY <1>3, <1>4

(* Every job starts with nothing of the promise broken.                     *)
LEMMA InitKeepsPromise == ASSUME Init PROVE Promise!Init /\ AdriftFits
<1>1. job \in JobType
  BY RunnerAssumption DEF Init
<1>2. /\ guest.content \in {"absent", "old"} /\ guest.mtime = "other"
      /\ guest.owner = "other" /\ guest.mode = "other"
  BY DEF Init, Fresh
<1>3. Wish \in Promise!Wishes
  BY <1>1 DEF Wish, Promise!Wishes, JobType
<1> QED BY <1>2, <1>3 DEF Init, Promise!Init, AdriftFits, Promise!file, Outcome

(* Whatever a restore goes through, its destination and its status are      *)
(* those of Restore: done is said once, of a file that is what was asked    *)
(* for, and nothing of the job touches that file again but a chmod u+w that *)
(* was given up on (_run_single_file_restore, _run_bundle_restore).         *)
THEOREM RunnerKeepsPromise == Spec => KeepsPromise
<1>1. Init => Promise!Init /\ AdriftFits
  BY InitKeepsPromise
<1>2. RunnerInv /\ AdriftFits /\ [Next]_vars =>
        AdriftFits' /\ [Promise!Step \/ Promise!Stray]_<<Wish, Promise!file, Outcome>>
  <2>1. UNCHANGED vars /\ AdriftFits => AdriftFits' /\ UNCHANGED <<Wish, Promise!file, Outcome>>
    BY DEF vars, AdriftFits, Wish, Promise!file, Outcome
  <2> QED BY <2>1, StepKeepsPromise
<1> QED BY <1>1, <1>2, Inductive, PTL DEF Spec, KeepsPromise, Promise!Spec

-----------------------------------------------------------------------------
(* The ladder of TLS modes.                                                 *)

(* No step leads back to before the choice of a mode.                       *)
LEMMA EarlyComesFirst ==
  ASSUME NEW s, NEW g
  PROVE  /\ Following(s, g) \in Early => s \in Early
         /\ FromVerify \notin Early /\ Chunked \notin Early /\ Cleanup \notin Early
<1> USE DEF Early
<1>1. FromVerify \notin Early /\ Chunked \notin Early /\ Cleanup \notin Early
  BY DEF FromVerify, Chunked, Cleanup
<1>2. FromMtime \notin Early
  BY DEF FromMtime, FromOwnership, FromVerify
<1>3. CASE job.bundle
  BY <1>1, <1>3 DEF Following, BundleOrder
<1>4. CASE ~job.bundle
  BY <1>1, <1>2, <1>4
     DEF Following, FileOrder, OwnershipOrder, FromOwnership, FromVerify
<1> QED BY <1>1, <1>3, <1>4

(* A step entered is before the choice only if the one before it was.       *)
LEMMA EntersEarly ==
  ASSUME NEW next, Enter(next), job' = job, at' \in Early'
  PROVE  next \in Early
<1>1. Early' = Early
  BY DEF Early
<1>2. Cleanup \notin Early
  BY EarlyComesFirst
<1> QED BY <1>1, <1>2 DEF Enter

(* A step that leaves the mode alone.                                       *)
LEMMA ModeUnchanged ==
  ASSUME TypeOK, Next, ~DetectTool, ~TrustCa, ~TlsFails, at' \in Early'
  PROVE  at \in Early /\ mode' = mode
<1>1. job' = job /\ mode' = mode
  BY DEF Next, RunnerStep, Capabilities, Locally, FetchOwnership, Returns, Misreports,
         ExitsNonzero, Raises, Cancelled, RemoveScratch, SelectNic, Cancel, Late,
         NotAvailable, options, fetch
<1>2. Early' = Early
  BY <1>1 DEF Early
<1>3. ~Fail /\ ~Cancelled /\ ~RemoveScratch
  <2>1. at' # Cleanup /\ at' # "finished"
    BY <1>2, EarlyComesFirst DEF Early
  <2> QED BY <2>1 DEF Fail, Cancelled, RemoveScratch
<1>4. CASE Cancel \/ Late
  BY <1>1, <1>2, <1>4 DEF Cancel, Late
<1>5. CASE SelectNic
  <2>1. at \in Early
    BY <1>5 DEF SelectNic, Early
  <2> QED BY <1>1, <2>1
<1>6. CASE Capabilities \/ Locally \/ Returns \/ Misreports \/ ExitsNonzero \/ Raises
           \/ FetchOwnership
  <2>1. \E g : Enter(Following(at, g)) \/ Enter(FromVerify)
    BY <1>3, <1>6
       DEF Capabilities, Locally, FetchOwnership, Returns, Misreports, ExitsNonzero, Raises
  <2> QED BY <1>1, <2>1, EntersEarly, EarlyComesFirst
<1> QED BY <1>3, <1>4, <1>5, <1>6 DEF Next, RunnerStep

(* A step that may choose a mode: the first one, or a rung further down.    *)
LEMMA ModeChosen ==
  ASSUME RunnerInv, DetectTool \/ TrustCa \/ TlsFails, mode' # mode, at # "detect_tool"
  PROVE  mode' \in Modes /\ Rank[mode'] < Rank[mode]
<1>1. TypeOK
  BY DEF RunnerInv
<1>2. CASE TrustCa
  <2> DEFINE m == ResolveTlsMode(tool, "insecure", Minimum)
  <2>1. mode = "verify" /\ mode' = m /\ m # "none"
    BY <1>2 DEF TrustCa, RunnerInv, LadderInRange, Unmet, NotAvailable, fetch
  <2>2. m \in Modes /\ Rank[m] <= Rank["insecure"]
    BY <1>1, <2>1, ResolvedMode, MinimumRange DEF Modes
  <2> QED BY <2>1, <2>2, ModeRanks DEF Modes
<1>3. CASE TlsFails
  <2> DEFINE m == ResolveTlsMode(tool, OneRungDown(mode), Minimum)
  <2>1. at = "run_fetch" /\ mode' = m /\ m # "none"
    BY <1>3 DEF TlsFails, SteppedDown, NotAvailable, fetch
  <2>2. mode \in Modes
    BY <1>1, <2>1 DEF RunnerInv, FloorKept, TypeOK, ToolSupportsTls, Modes
  <2>3. OneRungDown(mode) \in Modes /\ Rank[OneRungDown(mode)] <= Rank[mode]
    BY <2>2, ModeRanks DEF OneRungDown, Modes
  <2>4. m \in Modes /\ Rank[m] <= Rank[OneRungDown(mode)]
    BY <1>1, <2>1, <2>3, ResolvedMode, MinimumRange
  <2> QED BY <2>1, <2>2, <2>3, <2>4, ModeRanks DEF Modes
<1> QED BY <1>2, <1>3, ModeRanks DEF DetectTool

(* The steps at which a mode is chosen lead past the choice.                *)
LEMMA ChoiceIsPassed ==
  ASSUME TypeOK, DetectTool \/ TrustCa \/ TlsFails
  PROVE  at' \notin Early'
<1>1. Early' = Early
  BY DEF DetectTool, TrustCa, TlsFails, options, Early
<1>2. /\ "trust_ca" \notin Early /\ "run_fetch" \notin Early
      /\ Chunked \notin Early /\ Cleanup \notin Early
  BY EarlyComesFirst DEF Early
<1>3. ASSUME NEW next \in {"trust_ca", "run_fetch", Chunked}, Enter(next)
      PROVE  at' \notin Early
  BY <1>2, <1>3 DEF Enter
<1>4. Fail \/ NotAvailable \/ Unmet => at' \notin Early
  BY <1>2, <1>3 DEF Fail, NotAvailable, Unmet
<1> QED BY <1>1, <1>2, <1>3, <1>4 DEF DetectTool, TrustCa, TlsFails

(* However often handshakes and installations of the CA fail, the mode of a *)
(* fetch goes down only (_try_direct_network_transfer).                     *)
THEOREM LadderGoesDown == Spec => LadderDescends
<1>1. Init => NotYetClimbed
  BY DEF Init, NotYetClimbed
<1>2. RunnerInv /\ NotYetClimbed /\ [Next]_vars => NotYetClimbed'
  <2>1. UNCHANGED vars /\ NotYetClimbed => NotYetClimbed'
    BY DEF vars, NotYetClimbed, Early
  <2>2. RunnerInv /\ NotYetClimbed /\ Next => NotYetClimbed'
    BY ModeUnchanged, ChoiceIsPassed DEF NotYetClimbed, RunnerInv
  <2> QED BY <2>1, <2>2
<1>3. RunnerInv /\ NotYetClimbed /\ [Next]_vars =>
        [mode' # mode => \/ mode = "none" /\ at = "detect_tool"
                         \/ mode' \in Modes /\ Rank[mode'] < Rank[mode]]_vars
  <2> SUFFICES ASSUME RunnerInv, NotYetClimbed, Next, mode' # mode,
                      ~(mode = "none" /\ at = "detect_tool")
               PROVE  mode' \in Modes /\ Rank[mode'] < Rank[mode]
    OBVIOUS
  <2>1. at # "detect_tool"
    BY DEF NotYetClimbed, Early
  <2>2. DetectTool \/ TrustCa \/ TlsFails
    BY DEF Next, RunnerStep, Capabilities, Locally, FetchOwnership, Returns, Misreports,
           ExitsNonzero, Raises, Cancelled, RemoveScratch, SelectNic, Cancel, Late,
           NotAvailable, fetch
  <2> QED BY <2>1, <2>2, ModeChosen
<1> QED BY <1>1, <1>2, <1>3, Inductive, PTL DEF Spec, LadderDescends
=============================================================================
