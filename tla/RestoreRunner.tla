--------------------------- MODULE RestoreRunner ---------------------------
(***************************************************************************)
(* The transfer pipeline of one restore job (backend/restore_runner.py):   *)
(* a single file written in one call, chunk by chunk or fetched by the     *)
(* guest over its own network, and a bundle of items that is built,        *)
(* moved, extracted and verified.                                          *)
(*                                                                         *)
(* The runner is a sequence of steps, almost all of them one guest-agent   *)
(* command.  What is hard is how a command ends: it may be carried out,    *)
(* report success without having worked, exit nonzero, be refused, or time *)
(* out or be cancelled with its process still at work in the guest, where  *)
(* it takes effect later or never.                                         *)
(***************************************************************************)
EXTENDS Naturals, NetworkPull

CONSTANTS
  Jobs,            \* what users ask for
  Sites,           \* what guests and administrators allow
  MaxChunks        \* bound: chunks of a transfer

(* bundle: several items; chunks: file-write calls the content needs;       *)
(* mtime: the listing of the backup told one.                               *)
JobType == [bundle : BOOLEAN, chunks : 1..MaxChunks, metadata : BOOLEAN,
            mtime : BOOLEAN, ownership : BOOLEAN, verify : BOOLEAN]

(* exec: guest-exec is allowed; nics: data NICs are configured; tools: what *)
(* the guest has; the rest are the RESTORE_DATA_NIC_TLS_* settings.         *)
SiteType == [windows : BOOLEAN, exec : BOOLEAN, nics : BOOLEAN,
             tools : SUBSET Tools, preferred : Modes, minimum : Modes,
             unmet : {"fallback", "fail"}, installCa : BOOLEAN]

ASSUME RunnerAssumption ==
  /\ MaxChunks \in Nat \ {0}
  /\ Jobs \subseteq JobType
  /\ Sites \subseteq SiteType
  /\ \A s \in Sites : Rank[s.minimum] <= Rank[s.preferred]

VARIABLES
  job,             \* the job's options
  site,            \* the guest and the settings it meets
  at,              \* the step the runner is at
  status,          \* the job's status
  cancelling,      \* task.cancel() was called and has not been delivered
  scratchDir,      \* the runner's scratch_dir is set
  network,         \* the content goes by Direct Network Transfer
  tool,            \* the fetch tool found in the guest
  mode,            \* the TLS mode of the fetch
  guest,           \* the destination and the scratch directory
  warned,          \* the log warns of a file left group and world writable
  adrift           \* commands nobody waits for that may still take effect

vars == <<job, site, at, status, cancelling, scratchDir, network, tool, mode,
          guest, warned, adrift>>

options == <<job, site>>
fetch   == <<network, tool, mode>>

-----------------------------------------------------------------------------
(* The guest.  content is what the destination holds, locked a ReadOnly or  *)
(* immutable attribute on it, mode "0666" the creation mode of qemu-ga,     *)
(* "stripped" a mode whose set-id bits a chown has cleared and "widened"    *)
(* the source's mode with the owner's write permission added to it.         *)
Contents == {"absent", "old", "partial", "source"}

GuestType == [content : Contents, locked : BOOLEAN,
              mtime : {"other", "source"}, owner : {"other", "source"},
              mode : {"other", "0666", "source", "stripped", "widened"},
              scratch : BOOLEAN, chunks : 0..MaxChunks,
              archive : {"absent", "partial", "source"}, manifest : BOOLEAN]

Fresh(content, locked) ==
  [content |-> content, locked |-> locked, mtime |-> "other",
   owner |-> "other", mode |-> "other", scratch |-> FALSE, chunks |-> 0,
   archive |-> "absent", manifest |-> FALSE]

Large == job.bundle \/ job.chunks > 1

NeedsExec == Large \/ job.metadata \/ job.ownership \/ job.verify

Init ==
  /\ job \in Jobs
  /\ site \in Sites
  /\ at = IF job.bundle THEN "capabilities" ELSE "open_download"
  /\ status = "running"
  /\ cancelling = FALSE
  /\ scratchDir = FALSE
  /\ network = FALSE
  /\ tool = "none"
  /\ mode = "none"
  /\ guest \in {Fresh("absent", FALSE), Fresh("old", FALSE), Fresh("old", TRUE)}
  /\ job.bundle => ~guest.locked
  /\ job.ownership => ~site.windows
  /\ warned = FALSE
  /\ adrift = {}

-----------------------------------------------------------------------------
(* The order of the steps.                                                  *)

FromVerify    == IF job.verify THEN "verify_checksum" ELSE "settle"
FromOwnership == IF job.ownership THEN "fetch_ownership" ELSE FromVerify
FromMtime     == IF job.metadata /\ job.mtime THEN "restore_mtime" ELSE FromOwnership
Chunked       == IF job.bundle THEN "write_chunk" ELSE "create_scratch"

(* _write_chunks_to_scratch stops when its source is exhausted.             *)
MoreChunks(g) == g.chunks < job.chunks

(* Bugs: the mode of qemu-ga is tightened when metadata is restored only,   *)
(* and set-id bits are lost to a chown that comes last.                     *)
ModeStepRare == site.exec /\ ~site.windows /\ job.metadata

ModeStep == site.exec /\ ~site.windows

OwnershipOrderSwapped == <<"chmod", "chown">>

OwnershipOrder == <<"chown", "chmod">>

(* What follows a step that went well and left the guest as g, for a single *)
(* file.                                                                    *)
FileOrder(s, g) ==
  CASE s = "open_download"    -> "capabilities"
    [] s = "capabilities"     -> IF site.exec THEN "ensure_dir" ELSE "write_file"
    [] s = "ensure_dir"       -> IF Large THEN "select_nic" ELSE "clear_readonly"
    [] s = "clear_readonly"   -> IF Large THEN "concat" ELSE "write_file"
    [] s = "write_file"       -> IF ModeStep THEN "set_file_mode" ELSE FromMtime
    [] s = "set_file_mode"    -> FromMtime
    [] s = "create_scratch"   -> "write_chunk"
    [] s = "write_chunk"      -> IF MoreChunks(g) THEN "write_chunk" ELSE "clear_readonly"
    [] s \in {"concat", "run_fetch"} -> "verify_exists"
    [] s = "verify_exists"    -> IF network THEN "drain" ELSE FromMtime
    [] s = "drain"            -> FromMtime
    [] s = "restore_mtime"    -> FromOwnership
    [] s = "fetch_ownership"  -> OwnershipOrder[1]
    [] s = OwnershipOrder[1]  -> OwnershipOrder[2]
    [] s = OwnershipOrder[2]  -> FromVerify
    [] OTHER                  -> "settle"

(* The same for a bundle, which always needs guest-exec and a verification. *)
BundleOrder(s, g) ==
  CASE s = "capabilities"     -> "ensure_dir"
    [] s = "ensure_dir"       -> "create_scratch"
    [] s = "create_scratch"   -> "probe_zst"
    [] s = "probe_zst"        -> "build_bundle"
    [] s = "build_bundle"     -> IF job.chunks > 1 THEN "select_nic" ELSE "write_chunk"
    [] s = "write_chunk"      -> IF MoreChunks(g) THEN "write_chunk" ELSE "concat"
    [] s = "run_fetch"        -> "verify_exists"
    [] s \in {"concat", "verify_exists"} -> "extract"
    [] s = "extract"          -> "verify_manifest"
    [] s = "verify_manifest"  -> "remove_manifest"
    [] OTHER                  -> "settle"

Following(s, g) == IF job.bundle THEN BundleOrder(s, g) ELSE FileOrder(s, g)

(* Steps that talk to PVE or work locally, and those that are one command   *)
(* of the guest agent (several for the probes and the attributes).          *)
LocalSteps == {"open_download", "build_bundle", "drain"}

Commands == {"ensure_dir", "clear_readonly", "write_file", "set_file_mode",
             "create_scratch", "probe_zst", "write_chunk", "concat",
             "run_fetch", "verify_exists", "restore_mtime", "chown", "chmod",
             "verify_checksum", "extract", "verify_manifest",
             "remove_manifest", "remove_scratch"}

Working == LocalSteps \cup (Commands \ {"remove_scratch"}) \cup
           {"capabilities", "select_nic", "detect_tool", "trust_ca", "fetch_ownership"}

(* Steps that change what the destination holds.                            *)
Writers == {"write_file", "concat", "run_fetch", "extract"}

(* "best effort": a nonzero exit is logged or ignored.                      *)
Soft == {"clear_readonly", "set_file_mode", "probe_zst", "remove_manifest"}

(* A bug: a fetch that outlives its poll budget counts as done.             *)
SwallowedFetch(s, error) ==
  \/ s \in {"probe_zst", "run_fetch"}
  \/ s = "clear_readonly" /\ error \in {"refused", "gave_up"}

(* Steps whose exceptions are swallowed as well; _clear_readonly_if_present *)
(* lets the transport errors of httpx through.                              *)
Swallowed(s, error) ==
  \/ s = "probe_zst"
  \/ s = "clear_readonly" /\ error \in {"refused", "gave_up"}

-----------------------------------------------------------------------------
(* The guest's side: what a command does when it is carried out in full,    *)
(* what it may leave when it is not, and whether it can succeed at all.     *)

Overwritten(g, content, createMode) ==
  [g EXCEPT !.content = content, !.mtime = "other",
            !.mode = IF g.content = "absent" THEN createMode ELSE @]

(* Bundles are moved into an archive in the scratch directory first.        *)
Moved(g, what, createMode) ==
  IF job.bundle THEN [g EXCEPT !.archive = IF g.scratch THEN what ELSE @]
  ELSE Overwritten(g, what, createMode)

AllChunks(g) == g.scratch /\ g.chunks = job.chunks

(* chmod u+w of _clear_readonly_if_present, which matters to a mode that    *)
(* was restored already; a Windows guest has its attributes set instead.    *)
OwnerWritable(m) == IF m = "source" /\ ~site.windows THEN "widened" ELSE m

(* A change of the owner clears the set-id bits.                            *)
SetIdCleared(m) == IF m \in {"source", "widened"} THEN "stripped" ELSE m

Carried(s, g) ==
  CASE s = "clear_readonly"  -> [g EXCEPT !.locked = FALSE, !.mode = OwnerWritable(@)]
    [] s = "write_file"      -> Overwritten(g, "source", "0666")
    [] s = "set_file_mode"   -> [g EXCEPT !.mode = IF @ = "0666" THEN "other" ELSE @]
    [] s = "create_scratch"  -> [g EXCEPT !.scratch = TRUE]
    [] s = "write_chunk"     -> [g EXCEPT !.chunks = IF g.scratch THEN @ + 1 ELSE @]
    [] s = "concat"          -> Moved(g, IF AllChunks(g) THEN "source" ELSE "partial", "other")
    [] s = "run_fetch"       -> Moved(g, "source", "other")
    [] s = "restore_mtime"   -> [g EXCEPT !.mtime = "source"]
    [] s = "chown"           -> [g EXCEPT !.owner = "source", !.mode = SetIdCleared(@)]
    [] s = "chmod"           -> [g EXCEPT !.mode = "source"]
    [] s = "extract"         -> IF g.archive = "absent" THEN g
                                ELSE [g EXCEPT !.content = g.archive, !.manifest = TRUE]
    [] s = "remove_manifest" -> [g EXCEPT !.manifest = FALSE]
    [] s = "remove_scratch"  -> [g EXCEPT !.scratch = FALSE, !.chunks = 0, !.archive = "absent"]
    [] OTHER                 -> g

Spoilt(s, g) ==
  {g} \cup
  CASE s = "clear_readonly"        -> {[g EXCEPT !.mode = OwnerWritable(@)]}
    [] s = "write_file"            -> {Overwritten(g, "partial", "0666")}
    [] s \in {"concat", "run_fetch"} -> {Moved(g, "partial", "other")}
    [] s = "create_scratch"        -> {Carried(s, g)}
    [] s = "extract"               -> {[g EXCEPT !.content = "partial", !.manifest = m] :
                                         m \in BOOLEAN}
    [] s = "remove_scratch"        -> {[g EXCEPT !.chunks = 0]}
    [] OTHER                       -> {}

(* A locked destination refuses every writer; the checks succeed when what  *)
(* they check is true.                                                      *)
Blocked(s, g) == s \in Writers /\ g.locked

Works(s, g) ==
  CASE s \in Writers \ {"concat", "extract"} -> ~g.locked
    [] s = "concat"          -> ~g.locked /\ AllChunks(g)
    [] s = "write_chunk"     -> g.scratch
    [] s = "verify_exists"   -> IF job.bundle THEN g.archive # "absent" ELSE g.content # "absent"
    [] s \in {"set_file_mode", "restore_mtime", "chown", "chmod"} -> g.content # "absent"
    [] s = "verify_checksum" -> g.content = "source"
    [] s = "extract"         -> g.archive = "source"
    [] s = "verify_manifest" -> g.content = "source" /\ g.manifest
    [] OTHER                 -> TRUE

(* Exit codes that are not to be trusted: the command says it worked.       *)
Unreliable == {"concat", "run_fetch", "extract"}

-----------------------------------------------------------------------------
(* The runner's side: where the job goes from a step.                       *)

Cleanup == IF scratchDir THEN "remove_scratch" ELSE "finished"

(* A bug: scratch_dir is assigned once mkdir has returned.                  *)
EnterNamedLate(next) ==
  /\ scratchDir' = (scratchDir \/ at = "create_scratch")
  /\ IF next = "settle"
       THEN at' = Cleanup /\ status' = "done"
       ELSE /\ at' = next
            /\ status' = IF next \in {"verify_checksum", "verify_manifest"}
                           THEN "verifying" ELSE status

(* scratch_dir is assigned before the directory is made.                    *)
Enter(next) ==
  /\ scratchDir' = (scratchDir \/ next = "create_scratch")
  /\ IF next = "settle"
       THEN at' = Cleanup /\ status' = "done"
       ELSE /\ at' = next
            /\ status' = IF next \in {"verify_checksum", "verify_manifest"}
                           THEN "verifying" ELSE status

Fail ==
  /\ at' = Cleanup
  /\ status' = "failed"
  /\ UNCHANGED scratchDir

(* Capabilities are checked again by the job, whatever the page was told.   *)
Capabilities ==
  /\ at = "capabilities"
  /\ ~cancelling
  /\ IF NeedsExec /\ ~site.exec THEN Fail ELSE Enter(Following(at, guest))
  /\ UNCHANGED <<options, warned, cancelling, fetch, guest, adrift>>

(* A step that talks to PVE or works on this side.                          *)
Locally ==
  /\ at \in LocalSteps
  /\ ~cancelling
  /\ Enter(Following(at, guest))
  /\ UNCHANGED <<options, warned, cancelling, fetch, guest, adrift>>

(* None when PVE's answer holds no header: skipped, not failed.             *)
FetchOwnership ==
  /\ at = "fetch_ownership"
  /\ ~cancelling
  /\ Enter(Following(at, guest)) \/ Enter(FromVerify)
  /\ UNCHANGED <<options, warned, cancelling, fetch, guest, adrift>>

Returns ==
  /\ at \in Commands \ {"remove_scratch"}
  /\ ~cancelling
  /\ Works(at, guest)
  /\ guest' = Carried(at, guest)
  /\ Enter(Following(at, guest'))
  /\ warned' = (warned \/ (at = "write_file" /\ ~site.exec /\ ~site.windows))
  /\ UNCHANGED <<options, cancelling, fetch, adrift>>

(* Exit code 0 all the same.                                                *)
Misreports ==
  /\ at \in Unreliable
  /\ ~cancelling
  /\ ~Blocked(at, guest)
  /\ guest' \in Spoilt(at, guest)
  /\ Enter(Following(at, guest'))
  /\ UNCHANGED <<options, warned, cancelling, fetch, adrift>>

(* A bug: a checksum that does not match is only logged.                    *)
ExitsNonzeroUnchecked ==
  /\ at \in Commands \ {"write_file", "write_chunk", "remove_scratch"}
  /\ ~cancelling
  /\ guest' \in IF Blocked(at, guest) THEN {guest} ELSE Spoilt(at, guest)
  /\ IF at \in Soft \cup {"verify_checksum"} THEN Enter(Following(at, guest')) ELSE Fail
  /\ warned' = (warned \/ at = "set_file_mode")
  /\ UNCHANGED <<options, cancelling, fetch, adrift>>

(* The command ran and says it failed: a check that does not hold included. *)
ExitsNonzero ==
  /\ at \in Commands \ {"write_file", "write_chunk", "remove_scratch"}
  /\ ~cancelling
  /\ guest' \in IF Blocked(at, guest) THEN {guest} ELSE Spoilt(at, guest)
  /\ IF at \in Soft THEN Enter(Following(at, guest')) ELSE Fail
  /\ warned' = (warned \/ at = "set_file_mode")
  /\ UNCHANGED <<options, cancelling, fetch, adrift>>

(* A command whose caller is gone keeps going if PVE or the guest had it.   *)
SetAdrift(s) ==
  \/ UNCHANGED adrift
  \/ s \in Commands /\ adrift' = adrift \cup {s}

(* HTTPStatusError ("refused"), GuestExecTimeout ("gave_up") or a transport *)
(* error of httpx ("lost"); only the first leaves nothing behind.           *)
Raises ==
  /\ at \in Working \ {"detect_tool"}
  /\ ~cancelling
  /\ \E error \in {"refused", "gave_up", "lost"} :
       /\ IF error = "refused" THEN UNCHANGED adrift ELSE SetAdrift(at)
       /\ IF Swallowed(at, error) THEN Enter(Following(at, guest)) ELSE Fail
  /\ UNCHANGED <<options, warned, cancelling, fetch, guest>>

(* RestoreJobManager.cancel(), which reaches the task at its await.         *)
Cancel ==
  /\ status \in {"running", "verifying"}
  /\ cancelling' = TRUE
  /\ UNCHANGED <<options, warned, at, status, scratchDir, fetch, guest, adrift>>

Cancelled ==
  /\ at \in Working
  /\ cancelling
  /\ cancelling' = FALSE
  /\ SetAdrift(at)
  /\ at' = Cleanup
  /\ status' = "cancelled"
  /\ UNCHANGED <<options, warned, scratchDir, fetch, guest>>

(* _remove_scratch_dir: whatever happens, the job is over.                  *)
RemoveScratch ==
  /\ at = "remove_scratch"
  /\ \/ guest' = Carried(at, guest) /\ UNCHANGED adrift
     \/ guest' \in Spoilt(at, guest) /\ SetAdrift(at)
  /\ at' = "finished"
  /\ UNCHANGED <<options, warned, status, cancelling, scratchDir, fetch>>

(* A command nobody waits for gets on with it, ends, or is lost.            *)
Late ==
  \E s \in adrift :
    /\ adrift' = adrift \ {s}
    /\ guest' \in IF Blocked(s, guest) THEN {guest}
                  ELSE {Carried(s, guest)} \cup Spoilt(s, guest)
    /\ UNCHANGED <<options, warned, at, status, cancelling, scratchDir, fetch>>

-----------------------------------------------------------------------------
(* _try_direct_network_transfer().                                          *)

(* A bug: the plaintext rung stays although the listener speaks HTTPS.      *)
MinimumUnclamped == site.minimum

Minimum == ClampedMinimum(site.preferred, site.minimum)

NotAvailable == Enter(Chunked) /\ network' = FALSE /\ UNCHANGED <<tool, mode>>

Unmet == IF site.unmet = "fail" THEN Fail /\ UNCHANGED fetch ELSE NotAvailable

(* No data NIC, or none in a subnet the guest reports.                      *)
SelectNic ==
  /\ at = "select_nic"
  /\ ~cancelling
  /\ \/ NotAvailable
     \/ site.nics /\ Enter("detect_tool") /\ UNCHANGED fetch
  /\ UNCHANGED <<options, warned, cancelling, guest, adrift>>

(* The first probe that answers; a probe that fails is a tool not found.    *)
DetectTool ==
  /\ at = "detect_tool"
  /\ ~cancelling
  /\ \E t \in site.tools \cup {"none"} :
       LET m == ResolveTlsMode(t, site.preferred, Minimum)
       IN  IF t \in {"none", "cscript"} THEN NotAvailable
           ELSE IF m = "none" THEN Unmet
           ELSE /\ Enter(IF m = "verify" /\ site.installCa THEN "trust_ca" ELSE "run_fetch")
                /\ network' = TRUE /\ tool' = t /\ mode' = m
  /\ UNCHANGED <<options, warned, cancelling, guest, adrift>>

(* _ensure_guest_trusts_ca() answered: trusted, or a rung down.             *)
TrustCa ==
  /\ at = "trust_ca"
  /\ ~cancelling
  /\ LET stepped == ResolveTlsMode(tool, "insecure", Minimum)
     IN  \/ Enter("run_fetch") /\ UNCHANGED fetch
         \/ IF stepped = "none" THEN Unmet
            ELSE Enter("run_fetch") /\ mode' = stepped /\ UNCHANGED <<network, tool>>
  /\ UNCHANGED <<options, warned, cancelling, guest, adrift>>

(* The next mode to try, none when the ladder ends.                         *)
SteppedDown ==
  LET stepped == ResolveTlsMode(tool, OneRungDown(mode), Minimum)
  IN  IF stepped = mode THEN "none" ELSE stepped

(* The fetch exits with what looks like a TLS failure: a rung down, then    *)
(* the policy.                                                              *)
TlsFails ==
  /\ at = "run_fetch"
  /\ ~cancelling
  /\ guest' \in IF Blocked(at, guest) THEN {guest} ELSE Spoilt(at, guest)
  /\ IF SteppedDown # "none"
       THEN /\ mode' = SteppedDown
            /\ UNCHANGED <<at, status, scratchDir, network, tool>>
       ELSE IF site.unmet = "fallback" THEN NotAvailable ELSE Fail /\ UNCHANGED fetch
  /\ UNCHANGED <<options, warned, cancelling, adrift>>

-----------------------------------------------------------------------------
RunnerStep ==
  \/ Capabilities
  \/ Locally
  \/ FetchOwnership
  \/ Returns
  \/ Misreports
  \/ ExitsNonzero
  \/ Raises
  \/ Cancelled
  \/ RemoveScratch
  \/ SelectNic
  \/ DetectTool
  \/ TrustCa
  \/ TlsFails

Next == RunnerStep \/ Cancel \/ Late

Spec == Init /\ [][Next]_vars

(* Steps that wait for PVE's answer or for the next piece of a download,    *)
(* which have no timeout (open_download, timeout=None); a chunk of a bundle *)
(* comes from the staged archive, a chunk of a file from the download.      *)
PveReads == {"open_download", "build_bundle", "drain", "fetch_ownership"} \cup
            IF job.bundle THEN {} ELSE {"write_chunk"}

WaitsOnPve == at \in PveReads /\ ~cancelling

(* Every other await of the runner is bounded: httpx's timeouts, the poll   *)
(* budget of an exec and the retries of a command; a cancellation reaches   *)
(* the task wherever it waits.  PVE need not answer, a command left behind  *)
(* need not end, and nobody has to cancel.                                  *)
FairSpec == Spec /\ WF_vars(RunnerStep /\ ~WaitsOnPve)

-----------------------------------------------------------------------------
(* Type correctness: every step, status and guest state is one there is.    *)
TypeOK ==
  /\ job \in Jobs
  /\ site \in Sites
  /\ at \in Working \cup {"remove_scratch", "finished"}
  /\ status \in {"running", "verifying", "done", "failed", "cancelled"}
  /\ cancelling \in BOOLEAN
  /\ scratchDir \in BOOLEAN
  /\ network \in BOOLEAN
  /\ tool \in Tools \cup {"none"}
  /\ mode \in Modes \cup {"none"}
  /\ guest \in GuestType
  /\ warned \in BOOLEAN
  /\ adrift \subseteq Commands

(* A job that says done restored what it was asked to: with a verification  *)
(* the destination is the source, whatever exit codes were wrong on the     *)
(* way, and without one there is at least a file (_verify_checksum,         *)
(* _verify_destination_exists, build_verify_command).                       *)
VerifiedIsSource ==
  status = "done" =>
    /\ guest.content # "absent"
    /\ job.verify \/ job.bundle \/ ~Large => guest.content = "source"

(* The order of the metadata steps holds what each of them set: no write    *)
(* comes after the mtime, and the mode comes after the owner, whose change  *)
(* clears set-id bits (_restore_mtime, _restore_ownership).  The one thing  *)
(* that may come after the mode is the owner's write permission, from a     *)
(* chmod u+w that _clear_readonly_if_present gave up on.                    *)
MetadataSurvives ==
  status = "done" /\ ~job.bundle =>
    /\ job.metadata /\ job.mtime => guest.mtime = "source"
    /\ guest.owner = "source" => guest.mode \in {"source", "widened"}

(* No job leaves the file it created with qemu-ga's 0666 and says done      *)
(* without a warning in its log (_set_restored_file_mode).                  *)
NotLeftWritable ==
  status = "done" /\ ~site.windows /\ guest.mode = "0666" => warned

(* A restore that needs guest-exec and may not use it is refused before the *)
(* guest is touched, never after half of it.                                *)
RefusedUntouched ==
  ~site.exec /\ (job.bundle \/ job.chunks > 1 \/ job.metadata \/ job.ownership \/ job.verify)
    => \E l \in BOOLEAN : guest \in {Fresh("absent", l), Fresh("old", l)}

(* No fetch uses a TLS mode outside of what the administrator allows, that  *)
(* the tool cannot do or that the listener does not speak, however many     *)
(* handshakes and installations of the CA failed before it.                 *)
FloorKept ==
  at = "run_fetch" =>
    /\ ToolSupportsTls(tool, mode)
    /\ Rank[site.minimum] <= Rank[mode] /\ Rank[mode] <= Rank[site.preferred]
    /\ mode = "plaintext" => site.preferred = "plaintext"

(* What the restore promises of its destination (module Restore), with the  *)
(* guest's file and the job's status seen from there: done means what was   *)
(* asked for, once, and nothing the runner gave up on, by a timeout, a      *)
(* cancellation or a lost answer, touches the file of a done job, but for   *)
(* the chmod u+w of a job that cleared the way for its write.               *)
Wish == [checked |-> job.verify \/ job.bundle \/ ~Large,
         dated |-> ~job.bundle /\ job.metadata /\ job.mtime,
         cleared |-> ~job.bundle /\ site.exec /\ ~site.windows]

Outcome == IF status \in {"running", "verifying"} THEN "underway" ELSE status

Promise == INSTANCE Restore WITH
  wish <- Wish, outcome <- Outcome, content <- guest.content, mtime <- guest.mtime,
  owner <- guest.owner, mode <- guest.mode

KeepsPromise == Promise!Spec

(* The ladder of TLS modes goes down only: no failed handshake and no       *)
(* failed installation of the CA makes a fetch try a mode again or a        *)
(* stricter one, so that its attempts are bounded by the rungs              *)
(* (_try_direct_network_transfer, _one_rung_down).                          *)
LadderDescends ==
  [][mode' # mode => \/ mode = "none" /\ at = "detect_tool"
                     \/ mode' \in Modes /\ Rank[mode'] < Rank[mode]]_vars

(* No way out of the runner skips the scratch directory: if there is one in *)
(* the guest, removing it was the last thing tried.                         *)
ScratchIsSwept ==
  [][at # "finished" /\ at' = "finished" /\ guest'.scratch
       => at = "remove_scratch"]_vars

(* Every restore ends, however its commands and handshakes go, unless it    *)
(* waits for PVE for ever and nobody cancels it.                            *)
RunnerEnds == <>(at = "finished") \/ <>[]WaitsOnPve

-----------------------------------------------------------------------------
(* The inductive invariant: which jobs reach a step, and what holds there.  *)
(* Tolerated are the commands whose loss does not end the job.              *)

Settled   == {"done", "failed", "cancelled"}
Tolerated == {"clear_readonly", "probe_zst"}
Trailing  == {"restore_mtime", "fetch_ownership", "chown", "chmod", "verify_checksum"}
PreChunk  == {"open_download", "capabilities", "ensure_dir", "select_nic", "detect_tool",
              "trust_ca", "run_fetch", "create_scratch", "probe_zst", "build_bundle"}

StepFits ==
  /\ at \in Working <=> status \notin Settled
  /\ job.bundle => at \notin {"open_download", "clear_readonly", "write_file",
                              "set_file_mode", "drain"} \cup Trailing
  /\ ~job.bundle => at \notin {"probe_zst", "build_bundle", "extract",
                               "verify_manifest", "remove_manifest"}
  /\ Large => at \notin {"write_file", "set_file_mode"}
  /\ at \in {"write_chunk", "concat", "run_fetch", "verify_exists", "drain", "select_nic",
             "detect_tool", "trust_ca", "create_scratch"} => Large
  /\ at \in {"chown", "chmod", "fetch_ownership"} => job.ownership
  /\ at = "verify_checksum" => job.verify
  /\ at = "restore_mtime" => job.metadata /\ job.mtime
  /\ at \in {"ensure_dir", "clear_readonly"} => site.exec

ScratchKnown ==
  guest.scratch \/ at = "create_scratch" \/ "create_scratch" \in adrift => scratchDir

ChunksFit ==
  /\ at \in PreChunk => guest.chunks = 0
  /\ at = "write_chunk" \/ "write_chunk" \in adrift => guest.chunks < job.chunks

QuietGuest ==
  /\ at \in Working => adrift \subseteq Tolerated
  /\ status = "done" => adrift \subseteq Tolerated \cup {"remove_scratch"}

Denied ==
  ~site.exec /\ NeedsExec =>
    /\ at \in {"open_download", "capabilities", "finished"}
    /\ status # "done"
    /\ adrift = {}
    /\ ~scratchDir

Delivered ==
  /\ at \in {"set_file_mode", "drain"} \cup Trailing =>
       /\ guest.content # "absent"
       /\ ~Large => guest.content = "source"
  /\ at = "remove_manifest" => guest.content = "source"

MetadataSet ==
  /\ at \in Trailing \ {"restore_mtime"} /\ job.metadata /\ job.mtime =>
       guest.mtime = "source"
  /\ at \in Working \ {"chmod", "verify_checksum"} => guest.owner = "other"
  /\ at = "verify_checksum" /\ guest.owner = "source" =>
       guest.mode \in {"source", "widened"}

ModeKnown ==
  at \in Working /\ ~site.windows /\ guest.mode = "0666" => warned \/ at = "set_file_mode"

(* The steps before a TLS mode is chosen, which no run comes back to.       *)
Early == {"open_download", "capabilities", "ensure_dir", "select_nic", "detect_tool"} \cup
         IF job.bundle THEN {"create_scratch", "probe_zst", "build_bundle"} ELSE {}

NotYetClimbed == at \in Early => mode = "none"

(* A bundle has no metadata of its own, and a file is described only once   *)
(* it is there.                                                             *)
Describers == {"set_file_mode", "restore_mtime", "chown", "chmod"}

AdriftFits ==
  /\ adrift \cap Describers # {} => guest.content # "absent"
  /\ "extract" \in adrift => job.bundle
  /\ "clear_readonly" \in adrift => ~job.bundle /\ site.exec
  /\ job.bundle =>
       /\ guest.mtime = "other" /\ guest.owner = "other" /\ guest.mode = "other"
       /\ adrift \cap (Describers \cup {"write_file"}) = {}

LadderInRange ==
  at = "trust_ca" =>
    /\ mode = "verify" /\ ToolSupportsTls(tool, mode)
    /\ site.preferred = "verify"

RunnerInv ==
  /\ TypeOK
  /\ StepFits
  /\ ScratchKnown
  /\ ChunksFit
  /\ QuietGuest
  /\ Denied /\ RefusedUntouched
  /\ Delivered /\ VerifiedIsSource
  /\ MetadataSet /\ MetadataSurvives
  /\ ModeKnown /\ NotLeftWritable
  /\ LadderInRange /\ FloorKept
=============================================================================
