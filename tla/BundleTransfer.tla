--------------------------- MODULE BundleTransfer ---------------------------
(***************************************************************************)
(* How a restore's content gets ready on the portal and into the guest:    *)
(* restore_bundle.build_bundle stages each selected item in a temporary    *)
(* directory and writes the archive in threads (asyncio.to_thread), then   *)
(* the runner mints a single-use token (restore_download.py) per fetch and *)
(* the guest's tool downloads the bundle from the public endpoint.  A      *)
(* single file needs no bundle: the endpoint re-streams it from PVE.       *)
(*                                                                         *)
(* A thread is not cancelled with the coroutine that awaits it, a guest's  *)
(* process is not killed with the restore that gave it up, and a token     *)
(* may be spent by an attempt that fails.                                  *)
(***************************************************************************)
EXTENDS Naturals, FiniteSets

CONSTANTS
  Count,      \* selected items
  Attempts,   \* bound: fetches, one per rung of the TLS ladder
  Retries     \* bound: requests a fetch tool repeats by itself

ASSUME CountAssumption == Count \in Nat \ {0}
ASSUME BoundsAssumption == Attempts \in Nat \ {0} /\ Retries \in Nat

VARIABLES
  kind,      \* the job restores a "bundle" or one "file"
  at,        \* the await the restore's coroutine is at
  item,      \* the item it works on
  work,      \* threads at work on the bundle, awaited or not
  dir,       \* the temporary directory is on disk
  temp,      \* items with a file in it
  archive,   \* the output: writer, members, torn, manifest
  attempt,   \* fetches begun
  token,     \* per fetch: its entry in _tokens
  process,   \* per fetch: the tool in the guest
  repeats,   \* per fetch: requests it repeated
  streams,   \* per fetch: downloads its token was worth
  fetched    \* per fetch: the archive it streamed

build == <<kind, item, work, dir, temp, archive>>
fetch == <<attempt, token, process, repeats, streams, fetched>>
vars  == <<at, build, fetch>>

Items   == 1..Count
Fetches == 1..Attempts

(* "aborting" is the abort of the writer after an error, "cancelled" after  *)
(* a cancellation; "kept" is the end of a build that was cancelled: the     *)
(* job's finished task holds its CancelledError, whose traceback holds the  *)
(* frame of build_bundle, and that frame the TemporaryDirectory.            *)
Places == {"opening", "fetching", "describing", "adding", "finishing", "aborting",
           "cancelled", "built", "waiting", "ended", "kept", "crashed"}

Archives == [writer : {"none", "open", "closed"}, members : SUBSET Items,
             torn : BOOLEAN, manifest : SUBSET Items]

NoArchive == [writer |-> "none", members |-> {}, torn |-> FALSE, manifest |-> {}]

(* Every item in whole, the manifest of all of them last, and closed.       *)
Whole == [writer |-> "closed", members |-> Items, torn |-> FALSE, manifest |-> Items]

TypeOK ==
  /\ kind \in {"bundle", "file"}
  /\ at \in Places
  /\ item \in Items
  /\ work \in SUBSET {"open", "add", "finish", "abort"}
  /\ dir \in BOOLEAN
  /\ temp \in SUBSET Items
  /\ archive \in Archives
  /\ attempt \in 0..Attempts
  /\ token \in [Fetches -> {"none", "live", "expired", "used"}]
  /\ process \in [Fetches -> {"none", "running", "streaming", "whole", "cut", "refused"}]
  /\ repeats \in [Fetches -> 0..Retries]
  /\ streams \in [Fetches -> Nat]
  /\ fetched \in [Fetches -> Archives]

Init ==
  /\ \/ /\ kind = "bundle"
        /\ at = "opening"
        /\ work = {"open"}
        /\ dir = TRUE
     \/ /\ kind = "file"
        /\ at = "built"
        /\ work = {}
        /\ dir = FALSE
  /\ item = 1
  /\ temp = {}
  /\ archive = NoArchive
  /\ attempt = 0
  /\ token = [k \in Fetches |-> "none"]
  /\ process = [k \in Fetches |-> "none"]
  /\ repeats = [k \in Fetches |-> 0]
  /\ streams = [k \in Fetches |-> 0]
  /\ fetched = [k \in Fetches |-> NoArchive]

-----------------------------------------------------------------------------
(* build_bundle.  A thread's step is also the coroutine's, if the coroutine *)
(* still awaits it.                                                         *)

(* _open_bundle_writer, in a directory that may be gone, or on a full disk. *)
Opens ==
  /\ "open" \in work
  /\ \/ /\ dir
        /\ work' = work \ {"open"}
        /\ archive' = [archive EXCEPT !.writer = "open"]
        /\ at' = IF at = "opening" THEN "fetching" ELSE at
     \/ /\ work' = work \ {"open"}
        /\ at' = IF at = "opening" THEN "ended" ELSE at
        /\ UNCHANGED archive
  /\ UNCHANGED <<kind, item, dir, temp, fetch>>

Add ==
  /\ at' = "adding"
  /\ work' = work \cup {"add"}

Abort(why) ==
  /\ at' = why
  /\ work' = work \cup {"abort"}

(* The item is streamed to its own file; a leaf's metadata follows.         *)
Download(leaf) ==
  /\ at = "fetching"
  /\ temp' = temp \cup {item}
  /\ \/ /\ leaf
        /\ at' = "describing"
        /\ UNCHANGED work
     \/ ~leaf /\ Add
  /\ UNCHANGED <<kind, item, dir, archive, fetch>>

Describe ==
  /\ at = "describing"
  /\ Add
  /\ UNCHANGED <<kind, item, dir, temp, archive, fetch>>

(* A download, or the lookup after it, that raises or is cancelled: its     *)
(* file stays until the directory goes.                                     *)
DownloadFails(begun, why) ==
  /\ at \in {"fetching", "describing"}
  /\ temp' = IF begun THEN temp \cup {item} ELSE temp
  /\ Abort(why)
  /\ UNCHANGED <<kind, item, dir, archive, fetch>>

(* A bug: the files are removed with the directory only.                    *)
AddsHoarding ==
  /\ "add" \in work
  /\ at = "adding"
  /\ work' = work \ {"add"}
  /\ archive' = [archive EXCEPT !.members = @ \cup {item}]
  /\ at' = IF item = Count THEN "finishing" ELSE "fetching"
  /\ item' = IF item = Count THEN item ELSE item + 1
  /\ UNCHANGED <<kind, dir, temp, fetch>>

(* A bug: an item that cannot be added is skipped.                          *)
AddsWhatItCan ==
  /\ "add" \in work
  /\ at = "adding"
  /\ \E added \in BOOLEAN :
       archive' = [archive EXCEPT !.members = IF added THEN @ \cup {item} ELSE @]
  /\ temp' = temp \ {item}
  /\ \/ /\ item = Count
        /\ at' = "finishing"
        /\ work' = (work \ {"add"}) \cup {"finish"}
        /\ UNCHANGED item
     \/ /\ item < Count
        /\ at' = "fetching"
        /\ item' = item + 1
        /\ work' = work \ {"add"}
  /\ UNCHANGED <<kind, dir, fetch>>

(* _add_item_to_bundle_writer, awaited: the item's file goes, then the next *)
(* item's turn comes.                                                       *)
Adds ==
  /\ "add" \in work
  /\ at = "adding"
  /\ archive' = [archive EXCEPT !.members = @ \cup {item}]
  /\ temp' = temp \ {item}
  /\ \/ /\ item = Count
        /\ at' = "finishing"
        /\ work' = (work \ {"add"}) \cup {"finish"}
        /\ UNCHANGED item
     \/ /\ item < Count
        /\ at' = "fetching"
        /\ item' = item + 1
        /\ work' = work \ {"add"}
  /\ UNCHANGED <<kind, dir, fetch>>

(* The disk is full or PVE sent no archive: a member is cut short.          *)
AddFails ==
  /\ "add" \in work
  /\ at = "adding"
  /\ archive' = [archive EXCEPT !.torn = TRUE]
  /\ temp' = temp \ {item}
  /\ at' = "aborting"
  /\ work' = (work \ {"add"}) \cup {"abort"}
  /\ UNCHANGED <<kind, item, dir, fetch>>

(* _finish_bundle_writer: the manifest, then every handle is closed.        *)
Finishes ==
  /\ "finish" \in work
  /\ at = "finishing"
  /\ archive' = [archive EXCEPT !.manifest = archive.members, !.writer = "closed"]
  /\ work' = work \ {"finish"}
  /\ at' = "built"
  /\ UNCHANGED <<kind, item, dir, temp, fetch>>

FinishFails ==
  /\ "finish" \in work
  /\ at = "finishing"
  /\ archive' = [archive EXCEPT !.torn = TRUE]
  /\ at' = "aborting"
  /\ work' = (work \ {"finish"}) \cup {"abort"}
  /\ UNCHANGED <<kind, item, dir, temp, fetch>>

(* A thread whose coroutine was cancelled: what it still writes depends on  *)
(* whether the other thread has closed the handles under it.                *)
Abandoned(w) ==
  /\ w \in work
  /\ \/ w = "add" /\ at # "adding"
     \/ w = "finish" /\ at # "finishing"
  /\ work' = work \ {w}
  /\ \/ /\ archive' = [archive EXCEPT !.torn = TRUE]
     \/ /\ archive.writer = "open"
        /\ archive' = IF w = "add" THEN [archive EXCEPT !.members = @ \cup {item}]
                      ELSE [archive EXCEPT !.manifest = archive.members, !.writer = "closed"]
  /\ UNCHANGED <<kind, at, item, dir, temp, fetch>>

(* _abort_bundle_writer swallows its own failures.                          *)
Aborts ==
  /\ "abort" \in work
  /\ archive' = [archive EXCEPT !.writer = "closed"]
  /\ work' = work \ {"abort"}
  /\ \/ at = "aborting" /\ at' = "ended"
     \/ at = "cancelled" /\ at' = "kept"
     \/ at \notin {"aborting", "cancelled"} /\ at' = at
  /\ UNCHANGED <<kind, item, dir, temp, fetch>>

(* The job is cancelled at an await of the build other than a download.     *)
CancelBuild ==
  /\ \/ /\ at = "opening"
        /\ at' = "kept"
        /\ UNCHANGED <<work, temp>>
     \/ /\ at = "adding"
        /\ temp' = temp \ {item}
        /\ Abort("cancelled")
     \/ /\ at = "finishing"
        /\ Abort("cancelled")
        /\ UNCHANGED temp
     \/ /\ at \in {"aborting", "cancelled"}
        /\ at' = "kept"
        /\ UNCHANGED <<work, temp>>
  /\ UNCHANGED <<kind, item, dir, archive, fetch>>

-----------------------------------------------------------------------------
(* The runner with a bundle, or a single file, to deliver.                  *)

(* mint_token and the fetch command, per rung of the ladder.                *)
Mint ==
  /\ at = "built"
  /\ attempt < Attempts
  /\ attempt' = attempt + 1
  /\ token' = [token EXCEPT ![attempt + 1] = "live"]
  /\ process' = [process EXCEPT ![attempt + 1] = "running"]
  /\ at' = "waiting"
  /\ UNCHANGED <<build, repeats, streams, fetched>>

(* A handshake that failed is tried one rung further down.                  *)
StepDown ==
  /\ at = "waiting"
  /\ process[attempt] = "refused"
  /\ token[attempt] # "used"
  /\ at' = "built"
  /\ UNCHANGED <<build, fetch>>

(* The job ends: delivered, failed, cancelled or out of patience, with the  *)
(* tool in the guest perhaps still at work.                                 *)
EndJob ==
  /\ at \in {"built", "waiting"}
  /\ at' = "ended"
  /\ UNCHANGED <<build, fetch>>

(* A bug: only a bundle that was returned is cleaned up.                    *)
CollectReturned ==
  /\ at = "ended"
  /\ dir
  /\ archive = Whole
  /\ dir' = FALSE
  /\ temp' = {}
  /\ UNCHANGED <<kind, at, item, work, archive, fetch>>

(* The runner's cleanup, or the finalizer of a TemporaryDirectory nobody    *)
(* was given.                                                               *)
Collect ==
  /\ at = "ended"
  /\ dir
  /\ dir' = FALSE
  /\ temp' = {}
  /\ UNCHANGED <<kind, at, item, work, archive, fetch>>

(* A list of jobs, asked for after the retention period, drops the task.    *)
Evict ==
  /\ at = "kept"
  /\ at' = "ended"
  /\ UNCHANGED <<build, fetch>>

(* The process dies: tokens and jobs are in memory only.                    *)
Crash ==
  /\ at # "crashed"
  /\ at' = "crashed"
  /\ work' = {}
  /\ token' = [k \in Fetches |-> IF token[k] = "none" THEN "none" ELSE "used"]
  /\ process' = [k \in Fetches |-> IF process[k] = "streaming" THEN "cut" ELSE process[k]]
  /\ UNCHANGED <<kind, item, dir, temp, archive, attempt, repeats, streams, fetched>>

-----------------------------------------------------------------------------
(* A token, the tool in the guest, and GET /api/restore-downloads/{token}.  *)

Expire(k) ==
  /\ token[k] = "live"
  /\ token' = [token EXCEPT ![k] = "expired"]
  /\ UNCHANGED <<at, build, attempt, process, repeats, streams, fetched>>

(* Nothing is requested when the connection cannot be made.                 *)
HandshakeFails(k) ==
  /\ process[k] = "running"
  /\ process' = [process EXCEPT ![k] = "refused"]
  /\ UNCHANGED <<at, build, attempt, token, repeats, streams, fetched>>

Streams(k) ==
  /\ process' = [process EXCEPT ![k] = "streaming"]
  /\ streams' = [streams EXCEPT ![k] = @ + 1]
  /\ fetched' = [fetched EXCEPT ![k] = archive]

(* A bug: the token is spent when the download has been served.             *)
RequestKeeping(k) ==
  /\ process[k] = "running"
  /\ token[k] = "live"
  /\ kind = "bundle" => dir
  /\ Streams(k)
  /\ UNCHANGED <<at, build, token, attempt, repeats>>

(* consume_token_full takes the token whatever comes of it; the body of a   *)
(* bundle opens its file after the status has been sent.                    *)
Request(k) ==
  /\ process[k] = "running"
  /\ token' = [token EXCEPT ![k] = "used"]
  /\ \/ /\ token[k] = "live"
        /\ kind = "bundle" => dir
        /\ Streams(k)
     \/ /\ token[k] = "live"
        /\ kind = "bundle" /\ ~dir
        /\ process' = [process EXCEPT ![k] = "cut"]
        /\ UNCHANGED <<streams, fetched>>
     \/ /\ token[k] = "live" => kind = "file"
        /\ process' = [process EXCEPT ![k] = "refused"]
        /\ UNCHANGED <<streams, fetched>>
  /\ UNCHANGED <<at, build, attempt, repeats>>

EndOfBody(k) ==
  /\ process[k] = "streaming"
  /\ process' = [process EXCEPT ![k] = "whole"]
  /\ UNCHANGED <<at, build, attempt, token, repeats, streams, fetched>>

BodyFails(k) ==
  /\ process[k] = "streaming"
  /\ process' = [process EXCEPT ![k] = "cut"]
  /\ UNCHANGED <<at, build, attempt, token, repeats, streams, fetched>>

(* A tool that retries by itself asks with the same token.                  *)
Repeat(k) ==
  /\ process[k] = "cut"
  /\ repeats[k] < Retries
  /\ repeats' = [repeats EXCEPT ![k] = @ + 1]
  /\ process' = [process EXCEPT ![k] = "running"]
  /\ UNCHANGED <<at, build, attempt, token, streams, fetched>>

-----------------------------------------------------------------------------
ThreadStep ==
  \/ Opens \/ Adds \/ AddFails \/ Finishes \/ FinishFails \/ Aborts
  \/ \E w \in {"add", "finish"} : Abandoned(w)

JobStep ==
  \/ \E leaf \in BOOLEAN : Download(leaf)
  \/ Describe
  \/ \E begun \in BOOLEAN, why \in {"aborting", "cancelled"} : DownloadFails(begun, why)
  \/ CancelBuild \/ Mint \/ StepDown \/ EndJob

FetchStep(k) ==
  \/ Expire(k) \/ HandshakeFails(k) \/ Request(k) \/ EndOfBody(k)
  \/ BodyFails(k) \/ Repeat(k)

Next ==
  \/ ThreadStep \/ JobStep \/ Collect \/ Evict \/ Crash
  \/ \E k \in Fetches : FetchStep(k)

Spec == Init /\ [][Next]_vars

(* Threads write to a local disk and end; a TemporaryDirectory without a    *)
(* reference is finalized.  Neither PVE nor the guest is assumed to act,    *)
(* nor anyone to ask for the list that evicts a job.                        *)
FairSpec == Spec /\ WF_vars(ThreadStep) /\ WF_vars(Collect)

-----------------------------------------------------------------------------
(* However items fail, are cancelled or follow one another, no more than    *)
(* one of them is staged at a time: staging all of a selection has filled   *)
(* the disk (docstring of restore_bundle.py, lines 33-40).                  *)
OneItemOnDisk == Cardinality(temp) <= 1

(* What build_bundle returns has every item, the manifest of them all, no   *)
(* thread that still writes it, and its directory; and what the guest       *)
(* downloads to the end is that, however late it asks.                      *)
DeliveredIsWhole ==
  kind = "bundle" =>
    /\ at \in {"built", "waiting"} => archive = Whole /\ work = {} /\ dir
    /\ \A k \in Fetches : process[k] = "whole" => fetched[k] = Whole

(* A token is worth one download, under retries of the tool, of the ladder, *)
(* after a failure half-way and across a restart.                           *)
TokenServesOnce == \A k \in Fetches : streams[k] <= 1

(* Once a job has ended, by whichever way, no thread works on and its       *)
(* directory goes with all that is in it: when the job is evicted if the    *)
(* build was cancelled, without further ado otherwise.  Only a crash leaves *)
(* it behind.                                                               *)
NothingLeftBehind ==
  at \in {"ended", "kept"} ~>
    \/ work = {} /\ (at = "kept" \/ (~dir /\ temp = {}))
    \/ at = "crashed"
=============================================================================
