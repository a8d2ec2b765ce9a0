------------------------ MODULE BundleTransferProof ------------------------
(***************************************************************************)
(* Theorems about BundleTransfer, for any number of items, of fetches and  *)
(* of requests a tool repeats.                                             *)
(***************************************************************************)
EXTENDS BundleTransfer, FiniteSetTheorems, TLAPS

(* A token is minted for a fetch that was begun, a fetch that was begun has *)
(* something to serve, and a token that is not used has served nothing.     *)
Minted ==
  \A k \in Fetches :
    /\ k > attempt => token[k] = "none" /\ process[k] = "none"
    /\ token[k] # "used" => streams[k] = 0
    /\ streams[k] <= 1

(* How far the archive has come where the coroutine is: the members are the *)
(* items before this one, and the only thread at work is the awaited one.   *)
Holds(a, w, done, listed) ==
  a.writer = w /\ a.members = done /\ a.torn = FALSE /\ a.manifest = listed

Growing(done, threads) ==
  /\ dir
  /\ work = threads
  /\ Holds(archive, "open", done, {})

Progress ==
  kind = "bundle" =>
    /\ at = "opening" => work = {"open"} /\ dir /\ archive = NoArchive /\ item = 1
    /\ at \in {"fetching", "describing"} => Growing(1..(item - 1), {})
    /\ at = "adding" => Growing(1..(item - 1), {"add"})
    /\ at = "finishing" => Growing(Items, {"finish"})
    /\ at \in {"built", "waiting"} => archive = Whole /\ work = {} /\ dir

(* Nothing is minted before the archive is whole, and then nothing writes.  *)
Settled ==
  kind = "bundle" =>
    /\ attempt > 0 =>
         /\ at \in {"built", "waiting", "ended", "crashed"}
         /\ archive = Whole
         /\ work = {}
    /\ \A k \in Fetches : process[k] \in {"streaming", "whole"} => fetched[k] = Whole

TransferInv == TypeOK /\ temp \subseteq {item} /\ Minted /\ Progress /\ Settled

(* The steps before anything can be fetched, those of the runner, and those *)
(* of one fetch.                                                            *)
BuildStep ==
  \/ ThreadStep
  \/ \E leaf \in BOOLEAN : Download(leaf)
  \/ Describe
  \/ \E begun \in BOOLEAN, why \in {"aborting", "cancelled"} : DownloadFails(begun, why)
  \/ CancelBuild

LEMMA NextCases ==
  ASSUME [Next]_vars
  PROVE  \/ BuildStep
         \/ Mint
         \/ StepDown \/ EndJob \/ Collect \/ Evict
         \/ Crash
         \/ \E k \in Fetches : FetchStep(k)
         \/ UNCHANGED vars
BY DEF Next, JobStep, BuildStep

-----------------------------------------------------------------------------
LEMMA InitInv ==
  ASSUME Init
  PROVE  TransferInv
<1> USE CountAssumption, BoundsAssumption DEF Init, Items, Fetches
<1>1. NoArchive \in Archives
  BY DEF NoArchive, Archives
<1>2. TypeOK
  <2>1. /\ kind \in {"bundle", "file"} /\ at \in Places /\ dir \in BOOLEAN
        /\ work \in SUBSET {"open", "add", "finish", "abort"}
    BY DEF Places
  <2>2. item \in Items /\ temp \in SUBSET Items /\ attempt \in 0..Attempts
    OBVIOUS
  <2>3. /\ token \in [Fetches -> {"none", "live", "expired", "used"}]
        /\ process \in [Fetches -> {"none", "running", "streaming", "whole", "cut", "refused"}]
        /\ repeats \in [Fetches -> 0..Retries]
        /\ streams \in [Fetches -> Nat]
    OBVIOUS
  <2> QED
    BY <1>1, <2>1, <2>2, <2>3 DEF TypeOK
<1>3. temp \subseteq {item} /\ Minted
  BY DEF Minted
<1>4. Progress
  BY DEF Progress
<1>5. Settled
  BY DEF Settled
<1> QED
  BY <1>2, <1>3, <1>4, <1>5 DEF TransferInv

(* What the steps of a build do to an archive leaves one.                   *)
LEMMA ArchiveUpdates ==
  ASSUME NEW a \in Archives, NEW i \in Items
  PROVE  /\ [a EXCEPT !.writer = "open"] \in Archives
         /\ [a EXCEPT !.writer = "closed"] \in Archives
         /\ [a EXCEPT !.torn = TRUE] \in Archives
         /\ [a EXCEPT !.members = @ \cup {i}] \in Archives
         /\ [a EXCEPT !.manifest = a.members, !.writer = "closed"] \in Archives
BY DEF Archives

(* Every step keeps every variable within its type.                         *)
LEMMA TypeStep ==
  ASSUME TypeOK, [Next]_vars
  PROVE  TypeOK'
<1> USE CountAssumption, BoundsAssumption DEF TypeOK, Items, Fetches
<1>0. /\ [archive EXCEPT !.writer = "open"] \in Archives
      /\ [archive EXCEPT !.writer = "closed"] \in Archives
      /\ [archive EXCEPT !.torn = TRUE] \in Archives
      /\ [archive EXCEPT !.members = @ \cup {item}] \in Archives
      /\ [archive EXCEPT !.manifest = archive.members, !.writer = "closed"] \in Archives
  BY ArchiveUpdates
<1>1. CASE BuildStep
  <2>1. CASE ThreadStep
    <3>1. CASE Opens
      BY <3>1, <1>0 DEF Opens, fetch, Places
    <3>2. CASE Adds
      BY <3>2, <1>0 DEF Adds, fetch, Places
    <3>3. CASE AddFails
      BY <3>3, <1>0 DEF AddFails, fetch, Places
    <3>4. CASE Finishes \/ FinishFails
      BY <3>4, <1>0 DEF Finishes, FinishFails, fetch, Places
    <3>5. CASE Aborts
      BY <3>5, <1>0 DEF Aborts, fetch, Places
    <3>6. ASSUME NEW w \in {"add", "finish"}, Abandoned(w) PROVE TypeOK'
      BY <3>6, <1>0 DEF Abandoned, fetch, Places
    <3> QED
      BY <2>1, <3>1, <3>2, <3>3, <3>4, <3>5, <3>6 DEF ThreadStep
  <2>2. ASSUME NEW leaf \in BOOLEAN, Download(leaf) PROVE TypeOK'
    BY <2>2 DEF Download, Add, fetch, Places
  <2>3. CASE Describe
    BY <2>3 DEF Describe, Add, fetch, Places
  <2>4. ASSUME NEW begun \in BOOLEAN, NEW why \in {"aborting", "cancelled"}, DownloadFails(begun, why) PROVE TypeOK'
    BY <2>4 DEF DownloadFails, Abort, fetch, Places
  <2>5. CASE CancelBuild
    BY <2>5 DEF CancelBuild, Abort, fetch, Places
  <2> QED
    BY <1>1, <2>1, <2>2, <2>3, <2>4, <2>5 DEF BuildStep
<1>2. CASE Mint
  BY <1>2 DEF Mint, build, Places
<1>3. CASE StepDown \/ EndJob \/ Collect \/ Evict
  BY <1>3 DEF StepDown, EndJob, Collect, Evict, build, fetch, Places
<1>4. CASE Crash
  BY <1>4 DEF Crash, Places
<1>5. ASSUME NEW k \in Fetches, FetchStep(k) PROVE TypeOK'
  <2>1. CASE Request(k)
    <3>1. /\ token' \in [Fetches -> {"none", "live", "expired", "used"}]
          /\ UNCHANGED <<at, build, attempt, repeats>>
      BY <2>1 DEF Request
    <3>2. \/ Streams(k)
          \/ /\ process' \in [Fetches -> {"none", "running", "streaming", "whole", "cut", "refused"}]
             /\ UNCHANGED <<streams, fetched>>
      BY <2>1 DEF Request
    <3>3. /\ process' \in [Fetches -> {"none", "running", "streaming", "whole", "cut", "refused"}]
          /\ streams' \in [Fetches -> Nat]
          /\ fetched' \in [Fetches -> Archives]
      <4>1. CASE Streams(k)
        BY <4>1 DEF Streams
      <4>2. CASE ~Streams(k)
        BY <3>2, <4>2
      <4> QED
        BY <4>1, <4>2
    <3>4. UNCHANGED <<kind, at, item, work, dir, temp, archive>>
      BY <3>1 DEF build
    <3>5. UNCHANGED <<attempt, repeats>>
      BY <3>1
    <3> HIDE DEF Items, Fetches
    <3> QED
      BY <3>1, <3>3, <3>4, <3>5
  <2>2. CASE Repeat(k)
    BY <2>2 DEF Repeat, build
  <2>3. CASE Expire(k) \/ HandshakeFails(k) \/ EndOfBody(k) \/ BodyFails(k)
    BY <2>3 DEF Expire, HandshakeFails, EndOfBody, BodyFails, build
  <2> QED
    BY <1>5, <2>1, <2>2, <2>3 DEF FetchStep
<1>6. CASE UNCHANGED vars
  BY <1>6 DEF vars, build, fetch
<1> QED
  BY NextCases, <1>1, <1>2, <1>3, <1>4, <1>5, <1>6

(* The thread that adds takes its item's file away before the coroutine     *)
(* turns to the next item.                                                  *)
LEMMA TempStep ==
  ASSUME temp \subseteq {item}, [Next]_vars
  PROVE  (temp \subseteq {item})'
<1>1. CASE BuildStep
  <2>1. CASE ThreadStep
    BY <2>1 DEF ThreadStep, Opens, Adds, AddFails, Finishes, FinishFails, Aborts, Abandoned
  <2>2. CASE ~ThreadStep
    BY <1>1, <2>2 DEF BuildStep, Download, Describe, DownloadFails, CancelBuild, Add, Abort
  <2> QED
    BY <2>1, <2>2
<1>2. CASE Mint \/ StepDown \/ EndJob \/ Collect \/ Evict \/ Crash
  BY <1>2 DEF Mint, StepDown, EndJob, Collect, Evict, Crash, build, fetch
<1>3. ASSUME NEW k \in Fetches, FetchStep(k) PROVE (temp \subseteq {item})'
  BY <1>3 DEF FetchStep, Expire, HandshakeFails, Request, Streams, EndOfBody, BodyFails,
              Repeat, build
<1>4. CASE UNCHANGED vars
  BY <1>4 DEF vars, build
<1> QED
  BY NextCases, <1>1, <1>2, <1>3, <1>4

-----------------------------------------------------------------------------
(* A build does not touch what is fetched.                                  *)
LEMMA BuildLeavesFetches ==
  ASSUME BuildStep
  PROVE  UNCHANGED <<kind, fetch>>
<1>1. CASE ThreadStep
  BY <1>1 DEF ThreadStep, Opens, Adds, AddFails, Finishes, FinishFails, Aborts, Abandoned
<1>2. CASE ~ThreadStep
  BY <1>2 DEF BuildStep, Download, Describe, DownloadFails, CancelBuild
<1> QED
  BY <1>1, <1>2

LEMMA MintedStep ==
  ASSUME TypeOK, Minted, [Next]_vars
  PROVE  Minted'
<1> USE CountAssumption, BoundsAssumption DEF TypeOK, Minted, Fetches
<1>1. CASE BuildStep
  BY <1>1, BuildLeavesFetches DEF fetch
<1>2. CASE Mint
  BY <1>2 DEF Mint, build
<1>3. CASE StepDown \/ EndJob \/ Collect \/ Evict
  BY <1>3 DEF StepDown, EndJob, Collect, Evict, fetch
<1>4. CASE Crash
  BY <1>4 DEF Crash
<1>5. ASSUME NEW k \in Fetches, FetchStep(k) PROVE Minted'
  <2>1. CASE Request(k)
    BY <2>1 DEF Request, Streams
  <2>2. CASE Expire(k)
    BY <2>2 DEF Expire
  <2>3. CASE HandshakeFails(k) \/ EndOfBody(k) \/ BodyFails(k) \/ Repeat(k)
    <3>1. UNCHANGED <<attempt, token, streams>>
      BY <2>3 DEF HandshakeFails, EndOfBody, BodyFails, Repeat
    <3>2. \A j \in Fetches : process[j] = "none" => process'[j] = "none"
      BY <2>3 DEF HandshakeFails, EndOfBody, BodyFails, Repeat
    <3> QED
      BY <3>1, <3>2
  <2> QED
    BY <1>5, <2>1, <2>2, <2>3 DEF FetchStep
<1>6. CASE UNCHANGED vars
  BY <1>6 DEF vars, fetch
<1> QED
  BY NextCases, <1>1, <1>2, <1>3, <1>4, <1>5, <1>6

(* What the steps of a build make of an open archive.                       *)
LEMMA ArchiveSteps ==
  ASSUME NEW a \in Archives
  PROVE  /\ Holds(NoArchive, "none", {}, {})
         /\ Holds(a, "none", {}, {}) => Holds([a EXCEPT !.writer = "open"], "open", {}, {})
         /\ \A done \in SUBSET Items, i \in Items :
              Holds(a, "open", done, {}) =>
                Holds([a EXCEPT !.members = @ \cup {i}], "open", done \cup {i}, {})
         /\ Holds(a, "open", Items, {}) =>
              [a EXCEPT !.manifest = a.members, !.writer = "closed"] = Whole
<1>1. Holds(NoArchive, "none", {}, {})
  BY DEF NoArchive, Holds
<1>2. Holds(a, "none", {}, {}) => Holds([a EXCEPT !.writer = "open"], "open", {}, {})
  BY DEF Archives, Holds
<1>3. ASSUME NEW done \in SUBSET Items, NEW i \in Items, Holds(a, "open", done, {})
      PROVE  Holds([a EXCEPT !.members = @ \cup {i}], "open", done \cup {i}, {})
  BY <1>3 DEF Archives, Holds
<1>4. ASSUME Holds(a, "open", Items, {})
      PROVE  [a EXCEPT !.manifest = a.members, !.writer = "closed"] = Whole
  <2> DEFINE b == [a EXCEPT !.manifest = a.members, !.writer = "closed"]
  <2>1. b \in Archives /\ Holds(b, "closed", Items, Items)
    BY <1>4 DEF Archives, Holds
  <2> HIDE DEF b
  <2>2. b = Whole
    BY <2>1 DEF Archives, Holds, Whole
  <2> QED
    BY <2>2 DEF b
<1> QED
  BY <1>1, <1>2, <1>3, <1>4

LEMMA Prefixes ==
  /\ 1..0 = {}
  /\ \A i \in Items : /\ 1..(i - 1) \subseteq Items
                      /\ 1..(i - 1) \cup {i} = 1..i
                      /\ 1..((i + 1) - 1) = 1..i
BY CountAssumption DEF Items

(* The archive grows by the step its coroutine awaits; once a build has     *)
(* failed or was cancelled there is nothing left to deliver.                *)
LEMMA ProgressStep ==
  ASSUME TypeOK, Progress, Settled, [Next]_vars
  PROVE  Progress'
<1> USE CountAssumption DEF TypeOK, Progress, Growing, Items
<1>1. CASE BuildStep
  <2>0. UNCHANGED <<kind, fetch>>
    BY <1>1, BuildLeavesFetches
  <2>1. CASE Opens
    <3>1. kind = "bundle" /\ at = "opening" /\ dir =>
            at' = "ended" \/ Holds(archive', "open", 1..(item - 1), {})
      <4>1. ASSUME kind = "bundle", at = "opening", dir
            PROVE  item = 1 /\ archive = NoArchive
        BY <4>1
      <4>2. NoArchive \in Archives
        BY DEF NoArchive, Archives
      <4>3. Holds([NoArchive EXCEPT !.writer = "open"], "open", {}, {})
        BY <4>2, ArchiveSteps
      <4>4. ASSUME kind = "bundle", at = "opening", dir, at' # "ended"
            PROVE  Holds(archive', "open", 1..(item - 1), {})
        <5>1. archive' = [archive EXCEPT !.writer = "open"]
          BY <2>1, <4>4 DEF Opens
        <5>2. archive' = [NoArchive EXCEPT !.writer = "open"]
          BY <5>1, <4>1, <4>4
        <5>3. 1..(item - 1) = {}
          BY <4>1, <4>4, Prefixes
        <5> QED
          BY <4>3, <5>2, <5>3
      <4> QED
        BY <4>4
    <3> QED
      BY <2>0, <2>1, <3>1 DEF Opens
  <2>2. CASE Adds
    <3>1. kind = "bundle" => Holds(archive', "open", 1..item, {})
      <4>1. ASSUME kind = "bundle"
            PROVE  Holds(archive, "open", 1..(item - 1), {})
        BY <2>2, <4>1 DEF Adds
      <4>2. 1..(item - 1) \in SUBSET Items /\ 1..(item - 1) \cup {item} = 1..item
        BY Prefixes
      <4>3. archive' = [archive EXCEPT !.members = @ \cup {item}]
        BY <2>2 DEF Adds
      <4>4. archive \in Archives /\ item \in Items
        OBVIOUS
      <4> HIDE DEF Items, TypeOK, Progress
      <4>5. ASSUME Holds(archive, "open", 1..(item - 1), {})
            PROVE  Holds([archive EXCEPT !.members = @ \cup {item}], "open",
                         1..(item - 1) \cup {item}, {})
        BY <4>2, <4>4, <4>5, ArchiveSteps
      <4> QED
        BY <4>1, <4>2, <4>3, <4>5
    <3>2. CASE item = Count
      BY <2>2, <3>1, <3>2 DEF Adds
    <3>3. CASE item < Count
      BY <2>2, <3>1, <3>3, Prefixes DEF Adds
    <3> QED
      BY <2>2, <3>2, <3>3 DEF Adds
  <2>3. CASE AddFails \/ FinishFails
    BY <2>3 DEF AddFails, FinishFails
  <2>4. CASE Finishes
    <3>1. kind = "bundle" => archive' = Whole
      BY <2>4, ArchiveSteps DEF Finishes
    <3> QED
      BY <2>4, <3>1 DEF Finishes
  <2>5. CASE Aborts
    BY <2>5 DEF Aborts
  <2>6. ASSUME NEW w \in {"add", "finish"}, Abandoned(w) PROVE Progress'
    BY <2>6 DEF Abandoned
  <2>7. ASSUME NEW leaf \in BOOLEAN, Download(leaf) PROVE Progress'
    BY <2>7 DEF Download, Add
  <2>8. CASE Describe
    BY <2>8 DEF Describe, Add
  <2>9. CASE CancelBuild \/ \E begun \in BOOLEAN, why \in {"aborting", "cancelled"} : DownloadFails(begun, why)
    BY <2>9 DEF CancelBuild, DownloadFails, Abort
  <2> QED
    BY <1>1, <2>1, <2>2, <2>3, <2>4, <2>5, <2>6, <2>7, <2>8, <2>9
    DEF BuildStep, ThreadStep
<1>2. CASE Mint
  BY <1>2 DEF Mint, build
<1>3. CASE StepDown \/ EndJob \/ Collect \/ Evict
  BY <1>3 DEF StepDown, EndJob, Collect, Evict, build
<1>4. CASE Crash
  BY <1>4 DEF Crash
<1>5. ASSUME NEW k \in Fetches, FetchStep(k) PROVE Progress'
  <2>1. UNCHANGED <<at, build>>
    BY <1>5 DEF FetchStep, Expire, HandshakeFails, Request, EndOfBody, BodyFails, Repeat
  <2> QED
    BY <2>1 DEF build
<1>6. CASE UNCHANGED vars
  BY <1>6 DEF vars, build
<1> QED
  BY NextCases, <1>1, <1>2, <1>3, <1>4, <1>5, <1>6

(* From the first token on the archive does not change any more.            *)
LEMMA SettledStep ==
  ASSUME TypeOK, Minted, Progress, Settled, [Next]_vars
  PROVE  Settled'
<1> USE CountAssumption, BoundsAssumption DEF TypeOK, Settled, Fetches
<1>1. CASE BuildStep
  <2>0. UNCHANGED <<kind, attempt, process, fetched>>
    BY <1>1, BuildLeavesFetches DEF fetch
  <2>1. ASSUME kind = "bundle", attempt > 0
        PROVE  UNCHANGED <<at, archive, work>>
    BY <1>1, <2>1 DEF BuildStep, ThreadStep, Opens, Adds, AddFails, Finishes, FinishFails,
                      Aborts, Abandoned, Download, Describe, DownloadFails, CancelBuild
  <2> QED
    BY <2>0, <2>1
<1>2. CASE Mint
  BY <1>2 DEF Mint, build, Progress
<1>3. CASE StepDown \/ EndJob \/ Collect \/ Evict
  BY <1>3 DEF StepDown, EndJob, Collect, Evict, build, fetch
<1>4. CASE Crash
  BY <1>4 DEF Crash
<1>5. ASSUME NEW k \in Fetches, FetchStep(k) PROVE Settled'
  <2>1. UNCHANGED <<kind, at, archive, work, attempt>>
    BY <1>5 DEF FetchStep, Expire, HandshakeFails, Request, EndOfBody, BodyFails, Repeat,
                build
  <2>2. ASSUME kind = "bundle", NEW j \in Fetches, process'[j] \in {"streaming", "whole"}
        PROVE  fetched'[j] = Whole
    <3>1. CASE Request(k)
      <4>1. process[k] = "running"
        BY <3>1 DEF Request
      <4>2. attempt > 0
        BY <4>1 DEF Minted
      <4>3. archive = Whole
        BY <2>2, <4>2
      <4> QED
        BY <2>2, <3>1, <4>3 DEF Request, Streams
    <3>2. CASE ~Request(k)
      BY <1>5, <2>2, <3>2 DEF FetchStep, Expire, HandshakeFails, EndOfBody, BodyFails, Repeat
    <3> QED
      BY <3>1, <3>2
  <2> QED
    BY <2>1, <2>2
<1>6. CASE UNCHANGED vars
  BY <1>6 DEF vars, build, fetch
<1> QED
  BY NextCases, <1>1, <1>2, <1>3, <1>4, <1>5, <1>6

-----------------------------------------------------------------------------
(* The invariant, inductive: threads that nobody awaits any more, tools     *)
(* that outlive their restore and a crash at any point included.            *)
THEOREM InvHolds == Spec => []TransferInv
<1>1. Init => TransferInv
  BY InitInv
<1>2. TransferInv /\ [Next]_vars => TransferInv'
  BY TypeStep, TempStep, MintedStep, ProgressStep, SettledStep DEF TransferInv
<1> QED
  BY <1>1, <1>2, PTL DEF Spec

(* Every reachable state of a transfer is one of the model's.               *)
THEOREM TypeCorrect == Spec => []TypeOK
<1>1. TransferInv => TypeOK
  BY DEF TransferInv
<1> QED
  BY <1>1, InvHolds, PTL

(* At most one item is staged on the portal's disk at any time, since the   *)
(* file there is always the one of the item at hand.                        *)
THEOREM OneItem == Spec => []OneItemOnDisk
<1>1. ASSUME TransferInv
      PROVE  OneItemOnDisk
  <2>1. IsFiniteSet({item}) /\ Cardinality({item}) = 1
    BY FS_Singleton
  <2>2. Cardinality(temp) <= Cardinality({item})
    BY <1>1, <2>1, FS_Subset DEF TransferInv
  <2> QED
    BY <2>1, <2>2 DEF OneItemOnDisk
<1> QED
  BY <1>1, InvHolds, PTL

(* What is handed to the runner, and what a guest downloads to its end, is  *)
(* the whole archive, whatever was cancelled or abandoned on the way.       *)
THEOREM Delivered == Spec => []DeliveredIsWhole
<1>1. TransferInv => DeliveredIsWhole
  BY DEF TransferInv, Progress, Settled, DeliveredIsWhole
<1> QED
  BY <1>1, InvHolds, PTL

(* No token is served twice, for however many repeats and rungs.            *)
THEOREM SingleUse == Spec => []TokenServesOnce
<1>1. TransferInv => TokenServesOnce
  BY DEF TransferInv, Minted, TokenServesOnce
<1> QED
  BY <1>1, InvHolds, PTL
=============================================================================
