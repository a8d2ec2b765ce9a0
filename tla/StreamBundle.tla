---------------------------- MODULE StreamBundle ----------------------------
(***************************************************************************)
(* download_bundle.py: the archive of a multi-select download is built by  *)
(* a thread of a small pool and streamed to the client as it grows.  The   *)
(* thread pulls pieces of the selected items from PVE through the event    *)
(* loop and hands the archive back through a bounded queue; the response   *)
(* is an asynchronous generator that reads the queue.  Either side may end *)
(* first: PVE fails the build, or the client leaves a thread that is       *)
(* waiting in the pool, on PVE or on the full queue.                       *)
(*                                                                         *)
(* A piece stands for what fills the sink's buffer once; the last entry of *)
(* an archive is its trailer, which closing the writer sends.              *)
(***************************************************************************)
EXTENDS Naturals, Sequences, FiniteSets

CONSTANTS
  Downloads,
  Workers,       \* MAX_CONCURRENT_BUNDLES
  Depth,         \* _QUEUE_DEPTH
  Leaf,          \* per download and item: a file, or else a directory
  MaxPieces      \* bound: pieces of one item

ASSUME SizesAssumption ==
  /\ Workers \in Nat \ {0}
  /\ Depth \in Nat \ {0}
  /\ MaxPieces \in Nat \ {0}
ASSUME LeafAssumption == Leaf \in [Downloads -> Seq(BOOLEAN) \ {<<>>}]

VARIABLES
  reader,     \* the generator behind the response
  scoped,     \* it was cancelled through the server's cancel scope
  stop,       \* the threading.Event
  got,        \* archive chunks the client was given
  queue,      \* between thread and generator
  waiting,    \* downloads in the pool's queue
  thread,     \* where the worker thread of a download is
  build       \* the thread's locals

vars == <<reader, scoped, stop, got, queue, waiting, thread, build>>
response == <<reader, scoped, stop, got>>

Chunk == "chunk"
Done  == "done"

Readers == {"idle", "getting", "holding", "joining", "draining", "ended", "aborted"}
Threads == {"idle", "pooled", "filling", "asking", "writing", "putting", "closing",
            "finishing", "flushing", "ending", "signalling", "returning", "exited"}

Items(d) == 1..Len(Leaf[d])

(* pieces: of this item.  have: read and not in the archive yet.  read: of  *)
(* all items.  added: items the archive has.  open: a download from PVE.    *)
Builds == [item : Nat, wrote : BOOLEAN, followed : BOOLEAN, pieces : Nat,
           have : Nat, read : Nat, added : SUBSET Nat, open : BOOLEAN,
           failed : BOOLEAN]

NewBuild == [item |-> 1, wrote |-> FALSE, followed |-> FALSE, pieces |-> 0,
             have |-> 0, read |-> 0, added |-> {}, open |-> FALSE,
             failed |-> FALSE]

TypeOK ==
  /\ reader \in [Downloads -> Readers]
  /\ scoped \in [Downloads -> BOOLEAN]
  /\ stop \in [Downloads -> BOOLEAN]
  /\ got \in [Downloads -> Nat]
  /\ queue \in [Downloads -> Seq({Chunk, Done})]
  /\ waiting \in Seq(Downloads)
  /\ thread \in [Downloads -> Threads]
  /\ build \in [Downloads -> Builds]

Init ==
  /\ reader = [d \in Downloads |-> "idle"]
  /\ scoped = [d \in Downloads |-> FALSE]
  /\ stop = [d \in Downloads |-> FALSE]
  /\ got = [d \in Downloads |-> 0]
  /\ queue = [d \in Downloads |-> <<>>]
  /\ waiting = <<>>
  /\ thread = [d \in Downloads |-> "idle"]
  /\ build = [d \in Downloads |-> NewBuild]

Goto(d, place) == thread' = [thread EXCEPT ![d] = place]
Turn(d, place) == reader' = [reader EXCEPT ![d] = place]

-----------------------------------------------------------------------------
(* The generator, on the event loop.                                       *)

Request(d) ==
  /\ reader[d] = "idle"
  /\ Turn(d, "getting")
  /\ Goto(d, "pooled")
  /\ waiting' = Append(waiting, d)
  /\ UNCHANGED <<scoped, stop, got, queue, build>>

Get(d) ==
  /\ reader[d] = "getting"
  /\ queue[d] # <<>>
  /\ queue' = [queue EXCEPT ![d] = Tail(@)]
  /\ \/ /\ Head(queue[d]) = Done
        /\ Turn(d, "joining")
        /\ UNCHANGED got
     \/ /\ Head(queue[d]) = Chunk
        /\ Turn(d, "holding")
        /\ got' = [got EXCEPT ![d] = @ + 1]
  /\ UNCHANGED <<scoped, stop, waiting, thread, build>>

(* The client has taken the chunk.                                         *)
Take(d) ==
  /\ reader[d] = "holding"
  /\ Turn(d, "getting")
  /\ UNCHANGED <<scoped, stop, got, queue, waiting, thread, build>>

(* A bug: the end of the queue is taken for the end of a good archive.      *)
JoinUnchecked(d) ==
  /\ reader[d] = "joining"
  /\ Turn(d, "ended")
  /\ UNCHANGED <<scoped, stop, got, queue, waiting, thread, build>>

(* await task: what failed the build aborts the response.                  *)
Join(d) ==
  /\ reader[d] = "joining"
  /\ thread[d] = "exited"
  /\ Turn(d, IF build[d].failed THEN "aborted" ELSE "ended")
  /\ stop' = [stop EXCEPT ![d] = build[d].failed]
  /\ UNCHANGED <<scoped, got, queue, waiting, thread, build>>

(* A bug: nobody empties the queue for a thread that is parked on it.       *)
LeaveUndrained(d, inScope) ==
  /\ reader[d] \in {"getting", "holding"}
  /\ inScope <=> reader[d] = "getting"
  /\ stop' = [stop EXCEPT ![d] = TRUE]
  /\ scoped' = [scoped EXCEPT ![d] = inScope]
  /\ Turn(d, "aborted")
  /\ UNCHANGED <<got, queue, waiting, thread, build>>

(* The client goes.  At queue.get() the server's cancel scope cancels the  *)
(* generator; between two chunks the generator is closed when it is        *)
(* collected, outside that scope.  Both set stop and empty the queue       *)
(* before the next await.                                                  *)
Leave(d, inScope) ==
  /\ reader[d] \in {"getting", "holding"}
  /\ inScope <=> reader[d] = "getting"
  /\ stop' = [stop EXCEPT ![d] = TRUE]
  /\ scoped' = [scoped EXCEPT ![d] = inScope]
  /\ Turn(d, IF thread[d] = "exited" THEN "aborted" ELSE "draining")
  /\ queue' = [queue EXCEPT ![d] = IF thread[d] = "exited" THEN @ ELSE <<>>]
  /\ UNCHANGED <<got, waiting, thread, build>>

(* Cancelled at await task, which cancels the task with it: no drain.      *)
LeaveJoin(d) ==
  /\ reader[d] = "joining"
  /\ thread[d] # "exited"
  /\ Turn(d, "aborted")
  /\ stop' = [stop EXCEPT ![d] = TRUE]
  /\ UNCHANGED <<scoped, got, queue, waiting, thread, build>>

(* One round of the finally clause after its sleep.                        *)
Drain(d) ==
  /\ reader[d] = "draining"
  /\ queue[d] # <<>> \/ thread[d] = "exited"
  /\ queue' = [queue EXCEPT ![d] = IF thread[d] = "exited" THEN @ ELSE <<>>]
  /\ Turn(d, IF thread[d] = "exited" THEN "aborted" ELSE "draining")
  /\ UNCHANGED <<scoped, stop, got, waiting, thread, build>>

(* A cancel scope cancels each further await too: the sleep does not       *)
(* return, and nobody empties the queue any more.                          *)
CancelDrain(d) ==
  /\ reader[d] = "draining"
  /\ scoped[d]
  /\ Turn(d, "aborted")
  /\ UNCHANGED <<scoped, stop, got, queue, waiting, thread, build>>

-----------------------------------------------------------------------------
(* The worker thread.                                                      *)

Busy == {d \in Downloads : thread[d] \notin {"idle", "pooled", "exited"}}

IsLeaf(d) == Leaf[d][build[d].item]

Start(d) ==
  /\ waiting # <<>>
  /\ Head(waiting) = d
  /\ Cardinality(Busy) < Workers
  /\ waiting' = Tail(waiting)
  /\ Goto(d, "filling")
  /\ UNCHANGED <<response, queue, build>>

(* A refill checks stop first; the first one of an item opens its download. *)
Fill(d) ==
  /\ thread[d] = "filling"
  /\ \/ /\ stop[d]
        /\ Goto(d, "closing")
        /\ build' = [build EXCEPT ![d].failed = TRUE]
     \/ /\ ~stop[d]
        /\ Goto(d, "asking")
        /\ build' = [build EXCEPT ![d].open = TRUE]
  /\ UNCHANGED <<response, queue, waiting>>

(* A piece of a regular file.  The target of a symbolic link is spooled,    *)
(* since the archive needs its size first.                                  *)
Piece(d) ==
  /\ thread[d] = "asking"
  /\ build[d].pieces < MaxPieces
  /\ build' = [build EXCEPT ![d].pieces = @ + 1, ![d].have = @ + 1,
                            ![d].read = @ + 1, ![d].wrote = TRUE]
  /\ Goto(d, IF build[d].followed THEN "filling" ELSE "writing")
  /\ UNCHANGED <<response, queue, waiting>>

(* The item ends: an empty file, a folder's last member, a leaf's only one, *)
(* or a leaf that is no regular file.                                       *)
EndOfItem(d) ==
  /\ thread[d] = "asking"
  /\ \E wrote \in {build[d].wrote, TRUE} :
       build' = [build EXCEPT ![d].wrote = wrote \/ build[d].followed]
  /\ Goto(d, IF build[d].have > 0 THEN "writing" ELSE "closing")
  /\ UNCHANGED <<response, queue, waiting>>

(* PVE refuses or drops the download, or sends what is no archive.          *)
PveFails(d) ==
  /\ thread[d] = "asking"
  /\ build' = [build EXCEPT ![d].failed = TRUE]
  /\ Goto(d, "closing")
  /\ UNCHANGED <<response, queue, waiting>>

(* A full buffer goes to the queue unless the client has gone.              *)
Write(d) ==
  /\ thread[d] = "writing"
  /\ \/ /\ stop[d]
        /\ Goto(d, "closing")
        /\ build' = [build EXCEPT ![d].failed = TRUE]
     \/ /\ ~stop[d]
        /\ Goto(d, "putting")
        /\ UNCHANGED build
  /\ UNCHANGED <<response, queue, waiting>>

(* queue.put on the event loop; the thread blocks until there is room.      *)
Put(d) ==
  /\ thread[d] = "putting"
  /\ Len(queue[d]) < Depth
  /\ queue' = [queue EXCEPT ![d] = Append(@, Chunk)]
  /\ build' = [build EXCEPT ![d].have = @ - 1]
  /\ Goto(d, IF build[d].have > 1 THEN "writing"
             ELSE IF build[d].followed THEN "closing" ELSE "filling")
  /\ UNCHANGED <<response, waiting>>

Wanting(d) == IsLeaf(d) /\ ~build[d].wrote /\ ~build[d].followed

(* A bug: the download is closed only where its item was read to the end.   *)
CloseUnlessFailed(d) ==
  /\ thread[d] = "closing"
  /\ \/ /\ build[d].failed
        /\ Goto(d, "ending")
        /\ UNCHANGED build
     \/ /\ ~build[d].failed
        /\ build' = [build EXCEPT ![d].open = FALSE, ![d].item = @ + 1,
                                  ![d].added = @ \cup {build[d].item},
                                  ![d].wrote = FALSE, ![d].followed = FALSE,
                                  ![d].pieces = 0]
        /\ Goto(d, IF build[d].item < Len(Leaf[d]) THEN "filling" ELSE "finishing")
  /\ UNCHANGED <<response, queue, waiting>>

(* aclose() in the finally clause of each item.  A leaf that held nothing   *)
(* is fetched again, followed; otherwise the next item's turn comes.        *)
Close(d) ==
  /\ thread[d] = "closing"
  /\ \/ /\ build[d].failed
        /\ build' = [build EXCEPT ![d].open = FALSE]
        /\ Goto(d, "ending")
     \/ /\ ~build[d].failed
        /\ Wanting(d)
        /\ build' = [build EXCEPT ![d].open = FALSE, ![d].followed = TRUE,
                                  ![d].pieces = 0]
        /\ Goto(d, "filling")
     \/ /\ ~build[d].failed
        /\ ~Wanting(d)
        /\ build' = [build EXCEPT ![d].open = FALSE, ![d].item = @ + 1,
                                  ![d].added = @ \cup {build[d].item},
                                  ![d].wrote = FALSE, ![d].followed = FALSE,
                                  ![d].pieces = 0]
        /\ Goto(d, IF build[d].item < Len(Leaf[d]) THEN "filling" ELSE "finishing")
  /\ UNCHANGED <<response, queue, waiting>>

(* writer.close() and the sink's last send.                                 *)
Finish(d) ==
  /\ thread[d] = "finishing"
  /\ \/ /\ stop[d]
        /\ Goto(d, "ending")
        /\ build' = [build EXCEPT ![d].failed = TRUE]
     \/ /\ ~stop[d]
        /\ Goto(d, "flushing")
        /\ UNCHANGED build
  /\ UNCHANGED <<response, queue, waiting>>

Flush(d) ==
  /\ thread[d] = "flushing"
  /\ Len(queue[d]) < Depth
  /\ queue' = [queue EXCEPT ![d] = Append(@, Chunk)]
  /\ Goto(d, "ending")
  /\ UNCHANGED <<response, waiting, build>>

(* A bug: a build that fails ends without a word.                           *)
EndSilently(d) ==
  /\ thread[d] = "ending"
  /\ Goto(d, IF stop[d] \/ build[d].failed THEN "returning" ELSE "signalling")
  /\ UNCHANGED <<response, queue, waiting, build>>

(* The finally clause of build().                                           *)
End(d) ==
  /\ thread[d] = "ending"
  /\ Goto(d, IF stop[d] THEN "returning" ELSE "signalling")
  /\ UNCHANGED <<response, queue, waiting, build>>

Signal(d) ==
  /\ thread[d] = "signalling"
  /\ Len(queue[d]) < Depth
  /\ queue' = [queue EXCEPT ![d] = Append(@, Done)]
  /\ Goto(d, "returning")
  /\ UNCHANGED <<response, waiting, build>>

(* The event loop learns that the executor's future is done.                *)
Return(d) ==
  /\ thread[d] = "returning"
  /\ Goto(d, "exited")
  /\ UNCHANGED <<response, queue, waiting, build>>

-----------------------------------------------------------------------------
ReaderStep(d) == Get(d) \/ Join(d) \/ Drain(d)

ClientStep(d) ==
  \/ Request(d) \/ Take(d) \/ LeaveJoin(d) \/ CancelDrain(d)
  \/ \E inScope \in BOOLEAN : Leave(d, inScope)

ThreadStep(d) ==
  \/ Start(d) \/ Fill(d) \/ Write(d) \/ Put(d) \/ Close(d) \/ Finish(d)
  \/ Flush(d) \/ End(d) \/ Signal(d) \/ Return(d)

PveStep(d) == Piece(d) \/ EndOfItem(d) \/ PveFails(d)

Next == \E d \in Downloads :
          ReaderStep(d) \/ ClientStep(d) \/ ThreadStep(d) \/ PveStep(d)

Spec == Init /\ [][Next]_vars

(* The event loop resumes what is ready and threads are scheduled; neither  *)
(* PVE, whose downloads have no timeout, nor the client is assumed to act.  *)
FairSpec ==
  /\ Spec
  /\ \A d \in Downloads : WF_vars(ReaderStep(d)) /\ WF_vars(ThreadStep(d))

-----------------------------------------------------------------------------
(* A response that ends normally is the whole archive: every item is in it, *)
(* a symbolic link as its target, every piece PVE sent was delivered and so *)
(* was the trailer.  Whatever failed on the way aborts the response, since  *)
(* its status was sent long before (docstring, lines 31-34).                *)
NeverTruncated ==
  \A d \in Downloads : reader[d] = "ended" =>
    /\ ~build[d].failed
    /\ \A i \in Items(d) : i \in build[d].added
    /\ got[d] = build[d].read + 1

(* However a build ends, no download from PVE is left open behind it, and   *)
(* a thread that is done with an item does not keep that item's download.   *)
DownloadsClosed ==
  \A d \in Downloads :
    /\ thread[d] \notin {"filling", "asking", "writing", "putting", "closing"} =>
         ~build[d].open
    /\ reader[d] = "ended" => thread[d] = "exited"

(* A download whose client has gone gives its thread back as long as PVE    *)
(* answers: it is not leaked on a full queue nobody reads, on a queue       *)
(* whose drain was itself cancelled or on an item it has still to fetch,    *)
(* whatever the other clients do.                                           *)
PveAnswers == \A d \in Downloads : []<>(thread[d] # "asking")

AbandonedThreadEnds ==
  PveAnswers =>
    \A d \in Downloads :
      stop[d] /\ thread[d] # "pooled" ~> thread[d] = "exited"

(* If PVE answers and clients read or leave, every download past the pool's *)
(* limit gets its worker, and every response ends one way or the other.     *)
EveryDownloadEnds ==
  PveAnswers /\ (\A d \in Downloads : []<>(reader[d] # "holding")) =>
    \A d \in Downloads :
      reader[d] # "idle" ~> reader[d] \in {"ended", "aborted"} /\ thread[d] = "exited"
=============================================================================
