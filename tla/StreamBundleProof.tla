------------------------- MODULE StreamBundleProof -------------------------
(***************************************************************************)
(* Theorems about StreamBundle, for any number of downloads, any items and *)
(* any sizes of the pool and of the queue.                                 *)
(***************************************************************************)
EXTENDS StreamBundle, TLAPS

(* A download is in the pool's queue once, and its thread waits there.      *)
Waits ==
  /\ \A i \in 1..Len(waiting) : thread[waiting[i]] = "pooled"
  /\ \A i, j \in 1..Len(waiting) : waiting[i] = waiting[j] => i = j
  /\ \A d \in Downloads : reader[d] = "idle" => thread[d] = "idle"

(* Where a thread may hold a download from PVE, and where it has something  *)
(* to send.                                                                 *)
AtItem  == {"filling", "asking", "writing", "putting", "closing"}
AtEnd   == {"finishing", "flushing", "ending", "signalling", "returning", "exited"}

Threading(d) ==
  /\ build[d].open => thread[d] \in AtItem
  /\ thread[d] \in {"writing", "putting"} => build[d].have > 0
  /\ reader[d] = "ended" => thread[d] = "exited"

(* Until a build fails the archive has the items before this one, and what  *)
(* was read of them; at the end it has them all.                            *)
Filed(d) ==
  /\ thread[d] \in {"idle", "pooled"} =>
       /\ build[d].item = 1 /\ build[d].have = 0 /\ build[d].read = 0
       /\ ~build[d].open /\ ~build[d].failed
  /\ ~build[d].failed =>
       /\ thread[d] \in AtItem =>
            build[d].item \in Items(d) /\ 1..(build[d].item - 1) \subseteq build[d].added
       /\ thread[d] \in AtEnd => Items(d) \subseteq build[d].added
       /\ thread[d] \in AtEnd \cup {"closing"} => build[d].have = 0
       /\ thread[d] \in {"filling", "asking"} /\ ~build[d].followed => build[d].have = 0

(* What PVE sent is with the client, in the queue or in the thread, and the *)
(* trailer with it once the thread has flushed it; the end of the stream    *)
(* is the queue's last entry.                                               *)
Flushed(d) == thread[d] \in {"ending", "signalling", "returning", "exited"}
Signalled(d) == thread[d] \in {"returning", "exited"}

Trailer(d) == IF Flushed(d) THEN 1 ELSE 0
Ending(d) == IF Signalled(d) THEN 1 ELSE 0

Flow(d) ==
  /\ reader[d] = "idle" => /\ thread[d] = "idle" /\ queue[d] = <<>> /\ got[d] = 0
                           /\ ~stop[d]
  /\ reader[d] \in {"getting", "holding"} =>
       /\ ~stop[d]
       /\ \A i \in 1..Len(queue[d]) :
            queue[d][i] = Done <=> i = Len(queue[d]) /\ Signalled(d)
       /\ Signalled(d) => Len(queue[d]) > 0
       /\ ~build[d].failed =>
            got[d] + build[d].have + Len(queue[d]) = build[d].read + Trailer(d) + Ending(d)
  /\ reader[d] = "joining" =>
       /\ ~stop[d] /\ Signalled(d)
       /\ ~build[d].failed => got[d] + build[d].have = build[d].read + Trailer(d)
  /\ reader[d] = "ended" =>
       /\ ~build[d].failed /\ thread[d] = "exited"
       /\ got[d] + build[d].have = build[d].read + Trailer(d)

StreamInv ==
  /\ TypeOK
  /\ Waits
  /\ \A d \in Downloads : Threading(d) /\ Filed(d) /\ Flow(d)

-----------------------------------------------------------------------------
(* What the steps of a build make of one.                                   *)
LEMMA Flags ==
  ASSUME NEW b \in Builds, NEW flag \in BOOLEAN
  PROVE  /\ [b EXCEPT !.failed = TRUE] \in Builds
         /\ [b EXCEPT !.open = flag] \in Builds
         /\ [b EXCEPT !.wrote = flag] \in Builds
         /\ [b EXCEPT !.open = FALSE, !.followed = TRUE, !.pieces = 0] \in Builds
<1>1. 0 \in Nat
  OBVIOUS
<1> QED
  BY <1>1, Zenon DEF Builds

LEMMA Sizes ==
  ASSUME NEW b \in Builds, NEW n \in Nat, NEW h \in Nat, NEW r \in Nat,
         NEW i \in Nat, NEW done \in SUBSET Nat
  PROVE  /\ [b EXCEPT !.pieces = n, !.have = h, !.read = r, !.wrote = TRUE] \in Builds
         /\ [b EXCEPT !.have = h] \in Builds
         /\ [b EXCEPT !.open = FALSE, !.item = i, !.added = done, !.wrote = FALSE,
                      !.followed = FALSE, !.pieces = 0] \in Builds
<1>1. 0 \in Nat
  OBVIOUS
<1> QED
  BY <1>1, Zenon DEF Builds

LEMMA Counts ==
  ASSUME NEW b \in Builds
  PROVE  /\ b.item \in Nat /\ b.pieces \in Nat /\ b.have \in Nat /\ b.read \in Nat
         /\ b.added \in SUBSET Nat
         /\ b.wrote \in BOOLEAN /\ b.followed \in BOOLEAN
         /\ b.open \in BOOLEAN /\ b.failed \in BOOLEAN
BY DEF Builds

LEMMA BuildStepTypes ==
  ASSUME TypeOK, NEW d \in Downloads, Threading(d), ThreadStep(d) \/ PveStep(d)
  PROVE  build' \in [Downloads -> Builds]
<1> DEFINE b == build[d]
<1> USE DEF TypeOK
<1>0. /\ b \in Builds /\ b.item + 1 \in Nat /\ b.pieces + 1 \in Nat
      /\ b.have + 1 \in Nat /\ b.read + 1 \in Nat /\ b.added \cup {b.item} \in SUBSET Nat
  BY Counts
<1>1. CASE UNCHANGED build
  BY <1>1
<1>2. CASE Fill(d)
  BY <1>0, <1>2, Flags DEF Fill
<1>3. CASE Write(d) \/ Finish(d) \/ PveFails(d)
  BY <1>0, <1>3, Flags DEF Write, Finish, PveFails
<1>4. CASE Piece(d)
  <2>1. build' = [build EXCEPT ![d] = [b EXCEPT !.pieces = b.pieces + 1,
                    !.have = b.have + 1, !.read = b.read + 1, !.wrote = TRUE]]
    BY <1>4 DEF Piece
  <2>2. [b EXCEPT !.pieces = b.pieces + 1, !.have = b.have + 1, !.read = b.read + 1,
                  !.wrote = TRUE] \in Builds
    BY <1>0, Sizes
  <2> QED
    BY <2>1, <2>2
<1>5. CASE EndOfItem(d)
  <2>1. PICK w \in BOOLEAN : build' = [build EXCEPT ![d] = [b EXCEPT !.wrote = w]]
    BY <1>0, <1>5, Counts DEF EndOfItem
  <2>2. [b EXCEPT !.wrote = w] \in Builds
    BY <1>0, Flags
  <2> QED
    BY <2>1, <2>2
<1>6. CASE Put(d)
  <2>1. b.have - 1 \in Nat
    BY <1>0, <1>6, Counts DEF Put, Threading
  <2>2. build' = [build EXCEPT ![d] = [b EXCEPT !.have = b.have - 1]]
    BY <1>6 DEF Put
  <2>3. [b EXCEPT !.have = b.have - 1] \in Builds
    BY <1>0, <2>1, Sizes
  <2> QED
    BY <2>2, <2>3
<1>7. CASE Close(d)
  <2>1. \/ build' = [build EXCEPT ![d] = [b EXCEPT !.open = FALSE]]
        \/ build' = [build EXCEPT ![d] = [b EXCEPT !.open = FALSE, !.followed = TRUE,
                                                   !.pieces = 0]]
        \/ build' = [build EXCEPT ![d] = [b EXCEPT !.open = FALSE, !.item = b.item + 1,
                       !.added = b.added \cup {b.item}, !.wrote = FALSE, !.followed = FALSE,
                       !.pieces = 0]]
    BY <1>7 DEF Close
  <2>2. [b EXCEPT !.open = FALSE] \in Builds
    BY <1>0, Flags
  <2>3. [b EXCEPT !.open = FALSE, !.followed = TRUE, !.pieces = 0] \in Builds
    BY <1>0, Flags
  <2>4. [b EXCEPT !.open = FALSE, !.item = b.item + 1, !.added = b.added \cup {b.item},
                  !.wrote = FALSE, !.followed = FALSE, !.pieces = 0] \in Builds
    BY <1>0, Sizes
  <2> QED
    BY <2>1, <2>2, <2>3, <2>4
<1> QED
  BY <1>1, <1>2, <1>3, <1>4, <1>5, <1>6, <1>7
  DEF ThreadStep, PveStep, Start, Flush, End, Signal, Return

-----------------------------------------------------------------------------
(* What each step of a thread does to its own download.                     *)
SameItem(d) ==
  /\ build'[d].item = build[d].item
  /\ build'[d].added = build[d].added

SameRead(d) ==
  /\ build'[d].have = build[d].have
  /\ build'[d].read = build[d].read

SameFlags(d) ==
  /\ build'[d].open = build[d].open
  /\ build'[d].followed = build[d].followed
  /\ build'[d].failed = build[d].failed

Same(d) == SameItem(d) /\ SameRead(d) /\ SameFlags(d)

(* The build is given up.                                                   *)
Fails(d) ==
  /\ SameItem(d)
  /\ SameRead(d)
  /\ build'[d].failed = TRUE
  /\ build'[d].followed = build[d].followed
  /\ build'[d].open = build[d].open

Moves(d, from, to) == thread[d] = from /\ thread'[d] = to

LEMMA StepFacts ==
  ASSUME TypeOK, NEW d \in Downloads
  PROVE  /\ Start(d) => thread'[d] = "filling" /\ Same(d)
         /\ Fill(d) => \/ stop[d] /\ Moves(d, "filling", "closing") /\ Fails(d)
                       \/ /\ ~stop[d] /\ Moves(d, "filling", "asking")
                          /\ SameItem(d) /\ SameRead(d)
                          /\ build'[d].failed = build[d].failed
                          /\ build'[d].followed = build[d].followed
         /\ Write(d) => \/ stop[d] /\ Moves(d, "writing", "closing") /\ Fails(d)
                        \/ Moves(d, "writing", "putting") /\ Same(d)
         /\ Finish(d) => \/ stop[d] /\ Moves(d, "finishing", "ending") /\ Fails(d)
                         \/ ~stop[d] /\ Moves(d, "finishing", "flushing") /\ Same(d)
         /\ PveFails(d) => Moves(d, "asking", "closing") /\ Fails(d)
         /\ Flush(d) => Moves(d, "flushing", "ending") /\ Same(d)
         /\ Signal(d) => Moves(d, "signalling", "returning") /\ Same(d)
         /\ Return(d) => Moves(d, "returning", "exited") /\ Same(d)
         /\ End(d) => \/ stop[d] /\ Moves(d, "ending", "returning") /\ Same(d)
                      \/ ~stop[d] /\ Moves(d, "ending", "signalling") /\ Same(d)
<1> USE DEF TypeOK, Builds, Goto, Moves, Same, SameItem, SameRead, SameFlags, Fails
<1>1. Start(d) => thread'[d] = "filling" /\ Same(d)
  BY DEF Start
<1>2. Fill(d) => \/ stop[d] /\ Moves(d, "filling", "closing") /\ Fails(d)
                 \/ /\ ~stop[d] /\ Moves(d, "filling", "asking")
                    /\ SameItem(d) /\ SameRead(d)
                    /\ build'[d].failed = build[d].failed
                    /\ build'[d].followed = build[d].followed
  BY DEF Fill
<1>3. Write(d) => \/ stop[d] /\ Moves(d, "writing", "closing") /\ Fails(d)
                  \/ Moves(d, "writing", "putting") /\ Same(d)
  BY DEF Write
<1>4. Finish(d) => \/ stop[d] /\ Moves(d, "finishing", "ending") /\ Fails(d)
                   \/ ~stop[d] /\ Moves(d, "finishing", "flushing") /\ Same(d)
  BY DEF Finish
<1>5. PveFails(d) => Moves(d, "asking", "closing") /\ Fails(d)
  BY DEF PveFails
<1>6. Flush(d) => Moves(d, "flushing", "ending") /\ Same(d)
  BY DEF Flush
<1>7. Signal(d) => Moves(d, "signalling", "returning") /\ Same(d)
  BY DEF Signal
<1>8. Return(d) => Moves(d, "returning", "exited") /\ Same(d)
  BY DEF Return
<1>9. End(d) => \/ stop[d] /\ Moves(d, "ending", "returning") /\ Same(d)
                \/ ~stop[d] /\ Moves(d, "ending", "signalling") /\ Same(d)
  BY DEF End
<1> QED
  BY <1>1, <1>2, <1>3, <1>4, <1>5, <1>6, <1>7, <1>8, <1>9

(* The steps that read, deliver and close an item.                          *)
LEMMA ItemFacts ==
  ASSUME TypeOK, NEW d \in Downloads
  PROVE  /\ Piece(d) =>
              /\ thread[d] = "asking"
              /\ thread'[d] = (IF build[d].followed THEN "filling" ELSE "writing")
              /\ SameItem(d) /\ SameFlags(d)
              /\ build'[d].have = build[d].have + 1
              /\ build'[d].read = build[d].read + 1
         /\ EndOfItem(d) =>
              /\ thread[d] = "asking"
              /\ thread'[d] = (IF build[d].have > 0 THEN "writing" ELSE "closing")
              /\ Same(d)
         /\ Put(d) =>
              /\ thread[d] = "putting"
              /\ thread'[d] = (IF build[d].have > 1 THEN "writing"
                               ELSE IF build[d].followed THEN "closing" ELSE "filling")
              /\ SameItem(d) /\ SameFlags(d)
              /\ build'[d].have = build[d].have - 1
              /\ build'[d].read = build[d].read
         /\ Close(d) =>
              /\ thread[d] = "closing"
              /\ SameRead(d)
              /\ build'[d].open = FALSE
              /\ build'[d].failed = build[d].failed
              /\ \/ build[d].failed /\ SameItem(d) /\ thread'[d] = "ending"
                 \/ ~build[d].failed /\ SameItem(d) /\ thread'[d] = "filling"
                 \/ /\ ~build[d].failed
                    /\ build'[d].item = build[d].item + 1
                    /\ build'[d].added = build[d].added \cup {build[d].item}
                    /\ thread'[d] = (IF build[d].item < Len(Leaf[d]) THEN "filling"
                                     ELSE "finishing")
<1> USE DEF TypeOK, Builds, Goto, Same, SameItem, SameRead, SameFlags
<1>1. Piece(d) => /\ thread[d] = "asking"
                  /\ thread'[d] = (IF build[d].followed THEN "filling" ELSE "writing")
                  /\ SameItem(d) /\ SameFlags(d)
                  /\ build'[d].have = build[d].have + 1
                  /\ build'[d].read = build[d].read + 1
  BY DEF Piece
<1>2. EndOfItem(d) => /\ thread[d] = "asking"
                      /\ thread'[d] = (IF build[d].have > 0 THEN "writing" ELSE "closing")
                      /\ Same(d)
  BY DEF EndOfItem
<1>3. Put(d) => /\ thread[d] = "putting"
                /\ thread'[d] = (IF build[d].have > 1 THEN "writing"
                                 ELSE IF build[d].followed THEN "closing" ELSE "filling")
                /\ SameItem(d) /\ SameFlags(d)
                /\ build'[d].have = build[d].have - 1
                /\ build'[d].read = build[d].read
  BY DEF Put
<1>4. Close(d) => /\ thread[d] = "closing"
                  /\ SameRead(d)
                  /\ build'[d].open = FALSE
                  /\ build'[d].failed = build[d].failed
                  /\ \/ build[d].failed /\ SameItem(d) /\ thread'[d] = "ending"
                     \/ ~build[d].failed /\ SameItem(d) /\ thread'[d] = "filling"
                     \/ /\ ~build[d].failed
                        /\ build'[d].item = build[d].item + 1
                        /\ build'[d].added = build[d].added \cup {build[d].item}
                        /\ thread'[d] = (IF build[d].item < Len(Leaf[d]) THEN "filling"
                                         ELSE "finishing")
  BY DEF Close
<1> QED
  BY <1>1, <1>2, <1>3, <1>4

-----------------------------------------------------------------------------
(* The thread keeps account of what it read and what the archive has.       *)
LEMMA FiledStep ==
  ASSUME TypeOK, NEW d \in Downloads, Threading(d), Filed(d),
         ThreadStep(d) \/ PveStep(d),
         Start(d) => thread[d] = "pooled"
  PROVE  Threading(d)' /\ Filed(d)'
<1> DEFINE b == build[d]
           c == build'[d]
<1>0. /\ b \in Builds /\ b.have \in Nat /\ b.item \in Nat /\ b.added \in SUBSET Nat
      /\ Len(Leaf[d]) \in Nat \ {0} /\ reader'[d] = reader[d]
      /\ thread[d] \in Threads
  <2>1. Leaf[d] \in Seq(BOOLEAN) /\ Leaf[d] # <<>>
    BY LeafAssumption
  <2>2. Len(Leaf[d]) \in Nat \ {0}
    BY <2>1
  <2>3. reader'[d] = reader[d]
    BY DEF ThreadStep, PveStep, Start, Fill, Write, Put, Close, Finish, Flush, End,
           Signal, Return, Piece, EndOfItem, PveFails, response
  <2> QED
    BY <2>2, <2>3, Counts DEF TypeOK
<1>1. CASE Start(d)
  <2>1. thread[d] = "pooled" /\ thread'[d] = "filling" /\ Same(d)
    BY <1>1, StepFacts
  <2>2. 1 \in 1..Len(Leaf[d]) /\ 1..(1 - 1) = {}
    BY <1>0
  <2> QED
    BY <1>0, <2>1, <2>2 DEF Threading, Filed, AtItem, AtEnd, Items, Same, SameItem,
                            SameRead, SameFlags
<1>2. ASSUME Fails(d), \/ Moves(d, "filling", "closing") \/ Moves(d, "writing", "closing")
                       \/ Moves(d, "asking", "closing") \/ Moves(d, "finishing", "ending")
      PROVE  Threading(d)' /\ Filed(d)'
  <2>1. c.failed = TRUE
    BY <1>2 DEF Fails
  <2>2. Filed(d)'
    BY <1>2, <2>1 DEF Filed, Moves
  <2>3. c.open = b.open /\ thread[d] \in AtItem \cup AtEnd
    BY <1>2 DEF Fails, Moves, AtItem, AtEnd
  <2>4. Threading(d)'
    BY <1>0, <1>2, <2>3 DEF Threading, Moves, AtItem, AtEnd
  <2> QED
    BY <2>2, <2>4
<1>3. CASE Fill(d) \/ Write(d) \/ PveFails(d) \/ Finish(d)
  <2>1. \/ /\ Fails(d)
           /\ \/ Moves(d, "filling", "closing") \/ Moves(d, "writing", "closing")
              \/ Moves(d, "asking", "closing") \/ Moves(d, "finishing", "ending")
        \/ /\ SameItem(d) /\ SameRead(d) /\ c.failed = b.failed /\ c.followed = b.followed
           /\ \/ Moves(d, "filling", "asking")
              \/ Moves(d, "writing", "putting") /\ c.open = b.open
              \/ Moves(d, "finishing", "flushing") /\ c.open = b.open
    BY <1>3, StepFacts DEF Same, SameFlags
  <2>2. ASSUME SameItem(d), SameRead(d), c.failed = b.failed, c.followed = b.followed,
               \/ Moves(d, "filling", "asking")
               \/ Moves(d, "writing", "putting") /\ c.open = b.open
               \/ Moves(d, "finishing", "flushing") /\ c.open = b.open
        PROVE  Threading(d)' /\ Filed(d)'
    BY <1>0, <2>2
    DEF Threading, Filed, AtItem, AtEnd, Items, SameItem, SameRead, Moves
  <2> QED
    BY <1>2, <2>1, <2>2
<1>4. CASE Flush(d) \/ End(d) \/ Signal(d) \/ Return(d)
  BY <1>0, <1>4, StepFacts
  DEF Threading, Filed, AtItem, AtEnd, Items, Same, SameItem, SameRead, SameFlags, Moves
<1>5. CASE Piece(d) \/ EndOfItem(d) \/ Put(d)
  <2>1. /\ SameItem(d) /\ SameFlags(d)
        /\ \/ thread'[d] = "filling" /\ (c.have = 0 \/ b.followed)
           \/ thread'[d] = "writing" /\ c.have > 0
           \/ thread'[d] = "closing" /\ c.have = 0
        /\ thread[d] \in AtItem
    <3>1. CASE Piece(d)
      <4>1. /\ thread[d] = "asking"
            /\ thread'[d] = (IF b.followed THEN "filling" ELSE "writing")
            /\ SameItem(d) /\ SameFlags(d)
            /\ c.have = b.have + 1
        BY <3>1, ItemFacts
      <4>2. CASE b.followed
        BY <4>1, <4>2 DEF AtItem
      <4>3. CASE ~b.followed
        BY <1>0, <4>1, <4>3 DEF AtItem
      <4> QED
        BY <4>2, <4>3
    <3>2. CASE EndOfItem(d)
      <4>1. /\ thread[d] = "asking"
            /\ thread'[d] = (IF b.have > 0 THEN "writing" ELSE "closing")
            /\ SameItem(d) /\ SameFlags(d)
            /\ c.have = b.have
        BY <3>2, ItemFacts DEF Same, SameRead
      <4> QED
        BY <1>0, <4>1 DEF AtItem
    <3>3. CASE Put(d)
      <4>1. /\ thread[d] = "putting"
            /\ thread'[d] = (IF b.have > 1 THEN "writing"
                             ELSE IF b.followed THEN "closing" ELSE "filling")
            /\ SameItem(d) /\ SameFlags(d)
            /\ c.have = b.have - 1
        BY <3>3, ItemFacts
      <4>2. b.have > 0
        BY <4>1 DEF Threading
      <4>3. CASE b.followed
        BY <1>0, <4>1, <4>2, <4>3 DEF AtItem
      <4>4. CASE ~b.followed
        BY <1>0, <4>1, <4>2, <4>4 DEF AtItem
      <4> QED
        BY <4>3, <4>4
    <3> QED
      BY <1>5, <3>1, <3>2, <3>3
  <2> QED
    BY <1>0, <2>1 DEF Threading, Filed, AtItem, AtEnd, Items, SameItem, SameFlags
<1>7. CASE Close(d)
  <2>1. /\ thread[d] = "closing" /\ SameRead(d)
        /\ c.open = FALSE /\ c.failed = b.failed
    BY <1>7, ItemFacts
  <2>2. CASE b.failed
    <3>1. thread'[d] = "ending" /\ c.failed
      BY <1>7, <2>1, <2>2, ItemFacts
    <3> QED
      BY <1>0, <2>1, <2>2, <3>1 DEF Threading, Filed, AtItem
  <2>3. CASE ~b.failed
    <3>1. c.have = 0 /\ b.item \in 1..Len(Leaf[d]) /\ 1..(b.item - 1) \subseteq b.added
      BY <2>1, <2>3 DEF Filed, AtItem, AtEnd, Items, SameRead
    <3>2. CASE thread'[d] = "filling" /\ SameItem(d)
      BY <1>0, <2>1, <2>3, <3>1, <3>2 DEF Threading, Filed, AtItem, AtEnd, Items, SameItem
    <3>3. CASE /\ c.item = b.item + 1
               /\ c.added = b.added \cup {b.item}
               /\ thread'[d] = (IF b.item < Len(Leaf[d]) THEN "filling" ELSE "finishing")
      <4>1. 1..b.item \subseteq c.added
        BY <3>1, <3>3
      <4>2. CASE b.item < Len(Leaf[d])
        BY <1>0, <2>1, <2>3, <3>1, <3>3, <4>1, <4>2
        DEF Threading, Filed, AtItem, AtEnd, Items
      <4>3. CASE ~(b.item < Len(Leaf[d]))
        <5>1. b.item = Len(Leaf[d])
          BY <1>0, <3>1, <4>3
        <5> QED
          BY <1>0, <2>1, <2>3, <3>1, <3>3, <4>1, <4>3, <5>1
          DEF Threading, Filed, AtItem, AtEnd, Items
      <4> QED
        BY <4>2, <4>3
    <3> QED
      BY <1>7, <2>3, <3>2, <3>3, ItemFacts
  <2> QED
    BY <2>2, <2>3
<1> QED
  BY <1>1, <1>3, <1>4, <1>5, <1>7 DEF ThreadStep, PveStep

-----------------------------------------------------------------------------
(* A step is a thread's, with PVE or not, a client's first, or a reader's;  *)
(* it touches one download.                                                 *)
LoopStep(d) ==
  \/ Get(d) \/ Join(d) \/ Drain(d) \/ Take(d) \/ LeaveJoin(d) \/ CancelDrain(d)
  \/ \E inScope \in BOOLEAN : Leave(d, inScope)

LEMMA NextCases ==
  ASSUME [Next]_vars
  PROVE  \/ \E d \in Downloads : ThreadStep(d) \/ PveStep(d)
         \/ \E d \in Downloads : Request(d)
         \/ \E d \in Downloads : LoopStep(d)
         \/ UNCHANGED vars
BY DEF Next, ReaderStep, ClientStep, LoopStep

Untouched(e) ==
  /\ reader'[e] = reader[e] /\ thread'[e] = thread[e] /\ stop'[e] = stop[e]
  /\ got'[e] = got[e] /\ queue'[e] = queue[e] /\ build'[e] = build[e]

LEMMA Others ==
  ASSUME TypeOK, NEW d \in Downloads, NEW e \in Downloads, e # d,
         ThreadStep(d) \/ PveStep(d) \/ Request(d) \/ LoopStep(d)
  PROVE  Untouched(e)
<1> USE DEF TypeOK, Untouched, Goto, Turn
<1>1. CASE ThreadStep(d)
  BY <1>1 DEF ThreadStep, Start, Fill, Write, Put, Close, Finish, Flush, End, Signal, Return,
              response
<1>2. CASE PveStep(d)
  BY <1>2 DEF PveStep, Piece, EndOfItem, PveFails, response
<1>3. CASE Request(d)
  BY <1>3 DEF Request
<1>4. CASE LoopStep(d)
  BY <1>4 DEF LoopStep, Get, Join, Drain, Take, LeaveJoin, CancelDrain, Leave
<1> QED
  BY <1>1, <1>2, <1>3, <1>4

LEMMA Kept ==
  ASSUME NEW e \in Downloads, Untouched(e), Threading(e), Filed(e), Flow(e)
  PROVE  Threading(e)' /\ Filed(e)' /\ Flow(e)'
<1>1. Threading(e)'
  BY DEF Threading, Untouched
<1>2. Filed(e)'
  BY DEF Filed, Untouched, Items
<1>3. Flow(e)'
  BY DEF Flow, Untouched, Flushed, Signalled, Trailer, Ending
<1> QED
  BY <1>1, <1>2, <1>3

(* Every step keeps every variable within its type.                         *)
LEMMA TypeStep ==
  ASSUME StreamInv, [Next]_vars
  PROVE  TypeOK'
<1> USE DEF TypeOK, Goto, Turn, Readers, Threads, Chunk, Done
<1> TypeOK
  BY DEF StreamInv
<1>1. ASSUME NEW d \in Downloads, ThreadStep(d) \/ PveStep(d) PROVE TypeOK'
  <2>1. build' \in [Downloads -> Builds]
    BY <1>1, BuildStepTypes DEF StreamInv
  <2>2. thread' \in [Downloads -> Threads] /\ UNCHANGED response
    BY <1>1 DEF ThreadStep, PveStep, Start, Fill, Write, Put, Close, Finish, Flush, End,
                Signal, Return, Piece, EndOfItem, PveFails
  <2>3. waiting' \in Seq(Downloads)
    <3>1. waiting # <<>> => Tail(waiting) \in Seq(Downloads)
      OBVIOUS
    <3> QED
      BY <1>1, <3>1 DEF ThreadStep, PveStep, Start, Fill, Write, Put, Close, Finish, Flush,
                        End, Signal, Return, Piece, EndOfItem, PveFails
  <2>4. queue' \in [Downloads -> Seq({Chunk, Done})]
    <3>1. /\ Append(queue[d], Chunk) \in Seq({Chunk, Done})
          /\ Append(queue[d], Done) \in Seq({Chunk, Done})
      OBVIOUS
    <3>2. \/ UNCHANGED queue
          \/ queue' = [queue EXCEPT ![d] = Append(queue[d], Chunk)]
          \/ queue' = [queue EXCEPT ![d] = Append(queue[d], Done)]
      BY <1>1 DEF ThreadStep, PveStep, Start, Fill, Write, Put, Close, Finish, Flush,
                  End, Signal, Return, Piece, EndOfItem, PveFails
    <3> QED
      BY <3>1, <3>2
  <2> QED
    BY <2>1, <2>2, <2>3, <2>4 DEF response
<1>2. ASSUME NEW d \in Downloads, Request(d) PROVE TypeOK'
  BY <1>2 DEF Request
<1>3. ASSUME NEW d \in Downloads, LoopStep(d) PROVE TypeOK'
  <2>1. CASE Get(d)
    <3>1. queue[d] \in Seq({Chunk, Done}) /\ got[d] + 1 \in Nat
      OBVIOUS
    <3>2. Tail(queue[d]) \in Seq({Chunk, Done})
      BY <2>1, <3>1 DEF Get
    <3>3. queue' = [queue EXCEPT ![d] = Tail(queue[d])]
      BY <2>1 DEF Get
    <3>4. queue' \in [Downloads -> Seq({Chunk, Done})]
      BY <3>2, <3>3
    <3>5. got' \in [Downloads -> Nat] /\ reader' \in [Downloads -> Readers]
      BY <2>1, <3>1 DEF Get
    <3> QED
      BY <2>1, <3>4, <3>5 DEF Get
  <2>2. CASE Join(d)
    BY <2>2, Counts DEF Join
  <2>3. CASE Drain(d)
    BY <2>3 DEF Drain
  <2>4. CASE Take(d) \/ LeaveJoin(d) \/ CancelDrain(d)
    BY <2>4 DEF Take, LeaveJoin, CancelDrain
  <2>5. ASSUME NEW inScope \in BOOLEAN, Leave(d, inScope) PROVE TypeOK'
    BY <2>5 DEF Leave
  <2> QED
    BY <1>3, <2>1, <2>2, <2>3, <2>4, <2>5 DEF LoopStep
<1>4. CASE UNCHANGED vars
  BY <1>4 DEF vars, response
<1> QED
  BY NextCases, <1>1, <1>2, <1>3, <1>4

-----------------------------------------------------------------------------
(* The pool's queue under the two steps that change it.                     *)
LEMMA Queueing ==
  ASSUME NEW s \in Seq(Downloads), NEW d \in Downloads
  PROVE  /\ Len(Append(s, d)) = Len(s) + 1
         /\ \A i \in 1..Len(s) : Append(s, d)[i] = s[i]
         /\ Append(s, d)[Len(s) + 1] = d
         /\ s # <<>> => /\ Len(s) > 0 /\ s[1] = Head(s)
                        /\ Len(Tail(s)) = Len(s) - 1
                        /\ \A i \in 1..Len(Tail(s)) : Tail(s)[i] = s[i + 1]
OBVIOUS

LEMMA WaitsStep ==
  ASSUME StreamInv, [Next]_vars
  PROVE  Waits'
<1> TypeOK /\ Waits
  BY DEF StreamInv
<1> USE DEF Goto
<1>1. ASSUME NEW d \in Downloads, ThreadStep(d) \/ PveStep(d) PROVE Waits'
  <2>0. waiting \in Seq(Downloads) /\ UNCHANGED reader
    BY <1>1 DEF TypeOK, ThreadStep, PveStep, Start, Fill, Write, Put, Close, Finish, Flush,
                End, Signal, Return, Piece, EndOfItem, PveFails, response
  <2>1. CASE Start(d)
    <3>1. waiting # <<>> /\ waiting[1] = d /\ waiting' = Tail(waiting)
      BY <2>0, <2>1, Queueing DEF Start
    <3>2. thread' = [thread EXCEPT ![d] = "filling"] /\ thread[d] = "pooled"
      BY <2>0, <2>1, <3>1, Queueing DEF Start, Waits
    <3>3. \A i \in 1..Len(waiting') :
            waiting'[i] = waiting[i + 1] /\ i + 1 \in 1..Len(waiting) /\ waiting'[i] # d
      BY <2>0, <3>1, Queueing DEF Waits
    <3>4. \A i, j \in 1..Len(waiting') : waiting'[i] = waiting'[j] => i = j
      BY <2>0, <3>1, <3>3, Queueing DEF Waits
    <3>5. ASSUME NEW i \in 1..Len(waiting')
          PROVE  thread'[waiting'[i]] = "pooled"
      <4>1. waiting'[i] = waiting[i + 1] /\ i + 1 \in 1..Len(waiting) /\ waiting'[i] # d
        BY <3>3
      <4>2. waiting[i + 1] \in Downloads /\ thread[waiting[i + 1]] = "pooled"
        BY <2>0, <4>1 DEF Waits
      <4> QED
        BY <3>2, <4>1, <4>2 DEF TypeOK
    <3>6. \A e \in Downloads : reader'[e] = "idle" => thread'[e] = "idle"
      BY <2>0, <3>2 DEF Waits, TypeOK
    <3> QED
      BY <3>4, <3>5, <3>6 DEF Waits
  <2>2. CASE ~Start(d)
    <3>1. UNCHANGED waiting
      BY <1>1, <2>2 DEF ThreadStep, PveStep, Fill, Write, Put, Close, Finish, Flush,
                        End, Signal, Return, Piece, EndOfItem, PveFails
    <3>2. thread[d] \notin {"idle", "pooled"}
      BY <1>1, <2>2 DEF ThreadStep, PveStep, Fill, Write, Put, Close, Finish, Flush,
                        End, Signal, Return, Piece, EndOfItem, PveFails
    <3>3. \A e \in Downloads : e # d => thread'[e] = thread[e]
      BY <1>1, Others DEF Untouched
    <3>4. \A i \in 1..Len(waiting) : waiting[i] \in Downloads
      BY <2>0
    <3> QED
      BY <2>0, <3>1, <3>2, <3>3, <3>4 DEF Waits
  <2> QED
    BY <2>1, <2>2
<1>2. ASSUME NEW d \in Downloads, Request(d) PROVE Waits'
  <2>1. /\ reader[d] = "idle" /\ thread[d] = "idle" /\ waiting \in Seq(Downloads)
        /\ waiting' = Append(waiting, d)
        /\ thread' = [thread EXCEPT ![d] = "pooled"]
        /\ reader' = [reader EXCEPT ![d] = "getting"]
    BY <1>2 DEF Request, TypeOK, Waits, Turn
  <2>2. \A i \in 1..Len(waiting) : waiting[i] \in Downloads /\ waiting[i] # d
    BY <2>1 DEF Waits
  <2>3. \A i \in 1..Len(waiting') :
          \/ i \in 1..Len(waiting) /\ waiting'[i] = waiting[i]
          \/ i = Len(waiting) + 1 /\ waiting'[i] = d
    BY <2>1, Queueing
  <2>4. \A i, j \in 1..Len(waiting') : waiting'[i] = waiting'[j] => i = j
    BY <2>2, <2>3 DEF Waits
  <2>5. \A i \in 1..Len(waiting') : thread'[waiting'[i]] = "pooled"
    BY <2>1, <2>2, <2>3 DEF Waits, TypeOK
  <2>6. \A e \in Downloads : reader'[e] = "idle" => thread'[e] = "idle"
    BY <2>1 DEF Waits, TypeOK
  <2> QED
    BY <2>4, <2>5, <2>6 DEF Waits
<1>3. ASSUME NEW d \in Downloads, LoopStep(d) PROVE Waits'
  <2>1. UNCHANGED <<waiting, thread>> /\ reader[d] # "idle"
    BY <1>3 DEF LoopStep, Get, Join, Drain, Take, LeaveJoin, CancelDrain, Leave
  <2>2. \A e \in Downloads : reader'[e] = "idle" => reader[e] = "idle"
    <3>1. reader'[d] # "idle"
      <4> USE DEF Turn, TypeOK
      <4>1. CASE Get(d)
        BY <4>1 DEF Get
      <4>2. CASE Join(d) \/ Drain(d)
        BY <4>2 DEF Join, Drain
      <4>3. CASE Take(d) \/ LeaveJoin(d) \/ CancelDrain(d)
        BY <4>3 DEF Take, LeaveJoin, CancelDrain
      <4>4. ASSUME NEW inScope \in BOOLEAN, Leave(d, inScope) PROVE reader'[d] # "idle"
        BY <4>4 DEF Leave
      <4> QED
        BY <1>3, <4>1, <4>2, <4>3, <4>4 DEF LoopStep
    <3>2. \A e \in Downloads : e # d => reader'[e] = reader[e]
      BY <1>3, Others DEF Untouched
    <3> QED
      BY <3>1, <3>2
  <2> QED
    BY <2>1, <2>2 DEF Waits
<1>4. CASE UNCHANGED vars
  BY <1>4 DEF vars, Waits, response
<1> QED
  BY NextCases, <1>1, <1>2, <1>3, <1>4

-----------------------------------------------------------------------------
(* A queue with one entry more.                                             *)
LEMMA Appending ==
  ASSUME NEW S, NEW s \in Seq(S), NEW c \in S
  PROVE  /\ Len(Append(s, c)) = Len(s) + 1
         /\ \A i \in 1..Len(s) : Append(s, c)[i] = s[i]
         /\ Append(s, c)[Len(s) + 1] = c
OBVIOUS

(* The trailer and the end of the stream count once each.                   *)
LEMMA Marks ==
  ASSUME NEW d \in Downloads
  PROVE  /\ Trailer(d) \in Nat /\ Ending(d) \in Nat
         /\ Trailer(d)' \in Nat /\ Ending(d)' \in Nat
         /\ (Flushed(d)' <=> Flushed(d)) => Trailer(d)' = Trailer(d)
         /\ (Signalled(d)' <=> Signalled(d)) => Ending(d)' = Ending(d)
         /\ ~Flushed(d) /\ Flushed(d)' => Trailer(d)' = Trailer(d) + 1
         /\ ~Signalled(d) /\ Signalled(d)' => Ending(d)' = Ending(d) + 1
BY DEF Trailer, Ending

(* A thread's step, with its queue.                                         *)
LEMMA ThreadFlow ==
  ASSUME TypeOK, NEW d \in Downloads, Threading(d), Flow(d),
         ThreadStep(d) \/ PveStep(d),
         Start(d) => thread[d] = "pooled"
  PROVE  Flow(d)'
<1> DEFINE b == build[d]
           c == build'[d]
           client == got[d]
           have == b.have
           haveNext == c.have
           read == b.read
           readNext == c.read
           size == Len(queue[d])
           sizeNext == Len(queue'[d])
           trailer == Trailer(d)
           trailerNext == Trailer(d)'
           ending == Ending(d)
           endingNext == Ending(d)'
<1>0. /\ queue[d] \in Seq({Chunk, Done}) /\ got[d] \in Nat
      /\ reader'[d] = reader[d] /\ stop'[d] = stop[d] /\ got'[d] = got[d]
      /\ thread[d] \notin {"idle", "exited"}
      /\ reader[d] # "ended" /\ reader[d] # "idle"
  <2>1. /\ reader'[d] = reader[d] /\ stop'[d] = stop[d] /\ got'[d] = got[d]
        /\ thread[d] \notin {"idle", "exited"}
    BY DEF ThreadStep, PveStep, Start, Fill, Write, Put, Close, Finish, Flush, End,
           Signal, Return, Piece, EndOfItem, PveFails, response
  <2>2. got[d] \in Nat /\ queue[d] \in Seq({Chunk, Done})
    BY DEF TypeOK
  <2> QED
    BY <2>1, <2>2 DEF Threading, Flow
<1>n. /\ client \in Nat /\ size \in Nat
      /\ have \in Nat /\ read \in Nat /\ haveNext \in Nat /\ readNext \in Nat
      /\ trailer \in Nat /\ ending \in Nat /\ trailerNext \in Nat /\ endingNext \in Nat
  <2>1. build[d] \in Builds /\ build'[d] \in Builds
    BY BuildStepTypes DEF TypeOK
  <2>2. size \in Nat
    BY <1>0
  <2> QED
    BY <1>0, <2>1, <2>2, Counts, Marks

(* Nothing is put into the queue.                                           *)
<1>q. ASSUME queue'[d] = queue[d], Signalled(d)' <=> Signalled(d),
             ~c.failed => /\ ~b.failed
                          /\ haveNext + read = have + readNext
                          /\ Flushed(d)' <=> Flushed(d)
      PROVE  Flow(d)'
  <2>1. endingNext = ending /\ (~c.failed => trailerNext = trailer)
    BY <1>q, Marks
  <2>2. CASE reader[d] \in {"getting", "holding"}
    <3>1. ASSUME ~c.failed
          PROVE  client + haveNext + size = readNext + trailer + ending
      <4>1. client + have + size = read + trailer + ending
        BY <1>q, <2>2, <3>1 DEF Flow
      <4>2. haveNext + read = have + readNext
        BY <1>q, <3>1
      <4> HIDE DEF b, c, client, have, haveNext, read, readNext, size, trailer, ending
      <4> QED
        BY <1>n, <4>1, <4>2
    <3> QED
      BY <1>0, <1>q, <2>1, <2>2, <3>1 DEF Flow
  <2>3. CASE reader[d] = "joining"
    <3>1. ASSUME ~c.failed
          PROVE  client + haveNext = readNext + trailer
      <4>1. client + have = read + trailer
        BY <1>q, <2>3, <3>1 DEF Flow
      <4>2. haveNext + read = have + readNext
        BY <1>q, <3>1
      <4> HIDE DEF b, c, client, have, haveNext, read, readNext, trailer
      <4> QED
        BY <1>n, <4>1, <4>2
    <3> QED
      BY <1>0, <1>q, <2>1, <2>3, <3>1 DEF Flow
  <2> QED
    BY <1>0, <2>2, <2>3 DEF Flow

(* A chunk, or the end, is.                                                 *)
<1>e. ASSUME reader[d] \in {"getting", "holding", "joining"},
             NEW entry \in {Chunk, Done},
             queue'[d] = Append(queue[d], entry),
             ~Signalled(d), Signalled(d)' <=> entry = Done,
             c.failed = b.failed, readNext = read,
             haveNext + trailer + ending + 1 = have + trailerNext + endingNext
      PROVE  Flow(d)'
  <2>1. /\ sizeNext = size + 1
        /\ \A i \in 1..Len(queue[d]) : queue'[d][i] = queue[d][i]
        /\ queue'[d][Len(queue[d]) + 1] = entry
    BY <1>0, <1>e, Appending
  <2>2. reader[d] \in {"getting", "holding"} /\ ~stop[d]
    BY <1>e DEF Flow
  <2>3. \A i \in 1..Len(queue[d]) : queue[d][i] # Done
    BY <1>e, <2>2 DEF Flow
  <2>4. \A i \in 1..Len(queue'[d]) :
          queue'[d][i] = Done <=> i = Len(queue'[d]) /\ entry = Done
    BY <1>0, <2>1, <2>3
  <2>5. ASSUME ~c.failed
        PROVE  client + haveNext + sizeNext = readNext + trailerNext + endingNext
    <3>1. client + have + size = read + trailer + ending
      BY <1>e, <2>2, <2>5 DEF Flow
    <3> HIDE DEF b, c, client, have, haveNext, read, readNext, size, sizeNext, trailer,
                 ending, trailerNext, endingNext
    <3> QED
      BY <1>n, <1>e, <2>1, <3>1
  <2>6. Len(queue'[d]) > 0
    BY <1>0, <2>1
  <2> QED
    BY <1>0, <1>e, <2>2, <2>4, <2>5, <2>6 DEF Flow

<1>a. CASE reader[d] \notin {"getting", "holding", "joining"}
  BY <1>0, <1>a DEF Flow
<1>b. CASE reader[d] \in {"getting", "holding", "joining"}
  <2>0. ~stop[d]
    BY <1>b DEF Flow
  <2>1. ASSUME queue'[d] = queue[d], SameRead(d), ~c.failed => ~b.failed,
               ~c.failed => (Flushed(d)' <=> Flushed(d)), Signalled(d)' <=> Signalled(d)
        PROVE  Flow(d)'
    BY <1>q, <2>1 DEF SameRead
  <2>2. CASE Start(d) \/ Fill(d) \/ Write(d) \/ Finish(d) \/ PveFails(d) \/ End(d) \/ Return(d)
    <3>1. UNCHANGED queue
      BY <2>2 DEF Start, Fill, Write, Finish, PveFails, End, Return
    <3>2. SameRead(d) /\ (c.failed = b.failed \/ c.failed = TRUE)
      BY <2>2, StepFacts DEF Same, SameFlags, Fails
    <3>3. CASE Start(d)
      BY <2>1, <3>1, <3>2, <3>3, StepFacts DEF Flushed, Signalled, Same, SameFlags
    <3>4. CASE Fill(d) \/ Write(d) \/ Finish(d)
      BY <2>0, <2>1, <3>1, <3>2, <3>4, StepFacts
      DEF Flushed, Signalled, Same, SameFlags, Moves
    <3>5. CASE PveFails(d)
      BY <2>1, <3>1, <3>2, <3>5, StepFacts DEF Flushed, Signalled, Moves, Fails
    <3>6. CASE End(d) \/ Return(d)
      BY <2>0, <2>1, <3>1, <3>2, <3>6, StepFacts
      DEF Flushed, Signalled, Same, SameFlags, Moves
    <3> QED
      BY <2>2, <3>3, <3>4, <3>5, <3>6
  <2>3. CASE EndOfItem(d) \/ Close(d)
    <3>1. UNCHANGED queue
      BY <2>3 DEF EndOfItem, Close
    <3>2. CASE EndOfItem(d)
      BY <2>1, <3>1, <3>2, ItemFacts DEF Flushed, Signalled, Same, SameFlags
    <3>3. CASE Close(d)
      <4>1. SameRead(d) /\ c.failed = b.failed /\ thread[d] = "closing"
        BY <3>3, ItemFacts
      <4>2. \/ b.failed /\ thread'[d] = "ending"
            \/ thread'[d] \in {"filling", "finishing"}
        BY <3>3, ItemFacts
      <4> QED
        BY <2>1, <3>1, <4>1, <4>2 DEF Flushed, Signalled
    <3> QED
      BY <2>3, <3>2, <3>3
  <2>4. CASE Piece(d)
    <3>1. UNCHANGED queue
      BY <2>4 DEF Piece
    <3>2. /\ thread[d] = "asking" /\ thread'[d] \in {"filling", "writing"}
          /\ c.failed = b.failed
          /\ haveNext = have + 1 /\ readNext = read + 1
      BY <2>4, ItemFacts DEF SameFlags
    <3>3. haveNext + read = have + readNext
      <4> HIDE DEF b, c, have, haveNext, read, readNext
      <4> QED
        BY <1>n, <3>2
    <3> QED
      BY <1>q, <3>1, <3>2, <3>3 DEF Flushed, Signalled
  <2>5. CASE Put(d)
    <3>1. /\ thread[d] = "putting" /\ thread'[d] \in {"filling", "writing", "closing"}
          /\ c.failed = b.failed /\ haveNext = have - 1 /\ readNext = read
      BY <2>5, ItemFacts DEF SameFlags
    <3>2. queue'[d] = Append(queue[d], Chunk)
      BY <2>5 DEF Put, TypeOK
    <3>3. /\ ~Signalled(d) /\ ~Signalled(d)' /\ trailerNext = trailer /\ endingNext = ending
      BY <3>1, Marks DEF Flushed, Signalled
    <3>4. haveNext + trailer + ending + 1 = have + trailerNext + endingNext
      <4> HIDE DEF b, c, have, haveNext, trailer, ending, trailerNext, endingNext
      <4> QED
        BY <1>n, <3>1, <3>3
    <3> QED
      BY <1>b, <1>e, <3>1, <3>2, <3>3, <3>4 DEF Chunk, Done
  <2>6. CASE Flush(d)
    <3>1. /\ Moves(d, "flushing", "ending")
          /\ c.failed = b.failed /\ haveNext = have /\ readNext = read
      BY <2>6, StepFacts DEF Same, SameFlags, SameRead
    <3>2. queue'[d] = Append(queue[d], Chunk)
      BY <2>6 DEF Flush, TypeOK
    <3>3. /\ ~Signalled(d) /\ ~Signalled(d)'
          /\ trailerNext = trailer + 1 /\ endingNext = ending
      BY <3>1, Marks DEF Flushed, Signalled, Moves
    <3>4. haveNext + trailer + ending + 1 = have + trailerNext + endingNext
      <4> HIDE DEF b, c, have, haveNext, trailer, ending, trailerNext, endingNext
      <4> QED
        BY <1>n, <3>1, <3>3
    <3> QED
      BY <1>b, <1>e, <3>1, <3>2, <3>3, <3>4 DEF Chunk, Done
  <2>7. CASE Signal(d)
    <3>1. /\ Moves(d, "signalling", "returning")
          /\ c.failed = b.failed /\ haveNext = have /\ readNext = read
      BY <2>7, StepFacts DEF Same, SameFlags, SameRead
    <3>2. queue'[d] = Append(queue[d], Done)
      BY <2>7 DEF Signal, TypeOK
    <3>3. /\ ~Signalled(d) /\ Signalled(d)'
          /\ trailerNext = trailer /\ endingNext = ending + 1
      BY <3>1, Marks DEF Flushed, Signalled, Moves
    <3>4. haveNext + trailer + ending + 1 = have + trailerNext + endingNext
      <4> HIDE DEF b, c, have, haveNext, trailer, ending, trailerNext, endingNext
      <4> QED
        BY <1>n, <3>1, <3>3
    <3> QED
      BY <1>b, <1>e, <3>1, <3>2, <3>3, <3>4 DEF Chunk, Done
  <2> QED
    BY <2>2, <2>3, <2>4, <2>5, <2>6, <2>7 DEF ThreadStep, PveStep
<1> QED
  BY <1>a, <1>b

-----------------------------------------------------------------------------
(* The reader's steps and the client's.                                     *)
LEMMA Dequeuing ==
  ASSUME NEW S, NEW s \in Seq(S), s # <<>>
  PROVE  /\ Len(s) \in Nat /\ Len(s) > 0 /\ s[1] = Head(s)
         /\ Len(Tail(s)) = Len(s) - 1
         /\ \A i \in 1..Len(Tail(s)) : Tail(s)[i] = s[i + 1]
OBVIOUS

LEMMA ReaderFlow ==
  ASSUME TypeOK, NEW d \in Downloads, Threading(d), Filed(d), Flow(d),
         LoopStep(d) \/ Request(d)
  PROVE  Threading(d)' /\ Filed(d)' /\ Flow(d)'
<1> DEFINE client == got[d]
           have == build[d].have
           read == build[d].read
           size == Len(queue[d])
           trailer == Trailer(d)
           ending == Ending(d)
<1>n. client \in Nat /\ have \in Nat /\ read \in Nat /\ trailer \in Nat /\ ending \in Nat
  BY Counts, Marks DEF TypeOK
<1>f. build'[d] = build[d]
  BY DEF LoopStep, Request, Get, Join, Drain, Take, LeaveJoin, CancelDrain, Leave
<1>1. CASE Request(d)
  <2>1. /\ reader[d] = "idle" /\ reader'[d] = "getting" /\ thread'[d] = "pooled"
        /\ queue'[d] = queue[d] /\ got'[d] = got[d] /\ stop'[d] = stop[d]
    BY <1>1 DEF Request, Goto, Turn, TypeOK
  <2>2. thread[d] = "idle" /\ queue[d] = <<>> /\ got[d] = 0 /\ ~stop[d]
    BY <2>1 DEF Flow
  <2>3. have = 0 /\ read = 0 /\ ~build[d].open /\ ~build[d].failed
    BY <2>2 DEF Filed
  <2>4. Len(queue'[d]) = 0 /\ Trailer(d)' = 0 /\ Ending(d)' = 0 /\ ~Signalled(d)'
    BY <2>1, <2>2 DEF Trailer, Ending, Flushed, Signalled
  <2>5. Threading(d)'
    BY <1>f, <2>1, <2>3 DEF Threading
  <2>6. Filed(d)'
    BY <1>f, <2>1, <2>2 DEF Filed, AtItem, AtEnd
  <2>7. Flow(d)'
    BY <1>f, <2>1, <2>2, <2>3, <2>4 DEF Flow
  <2> QED
    BY <2>5, <2>6, <2>7
<1>2. CASE LoopStep(d)
  <2>0. thread'[d] = thread[d]
    BY <1>2 DEF LoopStep, Get, Join, Drain, Take, LeaveJoin, CancelDrain, Leave
  <2>1. Filed(d)'
    BY <1>f, <2>0 DEF Filed, Items
  <2>2. /\ Trailer(d)' = trailer /\ Ending(d)' = ending
        /\ Signalled(d)' <=> Signalled(d)
    BY <2>0 DEF Trailer, Ending, Flushed, Signalled
  <2>3. CASE Get(d)
    <3>1. /\ reader[d] = "getting" /\ ~stop[d] /\ stop'[d] = stop[d]
          /\ queue[d] # <<>> /\ queue'[d] = Tail(queue[d])
          /\ queue[d] \in Seq({Chunk, Done})
      BY <2>3 DEF Get, Flow, TypeOK
    <3>2. /\ size \in Nat /\ size > 0 /\ queue[d][1] = Head(queue[d])
          /\ Len(queue'[d]) = size - 1
          /\ \A i \in 1..Len(queue'[d]) : queue'[d][i] = queue[d][i + 1]
      BY <3>1, Dequeuing
    <3>3. ASSUME ~build[d].failed
          PROVE  client + have + size = read + trailer + ending
      BY <3>1, <3>3 DEF Flow
    <3>4. CASE Head(queue[d]) = Done
      <4>1. reader'[d] = "joining" /\ got'[d] = got[d]
        BY <2>3, <3>4 DEF Get, Turn, TypeOK, Chunk, Done
      <4>2. size = 1 /\ Signalled(d)
        <5>1. 1 \in 1..Len(queue[d]) /\ queue[d][1] = Done
          BY <3>2, <3>4
        <5>2. 1 = Len(queue[d]) /\ Signalled(d)
          BY <3>1, <5>1 DEF Flow
        <5> QED
          BY <5>2
      <4>3. ASSUME ~build[d].failed
            PROVE  client + have = read + trailer
        <5>1. client + have + size = read + trailer + ending /\ size = 1 /\ ending = 1
          BY <3>3, <4>2, <4>3 DEF Ending
        <5> HIDE DEF client, have, size, read, trailer, ending
        <5> QED
          BY <1>n, <5>1
      <4>4. Flow(d)'
        BY <1>f, <2>2, <3>1, <4>1, <4>2, <4>3 DEF Flow
      <4>5. Threading(d)'
        BY <1>f, <2>0, <4>1 DEF Threading
      <4> QED
        BY <2>1, <4>4, <4>5
    <3>5. CASE Head(queue[d]) = Chunk
      <4>1. reader'[d] = "holding" /\ got'[d] = client + 1
        BY <2>3, <3>5 DEF Get, Turn, TypeOK, Chunk, Done
      <4>2. ASSUME ~build[d].failed
            PROVE  got'[d] + have + Len(queue'[d]) = read + trailer + ending
        <5> DEFINE clientNext == got'[d]
                   sizeNext == Len(queue'[d])
        <5>1. /\ client + have + size = read + trailer + ending
              /\ clientNext = client + 1 /\ sizeNext = size - 1 /\ size \in Nat /\ size > 0
          BY <3>2, <3>3, <4>1, <4>2
        <5> HIDE DEF client, clientNext, have, size, sizeNext, read, trailer, ending
        <5>2. clientNext + have + sizeNext = read + trailer + ending
          BY <1>n, <5>1
        <5> QED
          BY <5>2 DEF clientNext, sizeNext
      <4>3. ASSUME NEW i \in 1..Len(queue'[d])
            PROVE  queue'[d][i] = Done <=> i = Len(queue'[d]) /\ Signalled(d)
        <5>1. i + 1 \in 1..Len(queue[d]) /\ queue'[d][i] = queue[d][i + 1]
          BY <3>2
        <5>2. queue[d][i + 1] = Done <=> i + 1 = Len(queue[d]) /\ Signalled(d)
          BY <3>1, <5>1 DEF Flow
        <5>3. i + 1 = Len(queue[d]) <=> i = Len(queue'[d])
          BY <3>2
        <5> QED
          BY <5>1, <5>2, <5>3
      <4>4. Signalled(d) => Len(queue'[d]) > 0
        <5>1. ASSUME Signalled(d), size = 1
              PROVE  FALSE
          <6>1. 1 \in 1..Len(queue[d]) /\ 1 = Len(queue[d]) /\ queue[d][1] = Chunk
            BY <3>2, <3>5, <5>1
          <6>2. queue[d][1] = Done
            BY <3>1, <5>1, <6>1 DEF Flow
          <6> QED
            BY <6>1, <6>2 DEF Chunk, Done
        <5> DEFINE sizeNext == Len(queue'[d])
        <5>2. sizeNext = size - 1 /\ size \in Nat /\ size > 0
          BY <3>2
        <5> HIDE DEF size, sizeNext
        <5>3. Signalled(d) => sizeNext > 0
          BY <5>1, <5>2
        <5> QED
          BY <5>3 DEF sizeNext
      <4>5. Flow(d)'
        BY <1>f, <2>2, <3>1, <4>1, <4>2, <4>3, <4>4 DEF Flow
      <4>6. Threading(d)'
        BY <1>f, <2>0, <4>1 DEF Threading
      <4> QED
        BY <2>1, <4>5, <4>6
    <3> QED
      BY <2>3, <3>4, <3>5 DEF Get
  <2>4. CASE Join(d)
    <3>1. /\ reader[d] = "joining" /\ thread[d] = "exited"
          /\ reader'[d] = (IF build[d].failed THEN "aborted" ELSE "ended")
          /\ got'[d] = got[d]
      BY <2>4 DEF Join, Turn, TypeOK
    <3>2. Threading(d)'
      BY <1>f, <2>0, <3>1 DEF Threading
    <3>3. Flow(d)'
      BY <1>f, <2>0, <2>2, <3>1 DEF Flow
    <3> QED
      BY <2>1, <3>2, <3>3
  <2>5. CASE Take(d)
    <3>1. /\ reader[d] = "holding" /\ reader'[d] = "getting"
          /\ got'[d] = got[d] /\ queue'[d] = queue[d] /\ stop'[d] = stop[d]
      BY <2>5 DEF Take, Turn, TypeOK
    <3>2. Threading(d)'
      BY <1>f, <2>0, <3>1 DEF Threading
    <3>3. Flow(d)'
      BY <1>f, <2>0, <2>2, <3>1 DEF Flow
    <3> QED
      BY <2>1, <3>2, <3>3
  <2>6. CASE ~Get(d) /\ ~Join(d) /\ ~Take(d)
    <3>1. reader'[d] \in {"draining", "aborted"}
      <4> USE DEF Turn, TypeOK
      <4>1. CASE Drain(d)
        BY <4>1 DEF Drain
      <4>2. CASE LeaveJoin(d) \/ CancelDrain(d)
        BY <4>2 DEF LeaveJoin, CancelDrain
      <4>3. ASSUME NEW inScope \in BOOLEAN, Leave(d, inScope)
            PROVE  reader'[d] \in {"draining", "aborted"}
        BY <4>3 DEF Leave
      <4> QED
        BY <1>2, <2>6, <4>1, <4>2, <4>3 DEF LoopStep
    <3>2. Threading(d)' /\ Flow(d)'
      BY <1>f, <2>0, <3>1 DEF Threading, Flow
    <3> QED
      BY <2>1, <3>2
  <2> QED
    BY <2>3, <2>4, <2>5, <2>6
<1> QED
  BY <1>1, <1>2

-----------------------------------------------------------------------------
LEMMA InitInv ==
  ASSUME Init
  PROVE  StreamInv
<1>1. NewBuild \in Builds
  BY DEF NewBuild, Builds
<1>2. TypeOK
  BY <1>1 DEF Init, TypeOK, Readers, Threads
<1>3. Waits
  BY DEF Init, Waits
<1>4. ASSUME NEW d \in Downloads
      PROVE  Threading(d) /\ Filed(d) /\ Flow(d)
  BY DEF Init, Threading, Filed, Flow, NewBuild, AtItem, AtEnd
<1> QED
  BY <1>2, <1>3, <1>4 DEF StreamInv

(* A step keeps the account of its own download, and leaves the others'.    *)
LEMMA AccountStep ==
  ASSUME StreamInv, [Next]_vars, NEW e \in Downloads
  PROVE  Threading(e)' /\ Filed(e)' /\ Flow(e)'
<1>0. TypeOK /\ Waits /\ Threading(e) /\ Filed(e) /\ Flow(e)
  BY DEF StreamInv
<1>1. ASSUME NEW d \in Downloads, ThreadStep(d) \/ PveStep(d)
      PROVE  Threading(e)' /\ Filed(e)' /\ Flow(e)'
  <2>1. CASE e = d
    <3>1. Start(d) => thread[d] = "pooled"
      <4>1. waiting # <<>> => Head(waiting) = waiting[1] /\ 1 \in 1..Len(waiting)
        BY <1>0, Dequeuing DEF TypeOK
      <4> QED
        BY <1>0, <4>1 DEF Start, Waits
    <3> QED
      BY <1>0, <1>1, <2>1, <3>1, FiledStep, ThreadFlow
  <2>2. CASE e # d
    BY <1>0, <1>1, <2>2, Others, Kept
  <2> QED
    BY <2>1, <2>2
<1>2. ASSUME NEW d \in Downloads, Request(d) \/ LoopStep(d)
      PROVE  Threading(e)' /\ Filed(e)' /\ Flow(e)'
  <2>1. CASE e = d
    BY <1>0, <1>2, <2>1, ReaderFlow
  <2>2. CASE e # d
    BY <1>0, <1>2, <2>2, Others, Kept
  <2> QED
    BY <2>1, <2>2
<1>3. CASE UNCHANGED vars
  <2>1. Untouched(e)
    BY <1>3 DEF vars, response, Untouched
  <2> QED
    BY <1>0, <2>1, Kept
<1> QED
  BY NextCases, <1>1, <1>2, <1>3

(* The invariant, inductive: an account of every piece, per download, that  *)
(* holds for any number of them in the pool and any depth of the queue.     *)
THEOREM InvHolds == Spec => []StreamInv
<1>1. Init => StreamInv
  BY InitInv
<1>2. StreamInv /\ [Next]_vars => StreamInv'
  <2> SUFFICES ASSUME StreamInv, [Next]_vars
               PROVE  StreamInv'
    OBVIOUS
  <2>1. TypeOK' /\ Waits'
    BY TypeStep, WaitsStep
  <2>2. \A d \in Downloads : Threading(d)' /\ Filed(d)' /\ Flow(d)'
    BY AccountStep
  <2> QED
    BY <2>1, <2>2 DEF StreamInv
<1> QED
  BY <1>1, <1>2, PTL DEF Spec

(* Every reachable state of the streams is one of the model's.              *)
THEOREM TypeCorrect == Spec => []TypeOK
<1>1. StreamInv => TypeOK
  BY DEF StreamInv
<1> QED
  BY <1>1, InvHolds, PTL

(* A response that ends well has delivered every piece that was read, of    *)
(* every item, and the trailer, for whatever the other downloads do.        *)
THEOREM Complete == Spec => []NeverTruncated
<1>1. ASSUME StreamInv, NEW d \in Downloads, reader[d] = "ended"
      PROVE  /\ ~build[d].failed
             /\ \A i \in Items(d) : i \in build[d].added
             /\ got[d] = build[d].read + 1
  <2>1. /\ ~build[d].failed /\ thread[d] = "exited"
        /\ got[d] + build[d].have = build[d].read + Trailer(d)
    BY <1>1 DEF StreamInv, Flow
  <2>2. build[d].have = 0 /\ Items(d) \subseteq build[d].added
    BY <1>1, <2>1 DEF StreamInv, Filed, AtEnd
  <2>3. Trailer(d) = 1
    BY <2>1 DEF Trailer, Flushed
  <2>4. got[d] \in Nat /\ build[d].read \in Nat
    BY <1>1, Counts DEF StreamInv, TypeOK
  <2> QED
    BY <2>1, <2>2, <2>3, <2>4
<1>2. StreamInv => NeverTruncated
  BY <1>1 DEF NeverTruncated
<1> QED
  BY <1>2, InvHolds, PTL

(* No build leaves a download from PVE open behind it.                      *)
THEOREM Closed == Spec => []DownloadsClosed
<1>1. StreamInv => DownloadsClosed
  BY DEF StreamInv, Threading, DownloadsClosed, AtItem
<1> QED
  BY <1>1, InvHolds, PTL
=============================================================================
