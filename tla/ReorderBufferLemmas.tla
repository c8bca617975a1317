------------------------ MODULE ReorderBufferLemmas ------------------------
(***************************************************************************)
(* The ring of the reorder buffer, for every depth and every driver that   *)
(* keeps its input contract: what a cycle allocates, retires and squashes, *)
(* and the invariant that it preserves.                                    *)
(***************************************************************************)
EXTENDS ReorderBuffer, TLAPS

-----------------------------------------------------------------------------
(* Ring arithmetic.                                                        *)

(* Moving a pointer moves its index, wrap bit or not.                      *)
LEMMA PtrAddIdx ==
  ASSUME NEW p \in Ptr, NEW n \in 0 .. Depth
  PROVE  PtrAdd(p, n) \in Ptr /\ (n < Depth => Idx(PtrAdd(p, n)) = TagAdd(Idx(p), n))
BY DepthAssumption DEF PtrAdd, Ptr, Idx, TagAdd

(* The distance between two pointers, and what full means for it.          *)
LEMMA CountFacts ==
  ASSUME head_ptr \in Ptr, tail_ptr \in Ptr
  PROVE  /\ HeadIdx \in Tag /\ TailIdx \in Tag /\ HeadNextIdx \in Tag /\ TailIdx2 \in Tag
         /\ Count \in 0 .. 2 * Depth - 1
         /\ Full <=> Count = Depth
         /\ Count <= Depth => TailIdx = TagAdd(HeadIdx, IF Count = Depth THEN 0 ELSE Count)
BY DepthAssumption
   DEF Ptr, Tag, HeadIdx, TailIdx, HeadNextIdx, TailIdx2, Idx, TagAdd, Count, PtrSub, Full

(* The wrap bits differ and the indices agree exactly at distance Depth.   *)
LEMMA FullDistance ==
  ASSUME NEW h \in Ptr, NEW t \in Ptr
  PROVE  /\ ((h >= Depth) # (t >= Depth) /\ Idx(h) = Idx(t)) <=> PtrSub(t, h) = Depth
         /\ Idx(h) \in Tag /\ TagAdd(Idx(h), 1) \in Tag /\ PtrSub(t, h) \in Int
BY DepthAssumption DEF PtrSub, Ptr, Idx, TagAdd, Tag

(* The age of an index relative to the head determines it.                 *)
LEMMA TagSubFacts ==
  ASSUME NEW t \in Tag, NEW u \in Tag
  PROVE  TagSub(t, u) \in Tag
BY DepthAssumption DEF Tag, TagSub

-----------------------------------------------------------------------------
(* What a cycle does under the input contract that reorder_buffer.sv       *)
(* asserts: full and partial flush exclude each other, a partial flush     *)
(* names a live entry unless it follows the head, nothing is dispatched    *)
(* under a flush or past the registered full flags.                        *)

FlushContract(fl) ==
  /\ fl.all \in BOOLEAN /\ fl.en \in BOOLEAN /\ fl.after_head \in BOOLEAN /\ fl.tag \in Tag
  /\ ~(fl.all /\ fl.en)
  /\ fl.after_head => fl.all \/ fl.en
  /\ fl.en /\ ~fl.after_head => fl.tag \in rob_valid

RequestContract(req, fl) ==
  /\ req.slot2 # NoReq => req.slot1 # NoReq
  /\ req.slot1 # NoReq => ~fl.all /\ ~fl.en /\ ~dispatch_full_q
  /\ req.slot2 # NoReq => ~dispatch_full_for_2_q

(* The invariant of the ring: the agreement of the pointers with the valid *)
(* bits, the one-hot masks and the registered full flags.                  *)
RingInv ==
  /\ head_ptr \in Ptr /\ tail_ptr \in Ptr
  /\ ValidIsWindow /\ MasksFollowHead /\ BackPressureCovers

(* Dispatch never presents more than fits, so its request is taken whole.  *)
LEMMA AllocFacts ==
  ASSUME RingInv, NEW fl, NEW req, FlushContract(fl), RequestContract(req, fl)
  PROVE  /\ AllocWidth(req, fl) = RequestWidth(req)
         /\ AllocWidth(req, fl) \in 0 .. 2
         /\ AllocWidth(req, fl) >= 1 =>
              ~fl.all /\ ~fl.en /\ Count + AllocWidth(req, fl) <= Depth
<1>1. /\ req.slot2 # NoReq => req.slot1 # NoReq
      /\ req.slot1 # NoReq => ~fl.all /\ ~fl.en /\ ~Full
      /\ req.slot2 # NoReq => ~FullFor2
  BY DEF RequestContract, RingInv, BackPressureCovers
<1>2. /\ Count \in 0 .. 2 * Depth - 1 /\ Count <= Depth
      /\ Full <=> Count = Depth
      /\ FullFor2 <=> Full \/ Count = Depth - 1
  BY CountFacts DEF RingInv, ValidIsWindow, FullFor2
<1> QED
  BY <1>1, <1>2, DepthAssumption DEF AllocWidth, AllocEn, AllocEn2, RequestWidth

(* The entries of age 0 and 1 are the head and its successor.              *)
LEMMA HeadAges ==
  ASSUME RingInv
  PROVE  \A i \in Tag : /\ TagSub(i, HeadIdx) \in Tag
                        /\ TagSub(i, HeadIdx) = 0 <=> i = HeadIdx
                        /\ TagSub(i, HeadIdx) = 1 <=> i = HeadNextIdx
<1>1. HeadIdx \in Tag
  BY CountFacts DEF RingInv
<1> QED
  BY <1>1, DepthAssumption DEF Tag, TagSub, TagAdd, HeadNextIdx

(* What retires is live, is at the head, and never meets a flush.          *)
LEMMA RetireFacts ==
  ASSUME RingInv, NEW wb, NEW fl, NEW st
  PROVE  /\ CommitWidth(wb, fl, st) \in 0 .. 2
         /\ CommitWidth(wb, fl, st) <= Count
         /\ CommitWidth(wb, fl, st) >= 1 => ~fl.all /\ ~fl.en
         /\ Committed(CommitWidth(wb, fl, st)) =
              {i \in Tag : TagSub(i, HeadIdx) < CommitWidth(wb, fl, st)}
<1> DEFINE w == CommitWidth(wb, fl, st)
<1>1. w \in 0 .. 2 /\ (w >= 1 => CommitEn(wb, fl, st)) /\ (w = 2 => Commit2Ready(wb, st))
  BY DEF CommitWidth
<1>2. CommitEn(wb, fl, st) => ~fl.all /\ ~fl.en /\ HeadIdx \in rob_valid
  BY DEF CommitEn, CommitReadyEarly, HeadReady, OnehotRead, RingInv, MasksFollowHead
<1>3. Commit2Ready(wb, st) => HeadNextIdx \in rob_valid
  BY DEF Commit2Ready, HeadNextReady, OnehotRead, RingInv, MasksFollowHead
<1>4. /\ HeadIdx \in Tag /\ HeadNextIdx \in Tag
      /\ Count \in 0 .. 2 * Depth - 1
  BY CountFacts DEF RingInv
<1>5. HeadIdx \in rob_valid => Count >= 1
  BY <1>4, HeadAges DEF RingInv, ValidIsWindow
<1>6. HeadNextIdx \in rob_valid => Count >= 2
  BY <1>4, HeadAges DEF RingInv, ValidIsWindow
<1>7. w <= Count
  BY <1>1, <1>2, <1>3, <1>4, <1>5, <1>6
<1>8. Committed(w) = {i \in Tag : TagSub(i, HeadIdx) < w}
  <2>1. /\ w = 0 => Committed(w) = {}
        /\ w = 1 => Committed(w) = {HeadIdx}
        /\ w = 2 => Committed(w) = {HeadIdx, HeadNextIdx}
    BY <1>1 DEF Committed, RingInv, MasksFollowHead
  <2>2. \A i \in Tag : TagSub(i, HeadIdx) \in 0 .. Depth - 1
    BY HeadAges DEF Tag
  <2> HIDE DEF w
  <2> QED
    BY <1>1, <1>4, <2>1, <2>2, HeadAges
<1> QED
  BY <1>1, <1>2, <1>7, <1>8

-----------------------------------------------------------------------------
(* How the window moves.                                                   *)

(* Ages after the head has moved by w.                                     *)
LEMMA AgeShift ==
  ASSUME NEW h \in Tag, NEW w \in 0 .. 2, NEW i \in Tag
  PROVE  /\ TagSub(i, TagAdd(h, w)) =
              IF TagSub(i, h) >= w THEN TagSub(i, h) - w ELSE TagSub(i, h) + Depth - w
         /\ TagSub(i, h) \in 0 .. Depth - 1
BY DepthAssumption DEF Tag, TagSub, TagAdd

(* Allocation takes the entries just behind the window.                    *)
LEMMA AllocatedAges ==
  ASSUME RingInv, NEW n \in 0 .. 2, Count + n <= Depth
  PROVE  Allocated(n) = {i \in Tag : TagSub(i, HeadIdx) >= Count /\ TagSub(i, HeadIdx) < Count + n}
<1>1. /\ HeadIdx \in Tag /\ TailIdx \in Tag /\ Count \in 0 .. Depth
      /\ n > 0 => TailIdx = TagAdd(HeadIdx, Count)
  BY CountFacts DEF RingInv, ValidIsWindow
<1>2. CASE n = 0
  BY <1>1, <1>2, HeadAges DEF Allocated, Tag
<1>3. CASE n > 0
  <2>1. \A i \in Tag : /\ TagSub(i, HeadIdx) = Count <=> i = TailIdx
                       /\ n = 2 => (TagSub(i, HeadIdx) = Count + 1 <=> i = TailIdx2)
    BY <1>1, <1>3, DepthAssumption DEF Tag, TagSub, TagAdd, TailIdx2
  <2>2. TailIdx2 \in Tag
    BY CountFacts DEF RingInv
  <2>3. Allocated(n) = IF n = 2 THEN {TailIdx, TailIdx2} ELSE {TailIdx}
    BY <1>3 DEF Allocated
  <2>4. \A i \in Tag : TagSub(i, HeadIdx) \in 0 .. Depth - 1
    BY HeadAges DEF Tag
  <2>5. n = 1 \/ n = 2
    BY <1>3
  <2> QED
    BY <1>1, <2>1, <2>2, <2>3, <2>4, <2>5
<1> QED
  BY <1>2, <1>3

(* A cycle without a flush: w retire at the head, n enter at the tail.     *)
LEMMA PlainCycleWindow ==
  ASSUME RingInv, NEW w \in 0 .. 2, w <= Count, NEW n \in 0 .. 2, Count + n <= Depth,
         head_ptr' = PtrAdd(head_ptr, w), tail_ptr' = PtrAdd(tail_ptr, n),
         rob_valid' = (rob_valid \cup Allocated(n)) \ {i \in Tag : TagSub(i, HeadIdx) < w}
  PROVE  Count' = Count + n - w /\ ValidIsWindow'
<1>1. /\ head_ptr \in Ptr /\ tail_ptr \in Ptr /\ HeadIdx \in Tag /\ Count \in 0 .. Depth
      /\ rob_valid = {i \in Tag : TagSub(i, HeadIdx) < Count}
  BY CountFacts DEF RingInv, ValidIsWindow
<1>2. Count' = Count + n - w
  BY <1>1, DepthAssumption DEF Count, PtrSub, PtrAdd, Ptr
<1>3. HeadIdx' = TagAdd(HeadIdx, w)
  BY <1>1, PtrAddIdx, DepthAssumption DEF HeadIdx
<1>4. \A i \in Tag : /\ TagSub(i, HeadIdx) \in 0 .. Depth - 1
                     /\ TagSub(i, HeadIdx') =
                          IF TagSub(i, HeadIdx) >= w THEN TagSub(i, HeadIdx) - w
                          ELSE TagSub(i, HeadIdx) + Depth - w
  BY <1>1, <1>3, AgeShift
<1>5. rob_valid' = {i \in Tag : TagSub(i, HeadIdx) < Count + n /\ TagSub(i, HeadIdx) >= w}
  BY <1>1, <1>4, AllocatedAges
<1>6. rob_valid' = {i \in Tag : TagSub(i, HeadIdx') < Count + n - w}
  BY <1>1, <1>4, <1>5, DepthAssumption
<1> QED
  BY <1>1, <1>2, <1>6, DepthAssumption DEF ValidIsWindow

(* A partial flush keeps exactly the entries up to the flush tag.          *)
LEMMA PartialFlushWindow ==
  ASSUME RingInv, NEW tag \in rob_valid,
         head_ptr' = head_ptr,
         tail_ptr' = PtrAdd(head_ptr, TagSub(tag, HeadIdx) + 1),
         rob_valid' = rob_valid \ {i \in Tag : ShouldFlushEntry(i, tag)}
  PROVE  Count' = TagSub(tag, HeadIdx) + 1 /\ ValidIsWindow'
<1>1. /\ head_ptr \in Ptr /\ HeadIdx \in Tag /\ Count \in 0 .. Depth /\ tag \in Tag
      /\ rob_valid = {i \in Tag : TagSub(i, HeadIdx) < Count}
      /\ TagSub(tag, HeadIdx) < Count
  BY CountFacts DEF RingInv, ValidIsWindow
<1>2. \A i \in Tag : /\ TagSub(i, HeadIdx) \in 0 .. Depth - 1
                     /\ ShouldFlushEntry(i, tag) <=> TagSub(i, HeadIdx) > TagSub(tag, HeadIdx)
  BY <1>1, DepthAssumption DEF ShouldFlushEntry, PtrSub, TagSub, Tag
<1>3. Count' = TagSub(tag, HeadIdx) + 1
  BY <1>1, <1>2, DepthAssumption DEF Count, PtrSub, PtrAdd, Ptr
<1>4. HeadIdx' = HeadIdx
  BY DEF HeadIdx
<1>5. rob_valid' = {i \in Tag : TagSub(i, HeadIdx) < TagSub(tag, HeadIdx) + 1}
  BY <1>1, <1>2
<1>6. TagSub(tag, HeadIdx) + 1 <= Depth
  BY <1>1, <1>2, DepthAssumption
<1> QED
  BY <1>3, <1>4, <1>5, <1>6 DEF ValidIsWindow

(* A flush that keeps nothing leaves an empty window.                      *)
LEMMA EmptyWindow ==
  ASSUME head_ptr \in Ptr, head_ptr' = head_ptr, tail_ptr' = head_ptr, rob_valid' = {}
  PROVE  Count' = 0 /\ ValidIsWindow'
<1>1. Count' = 0
  BY DepthAssumption DEF Count, PtrSub, Ptr
<1>2. HeadIdx' \in Tag
  BY DepthAssumption DEF HeadIdx, Idx, Ptr, Tag
<1>3. \A i \in Tag : TagSub(i, HeadIdx') \in Tag
  BY <1>2, TagSubFacts
<1> QED
  BY <1>1, <1>3, DepthAssumption DEF ValidIsWindow, Tag

-----------------------------------------------------------------------------
(* A cycle preserves the invariant.                                        *)

(* A cycle preserves the window, by the three kinds of flush.              *)
LEMMA WindowStep ==
  ASSUME RingInv, NEW fl, NEW req, FlushContract(fl), RequestContract(req, fl), NEW wb, NEW st,
         Clock(req, wb, fl, st)
  PROVE  /\ ValidIsWindow' /\ head_ptr' \in Ptr /\ tail_ptr' \in Ptr
         /\ ~fl.all /\ ~fl.en =>
              Count' = Count + RequestWidth(req) - CommitWidth(wb, fl, st)
         /\ fl.all \/ fl.en => Count' = PtrSub(FlushTail(fl), head_ptr)
<1> DEFINE w == CommitWidth(wb, fl, st)
           n == AllocWidth(req, fl)
<1>1. /\ head_ptr' = PtrAdd(head_ptr, w)
      /\ tail_ptr' = NextTail(fl, n)
      /\ rob_valid' = ((rob_valid \ Flushed(fl)) \cup Allocated(n)) \ Committed(w)
  BY DEF Clock, NextValid
<1>2. /\ w \in 0 .. 2 /\ w <= Count
      /\ w >= 1 => ~fl.all /\ ~fl.en
      /\ Committed(w) = {i \in Tag : TagSub(i, HeadIdx) < w}
  BY RetireFacts
<1>3. n \in 0 .. 2 /\ n = RequestWidth(req) /\ (n >= 1 => ~fl.all /\ ~fl.en /\ Count + n <= Depth)
  BY AllocFacts
<1>4. /\ head_ptr \in Ptr /\ tail_ptr \in Ptr /\ rob_valid \subseteq Tag
      /\ HeadIdx \in Tag /\ Count \in 0 .. Depth
  BY CountFacts DEF RingInv, ValidIsWindow
<1>5. /\ fl.all \in BOOLEAN /\ fl.en \in BOOLEAN /\ fl.after_head \in BOOLEAN /\ fl.tag \in Tag
      /\ fl.en /\ ~fl.after_head => fl.tag \in rob_valid
      /\ ~(fl.all /\ fl.en)
  BY DEF FlushContract
<1> HIDE DEF w, n
<1>6. CASE ~fl.all /\ ~fl.en
  <2>1. Flushed(fl) = {} /\ NextTail(fl, n) = PtrAdd(tail_ptr, n)
    BY <1>6 DEF Flushed, NextTail
  <2>2. rob_valid' = (rob_valid \cup Allocated(n)) \ {i \in Tag : TagSub(i, HeadIdx) < w}
    BY <1>1, <1>2, <2>1
  <2>3. Count + n <= Depth
    BY <1>3, <1>4
  <2>4. Count' = Count + n - w /\ ValidIsWindow'
    BY <1>1, <1>2, <1>3, <2>1, <2>2, <2>3, PlainCycleWindow
  <2>5. head_ptr' \in Ptr /\ tail_ptr' \in Ptr
    BY <1>1, <1>2, <1>3, <1>4, <2>1, PtrAddIdx, DepthAssumption
  <2> QED
    BY <1>3, <1>6, <2>4, <2>5 DEF w
<1>7. CASE fl.all \/ fl.en
  <2>1. w = 0 /\ n = 0
    BY <1>2, <1>3, <1>7
  <2>2. /\ head_ptr' = head_ptr
        /\ tail_ptr' = FlushTail(fl)
        /\ rob_valid' = rob_valid \ Flushed(fl)
    BY <1>1, <1>4, <1>7, <2>1, DepthAssumption
       DEF PtrAdd, Ptr, NextTail, Allocated, Committed
  <2>3. CASE fl.all \/ fl.after_head
    <3>1. Flushed(fl) = Tag /\ FlushTail(fl) = head_ptr
      BY <1>7, <2>3 DEF Flushed, FlushTail
    <3>2. Count' = 0 /\ ValidIsWindow'
      BY <1>4, <2>2, <3>1, EmptyWindow
    <3>3. PtrSub(FlushTail(fl), head_ptr) = 0
      BY <1>4, <3>1 DEF PtrSub, Ptr
    <3> QED
      BY <1>4, <1>7, <2>2, <3>1, <3>2, <3>3
  <2>4. CASE ~fl.all /\ ~fl.after_head
    <3>1. /\ fl.tag \in rob_valid
          /\ Flushed(fl) = {i \in Tag : ShouldFlushEntry(i, fl.tag)}
          /\ FlushTail(fl) = PtrAdd(head_ptr, TagSub(fl.tag, HeadIdx) + 1)
      BY <1>5, <1>7, <2>4 DEF Flushed, FlushTail
    <3>2. Count' = TagSub(fl.tag, HeadIdx) + 1 /\ ValidIsWindow'
      BY <2>2, <3>1, PartialFlushWindow
    <3>3. TagSub(fl.tag, HeadIdx) \in 0 .. Depth - 1
      BY <1>4, <1>5, TagSubFacts DEF Tag
    <3>4. /\ PtrSub(FlushTail(fl), head_ptr) = TagSub(fl.tag, HeadIdx) + 1
          /\ FlushTail(fl) \in Ptr
      BY <1>4, <3>1, <3>3, DepthAssumption DEF PtrSub, PtrAdd, Ptr
    <3> QED
      BY <1>4, <1>7, <2>2, <3>2, <3>4
  <2> QED
    BY <1>5, <2>3, <2>4
<1> QED
  BY <1>5, <1>6, <1>7

(* The one-hot images advance with the head pointer.                       *)
LEMMA MaskStep ==
  ASSUME RingInv, NEW fl, NEW req, NEW wb, NEW st, Clock(req, wb, fl, st)
  PROVE  MasksFollowHead'
<1> DEFINE w == CommitWidth(wb, fl, st)
<1>1. /\ head_ptr' = PtrAdd(head_ptr, w)
      /\ head_clear_mask' = {TagAdd(i, w) : i \in head_clear_mask}
      /\ head_next_clear_mask' = {TagAdd(i, w) : i \in head_next_clear_mask}
  BY DEF Clock, AdvanceOnehotMask
<1>2. w \in 0 .. 2
  BY DEF CommitWidth
<1>3. head_ptr \in Ptr /\ HeadIdx \in Tag
  BY CountFacts DEF RingInv
<1> HIDE DEF w
<1>4. HeadIdx' = TagAdd(HeadIdx, w)
  BY <1>1, <1>2, <1>3, PtrAddIdx, DepthAssumption DEF HeadIdx
<1>5. HeadNextIdx' = TagAdd(HeadNextIdx, w)
  BY <1>2, <1>3, <1>4, DepthAssumption DEF HeadNextIdx, TagAdd, Tag
<1>6. head_clear_mask = {HeadIdx} /\ head_next_clear_mask = {HeadNextIdx}
  BY DEF RingInv, MasksFollowHead
<1>7. head_clear_mask' = {TagAdd(HeadIdx, w)} /\ head_next_clear_mask' = {TagAdd(HeadNextIdx, w)}
  BY <1>1, <1>6
<1> QED
  BY <1>4, <1>5, <1>7 DEF MasksFollowHead

(* The next flags cover the next occupancy: they count what enters and not *)
(* what retires.                                                           *)
LEMMA BackPressureStep ==
  ASSUME RingInv, NEW fl, NEW req, FlushContract(fl), RequestContract(req, fl), NEW wb, NEW st,
         Clock(req, wb, fl, st)
  PROVE  BackPressureCovers'
<1> DEFINE w == CommitWidth(wb, fl, st)
           n == RequestWidth(req)
<1>1. /\ dispatch_full_q' = NextDispatchFull(req, fl)
      /\ dispatch_full_for_2_q' = NextDispatchFullFor2(req, fl)
  BY DEF Clock
<1>2. w \in 0 .. 2
  BY RetireFacts
<1>3. n \in 0 .. 2 /\ Count \in 0 .. Depth /\ Count + n <= Depth
  BY AllocFacts, CountFacts DEF RingInv, ValidIsWindow
<1>4. /\ head_ptr' \in Ptr /\ tail_ptr' \in Ptr
      /\ ~fl.all /\ ~fl.en => Count' = Count + n - w
      /\ fl.all \/ fl.en => Count' = PtrSub(FlushTail(fl), head_ptr)
  BY WindowStep
<1>5. (Full' <=> Count' = Depth) /\ (FullFor2' <=> Full' \/ Count' = Depth - 1)
  <2>1. Full' <=> Count' = Depth
    BY <1>4, FullDistance DEF Full, Count, HeadIdx, TailIdx
  <2> QED
    BY <2>1 DEF FullFor2
<1> HIDE DEF w
<1>6. CASE fl.all \/ fl.en
  <2>1. /\ Full' => PtrSub(FlushTail(fl), head_ptr) = Depth
        /\ FullFor2' => PtrSub(FlushTail(fl), head_ptr) >= Depth - 1
    BY <1>4, <1>5, <1>6, DepthAssumption
  <2> QED
    BY <1>1, <1>6, <2>1 DEF BackPressureCovers, NextDispatchFull, NextDispatchFullFor2
<1>7. CASE ~fl.all /\ ~fl.en
  <2>1. /\ Full' => Count = Depth - n
        /\ FullFor2' => Count >= Depth - 1 - n
    BY <1>2, <1>3, <1>4, <1>5, <1>7, DepthAssumption
  <2> QED
    BY <1>1, <1>7, <2>1 DEF BackPressureCovers, NextDispatchFull, NextDispatchFullFor2
<1> QED
  BY <1>6, <1>7

(* Reset establishes the invariant.                                        *)
LEMMA RingReset == ASSUME RobInit PROVE RingInv
<1> USE DEF RobInit
<1>1. HeadIdx = 0 /\ HeadNextIdx = 1 /\ Count = 0 /\ ~Full /\ ~FullFor2
  BY DepthAssumption
     DEF Idx, HeadIdx, HeadNextIdx, TagAdd, Count, PtrSub, Full, FullFor2, TailIdx
<1>2. ValidIsWindow
  <2>1. \A i \in Tag : ~(TagSub(i, 0) < 0)
    BY DepthAssumption DEF TagSub, Tag
  <2> QED
    BY <1>1, <2>1, DepthAssumption DEF ValidIsWindow
<1>3. head_ptr \in Ptr /\ tail_ptr \in Ptr
  BY DepthAssumption DEF Ptr
<1> QED
  BY <1>1, <1>2, <1>3 DEF RingInv, MasksFollowHead, BackPressureCovers

(* Every cycle within the contract preserves it.                           *)
LEMMA RingClock ==
  ASSUME RingInv, NEW fl, NEW req, FlushContract(fl), RequestContract(req, fl), NEW wb, NEW st,
         Clock(req, wb, fl, st)
  PROVE  RingInv'
BY WindowStep, MaskStep, BackPressureStep DEF RingInv

(* So does a cycle in which the clock of the buffer does not tick.         *)
LEMMA RingStutter == ASSUME RingInv, UNCHANGED robVars PROVE RingInv'
BY DEF robVars, RingInv, ValidIsWindow, MasksFollowHead, BackPressureCovers,
       Count, Full, FullFor2, HeadIdx, HeadNextIdx, TailIdx

(* Allocation overwrites no live entry.                                    *)
LEMMA LiveNotAllocated ==
  ASSUME RingInv, NEW fl, NEW req, FlushContract(fl), RequestContract(req, fl)
  PROVE  rob_valid \cap Allocated(AllocWidth(req, fl)) = {}
<1> DEFINE n == AllocWidth(req, fl)
<1>1. n \in 0 .. 2 /\ (n >= 1 => Count + n <= Depth)
  BY AllocFacts
<1> HIDE DEF n
<1>2. CASE n = 0
  BY <1>2 DEF Allocated, n
<1>3. CASE n >= 1
  <2>1. Allocated(n) = {i \in Tag : TagSub(i, HeadIdx) >= Count /\ TagSub(i, HeadIdx) < Count + n}
    BY <1>1, <1>3, AllocatedAges
  <2>2. rob_valid = {i \in Tag : TagSub(i, HeadIdx) < Count}
    BY DEF RingInv, ValidIsWindow
  <2>3. Count \in Int /\ \A i \in Tag : TagSub(i, HeadIdx) \in Int
    BY CountFacts, HeadAges DEF RingInv, Tag
  <2> QED
    BY <2>1, <2>2, <2>3 DEF n
<1> QED
  BY <1>1, <1>2, <1>3

-----------------------------------------------------------------------------
(* The serializer.                                                         *)

(* A class that may wait in a state of the serializer.                     *)
WaitsIn(cls, state) ==
  /\ state = "WAIT_SQ"      => cls \in {"fence", "fence_i"}
  /\ state = "FENCE_I_SYNC" => cls = "fence_i"
  /\ state = "CSR_EXEC"     => cls \in CsrClasses
  /\ state = "MRET_EXEC"    => cls = "mret"
  /\ state = "WFI_WAIT"     => cls = "wfi"

(* A waiting serializer waits for the head.                                *)
SerialHead ==
  /\ serial_state \in SerialStates
  /\ serial_state # "IDLE" => HeadIdx \in rob_valid /\ WaitsIn(rob_class[HeadIdx], serial_state)

(* The serializer's next state is a state.                                 *)
LEMMA SerialStep ==
  ASSUME serial_state \in SerialStates, NEW wb, NEW fl, NEW st
  PROVE  SerialStateNext(wb, fl, st) \in SerialStates
<1>1. SerialEntry(st) \in SerialStates
  BY DEF SerialEntry, SerialStates
<1> QED
  BY <1>1 DEF SerialStateNext, SerialStates

(* The one-hot reads see the head entry.                                   *)
LEMMA HeadOnly ==
  ASSUME RingInv
  PROVE  /\ \A cls : HeadIs(cls) <=> rob_class[HeadIdx] \in cls
         /\ \A S : OnehotRead(S, head_clear_mask) <=> HeadIdx \in S
BY DEF RingInv, MasksFollowHead, HeadIs, OnehotRead

(* A head that makes the idle serializer wait also stalls commit.          *)
LEMMA EntryStalls ==
  ASSUME RingInv, NEW st, SerialEntry(st) # "IDLE"
  PROVE  IdleStall(st) /\ WaitsIn(rob_class[HeadIdx], SerialEntry(st))
<1> DEFINE cls == rob_class[HeadIdx]
<1>1. \A S : HeadIs(S) <=> cls \in S
  BY HeadOnly
<1> HIDE DEF cls
<1>2. CASE HeadException(st)
  BY <1>2 DEF SerialEntry, IdleStall, WaitsIn
<1>3. CASE ~HeadException(st)
  BY <1>1, <1>3, Zenon DEF SerialEntry, IdleStall, WaitsIn, CsrClasses, cls
<1> QED
  BY <1>2, <1>3

(* While the serializer goes on waiting nothing retires.                   *)
LEMMA WaitingHeadStays ==
  ASSUME RingInv, SerialHead, NEW wb, NEW fl, NEW st, SerialStateNext(wb, fl, st) # "IDLE"
  PROVE  /\ CommitWidth(wb, fl, st) = 0
         /\ HeadIdx \in rob_valid
         /\ WaitsIn(rob_class[HeadIdx], SerialStateNext(wb, fl, st))
         /\ serial_state = "IDLE" => ~fl.en
<1> DEFINE cls == rob_class[HeadIdx]
<1>1. \A S : HeadIs(S) <=> cls \in S
  BY HeadOnly
<1>2. serial_state # "IDLE" => HeadIdx \in rob_valid /\ WaitsIn(cls, serial_state)
  BY DEF SerialHead
<1>3. CommitStall(st) => CommitWidth(wb, fl, st) = 0
  BY DEF CommitWidth, CommitEn
<1>4. CASE serial_state = "IDLE"
  <2>1. HeadEnters(wb, fl, st) /\ SerialStateNext(wb, fl, st) = SerialEntry(st)
    BY <1>4 DEF SerialStateNext
  <2>2. ~fl.en /\ HeadIdx \in rob_valid
    BY <2>1, HeadOnly DEF HeadEnters, HeadReady
  <2>3. IdleStall(st) /\ WaitsIn(cls, SerialEntry(st))
    BY <2>1, EntryStalls
  <2>4. CommitStall(st)
    BY <1>4, <2>3 DEF CommitStall
  <2> QED
    BY <1>3, <2>1, <2>2, <2>3, <2>4
<1>5. CASE serial_state # "IDLE"
  <2>1. CommitStall(st) /\ WaitsIn(cls, SerialStateNext(wb, fl, st))
    <3> HIDE DEF cls
    <3>1. CASE serial_state = "WAIT_SQ"
      BY <1>1, <1>2, <3>1 DEF CommitStall, SerialStateNext, WaitsIn
    <3>2. CASE serial_state = "FENCE_I_SYNC"
      BY <1>2, <3>2 DEF CommitStall, SerialStateNext, WaitsIn
    <3>3. CASE serial_state = "CSR_EXEC"
      BY <1>2, <3>3 DEF CommitStall, SerialStateNext, WaitsIn
    <3>4. CASE serial_state = "MRET_EXEC"
      BY <1>2, <3>4 DEF CommitStall, SerialStateNext, WaitsIn
    <3>5. CASE serial_state = "WFI_WAIT"
      BY <1>2, <3>5 DEF CommitStall, SerialStateNext, WaitsIn
    <3>6. CASE serial_state = "TRAP_WAIT"
      BY <1>2, <3>6 DEF CommitStall, SerialStateNext, WaitsIn
    <3> QED
      BY <1>5, <3>1, <3>2, <3>3, <3>4, <3>5, <3>6 DEF SerialHead, SerialStates
  <2> QED
    BY <1>2, <1>3, <1>5, <2>1
<1> QED
  BY <1>4, <1>5

(* A serializing head retires only from its own state of the serializer.   *)
LEMMA SerialRetires ==
  ASSUME RingInv, SerialHead, NEW wb, NEW fl, NEW st, CommitWidth(wb, fl, st) >= 1
  PROVE  /\ rob_class[HeadIdx] = "fence_i" => serial_state = "FENCE_I_SYNC"
         /\ rob_class[HeadIdx] \in CsrClasses => serial_state = "CSR_EXEC"
         /\ rob_class[HeadIdx] = "mret" => serial_state = "MRET_EXEC" /\ st.mret_done
<1> DEFINE cls == rob_class[HeadIdx]
<1>1. ~CommitStall(st)
  BY DEF CommitWidth, CommitEn
<1>2. \A S : HeadIs(S) <=> cls \in S
  BY HeadOnly
<1> HIDE DEF cls
<1> SUFFICES ASSUME cls \in CsrClasses \cup {"mret", "fence_i"}
             PROVE  /\ cls = "fence_i" => serial_state = "FENCE_I_SYNC"
                    /\ cls \in CsrClasses => serial_state = "CSR_EXEC"
                    /\ cls = "mret" => serial_state = "MRET_EXEC" /\ st.mret_done
  BY DEF cls
<1>3. serial_state # "IDLE"
  BY <1>1, <1>2 DEF CommitStall, IdleStall
<1>4. serial_state # "TRAP_WAIT" /\ (serial_state = "MRET_EXEC" => st.mret_done)
      /\ (serial_state = "WAIT_SQ" => cls # "fence_i")
  BY <1>1, <1>2 DEF CommitStall
<1>5. WaitsIn(cls, serial_state)
  BY <1>3 DEF SerialHead, cls
<1> QED
  BY <1>3, <1>4, <1>5 DEF WaitsIn, CsrClasses, SerialHead, SerialStates

(* The serializer goes on waiting for the same head, unless the head was   *)
(* a retired misprediction's to squash.                                    *)
LEMMA SerialHeadStep ==
  ASSUME RingInv, SerialHead, NEW fl, NEW req, FlushContract(fl), RequestContract(req, fl),
         fl.after_head => serial_state = "IDLE", NEW wb, NEW st, Clock(req, wb, fl, st)
  PROVE  /\ SerialHead'
         /\ serial_state' # "IDLE" =>
              /\ ~fl.all /\ serial_state' = SerialStateNext(wb, fl, st)
              /\ CommitWidth(wb, fl, st) = 0 /\ HeadIdx' = HeadIdx
              /\ HeadIdx \in rob_valid \ Allocated(AllocWidth(req, fl))
<1> DEFINE alloc == Allocated(AllocWidth(req, fl))
<1>1. serial_state' = IF fl.all THEN "IDLE" ELSE SerialStateNext(wb, fl, st)
  BY DEF Clock
<1>2. serial_state' \in SerialStates
  BY <1>1, SerialStep DEF SerialHead, SerialStates
<1>3. ASSUME serial_state' # "IDLE"
      PROVE  /\ ~fl.all /\ serial_state' = SerialStateNext(wb, fl, st)
             /\ CommitWidth(wb, fl, st) = 0 /\ HeadIdx' = HeadIdx
             /\ HeadIdx \in rob_valid \ alloc
             /\ HeadIdx' \in rob_valid' /\ WaitsIn(rob_class'[HeadIdx'], serial_state')
  <2>1. ~fl.all /\ serial_state' = SerialStateNext(wb, fl, st)
    BY <1>1, <1>3
  <2>2. /\ CommitWidth(wb, fl, st) = 0 /\ ~(fl.en /\ fl.after_head)
        /\ HeadIdx \in rob_valid /\ WaitsIn(rob_class[HeadIdx], serial_state')
    BY <1>3, <2>1, WaitingHeadStays
  <2>3. /\ head_ptr' = PtrAdd(head_ptr, 0)
        /\ rob_valid' = NextValid(fl, alloc, Committed(0))
        /\ rob_class' = NextClass(req, alloc)
    BY <2>2 DEF Clock
  <2>4. HeadIdx' = HeadIdx
    <3>1. PtrAdd(head_ptr, 0) = head_ptr
      BY DepthAssumption DEF RingInv, Ptr, PtrAdd
    <3> QED
      BY <2>3, <3>1 DEF HeadIdx
  <2>5. HeadIdx \notin Flushed(fl)
    <3>1. HeadIdx \in Tag
      BY CountFacts DEF RingInv
    <3>2. \A t \in Tag : ~ShouldFlushEntry(HeadIdx, t)
      BY <3>1, DepthAssumption DEF ShouldFlushEntry, PtrSub, Tag
    <3> QED
      BY <2>1, <2>2, <3>1, <3>2 DEF Flushed, FlushContract
  <2>6. HeadIdx \in Tag \ alloc
    BY <2>2, LiveNotAllocated, CountFacts DEF RingInv
  <2>7. HeadIdx \in rob_valid' /\ rob_class'[HeadIdx] = rob_class[HeadIdx]
    BY <2>2, <2>3, <2>5, <2>6 DEF NextValid, Committed, NextClass
  <2> QED
    BY <2>1, <2>2, <2>4, <2>6, <2>7
<1> QED
  BY <1>2, <1>3 DEF SerialHead

=============================================================================
