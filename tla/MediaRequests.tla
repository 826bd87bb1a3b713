--------------------------- MODULE MediaRequests ----------------------------
(***************************************************************************)
(* Media requests for elements of Blob arrays (read_blob_array_media in     *)
(* backend/src/api/media.rs): through the shared slots of BlobSlots to the  *)
(* range of MediaRange.  A request for a plain Blob (read_media) is         *)
(* MediaRange's RangeRequest alone and shares no state with these.          *)
(*                                                                         *)
(* All Blobs have the one size chosen at the start, and the latest answer   *)
(* is remembered until the next step.                                       *)
(***************************************************************************)
EXTENDS BlobSlots, MediaRange

vars == <<slotsVars, rangeVars>>

Init == SlotsInit /\ RangeInit

\* An element of the array in the slot, at the range asked for.
ReadElement(t) == Answers(t) /\ RangeRequest

\* A request that goes on without an answer, or ends without a Blob.
Proceed(t) ==
    /\ Proceeds(t)
    /\ header' = Absent /\ head' = FALSE /\ reply' = Answer(Absent, FALSE)
    /\ UNCHANGED size

Next == \E t \in Task : ReadElement(t) \/ Proceed(t)

Spec == Init /\ [][Next]_vars

FairSpec == Spec /\ SlotsFairness
=============================================================================
