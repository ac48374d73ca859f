---------------------------- MODULE ImportBatches ----------------------------
(***************************************************************************)
(* The batches an import is staged in (_bounded_import_batches in          *)
(* src/geodata.py): a generator that takes features from a decoder and     *)
(* yields batches bounded by their number and by their bytes.  A feature   *)
(* is its size and its place among those taken, a batch the places from    *)
(* the end of the one before to its own end.                               *)
(***************************************************************************)
EXTENDS Naturals, Sequences

CONSTANTS Sizes,        \* of features, in bytes
          MaxFeatures, MaxBytes,
          MaxLength     \* bound: features of an import

ASSUME BatchAssumption ==
    /\ Sizes \subseteq Nat \ {0}
    /\ MaxFeatures \in Nat \ {0} /\ MaxBytes \in Nat \ {0} /\ MaxLength \in Nat

VARIABLES
    taken,       \* features taken so far
    bytes,       \* the bytes of the first i of them
    ends,        \* where the batches yielded so far end
    closed       \* the decoder has no more

batches == <<taken, bytes, ends, closed>>

\* Where the i-th of the batches that end at e begins.
Begin(e, i) == IF i = 1 THEN 0 ELSE e[i - 1]

\* Where the batch in hand begins.
Open(e) == Begin(e, Len(e) + 1)

BatchInit ==
    taken = 0 /\ bytes = [i \in {0} |-> 0] /\ ends = <<>> /\ closed = FALSE

\* The feature that makes it so many bytes does not fit behind the n in hand.
Full(n, size) == n >= MaxFeatures \/ size > MaxBytes

\* Mutant: a batch is also yielded one feature early.
ReadyEarly(n, size) == n + 1 >= MaxFeatures \/ size >= MaxBytes

\* The batch has reached a limit.
Ready(n, size) == n >= MaxFeatures \/ size >= MaxBytes

\* A batch in hand that the feature does not fit into is yielded without it.
MadeRoom(size) ==
    IF /\ taken /= Open(ends)
       /\ Full(taken - Open(ends), (bytes[taken] + size) - bytes[Open(ends)])
      THEN Append(ends, taken) ELSE ends

\* One that has reached a limit with it is yielded at once.
Cut(e, n, size) ==
    IF Ready(n - Open(e), size - bytes[Open(e)]) THEN Append(e, n) ELSE e

Take(size) ==
    /\ ~closed /\ taken < MaxLength
    /\ taken' = taken + 1
    /\ bytes' = [i \in 0 .. taken + 1 |->
                   IF i <= taken THEN bytes[i] ELSE bytes[taken] + size]
    /\ ends' = Cut(MadeRoom(size), taken + 1, bytes[taken] + size)
    /\ UNCHANGED closed

\* What is left is yielded last.
Close ==
    /\ ~closed /\ closed' = TRUE
    /\ ends' = IF Open(ends) = taken THEN ends ELSE Append(ends, taken)
    /\ UNCHANGED <<taken, bytes>>

BatchNext == (\E size \in Sizes : Take(size)) \/ Close

BatchSpec == BatchInit /\ [][BatchNext]_batches

-----------------------------------------------------------------------------
(* No batch is empty, and when the import ends no feature is left over; a  *)
(* batch exceeds a limit only with a single feature, and none but the last *)
(* ends although the next feature would have fitted: what is yielded is    *)
(* determined by the features, so that a run that is started anew finds    *)
(* its checkpoints in the same places (_bounded_import_batches).           *)
BatchesAreCut ==
    /\ closed => Open(ends) = taken
    /\ \A i \in 1 .. Len(ends) :
         LET first == Begin(ends, i)
             last  == ends[i]
         IN  /\ last - first \in 1 .. MaxFeatures
             /\ bytes[last] - bytes[first] <= MaxBytes \/ last - first = 1
             /\ last < taken =>
                  \/ last - first = MaxFeatures
                  \/ bytes[last + 1] - bytes[first] > MaxBytes
=============================================================================
