-------------------------- MODULE SeparatePartsProofs --------------------------
(***************************************************************************)
(* The small parts: no multipart upload is lost or taken from its session, *)
(* for every set of requests and every number of mishaps; the batches of   *)
(* an import keep their limits and do not end early, whatever the sizes of *)
(* its features and the limits are; a run is purged as a whole, for every  *)
(* set of runs; the squares and locators of a point and of lines are those *)
(* they touch, and conversions of a geometry keep them, on every grid.     *)
(***************************************************************************)
EXTENDS UploadCreation, ImportBatches, Retention, EntityGeometry,
        FiniteSetTheorems, SequenceTheorems, WellFoundedInduction, TLAPS

-----------------------------------------------------------------------------
\* UploadCreation.

Steps == {"idle", "open", "insert", "abort"}

CreationTypeOK ==
    /\ row \in Nat /\ opened \in Nat /\ open \subseteq Nat
    /\ creator \in [Creators -> [step : Steps, multipart : Nat]]
    /\ mishaps \in [Mishaps -> Nat]

\* Uploads are numbered: what is to be opened next has no number yet.
Numbered ==
    /\ row <= opened
    /\ \A m \in open : m \in 1 .. opened
    /\ \A c \in Creators : creator[c].multipart <= opened

\* A request that has opened an upload is the only one that has it, and it is
\* still open.
Holders ==
    /\ \A c \in Creators :
         /\ creator[c].multipart = 0 <=> creator[c].step \in {"idle", "open"}
         /\ creator[c].multipart /= 0 => creator[c].multipart \in open
    /\ \A c, d \in Creators :
         creator[c].multipart = creator[d].multipart /\ c /= d
           => creator[c].multipart = 0

\* The session's upload is in nobody's hands, unless an answer was lost.
RowApart ==
    mishaps["lost"] = 0 /\ row /= 0 =>
      /\ row \in open
      /\ \A c \in Creators : creator[c].multipart /= row

\* Every open upload is the session's or a request's, unless one has died.
Owned ==
    mishaps["crash"] = 0 =>
      \A m \in open : m = row \/ \E c \in Creators : creator[c].multipart = m

CreationInv == CreationTypeOK /\ Numbered /\ Holders /\ RowApart /\ Owned

-----------------------------------------------------------------------------
(* A mishap leaves the counts numbers, and those that are zero were zero.  *)
LEMMA MishapCounts ==
    ASSUME CreationTypeOK, NEW k \in Mishaps, Mishap(k)
    PROVE  /\ mishaps' \in [Mishaps -> Nat]
           /\ mishaps'[k] /= 0
           /\ \A j \in Mishaps : mishaps'[j] = 0 => mishaps[j] = 0
  BY DEF CreationTypeOK, Mishap

(* A request that goes on keeps what it has; nothing becomes of the others *)
(* (create_import_upload).                                                 *)
LEMMA GoesOn ==
    ASSUME CreationTypeOK, NEW c \in Creators, NEW s \in Steps, Then(c, s)
    PROVE  /\ creator' \in [Creators -> [step : Steps, multipart : Nat]]
           /\ creator'[c] = [step |-> s, multipart |-> creator[c].multipart]
           /\ \A d \in Creators \ {c} : creator'[d] = creator[d]
  BY DEF CreationTypeOK, Then

(* A request that is done has nothing; nothing becomes of the others.      *)
LEMMA IsDone ==
    ASSUME CreationTypeOK, NEW c \in Creators, Done(c)
    PROVE  /\ creator' \in [Creators -> [step : Steps, multipart : Nat]]
           /\ creator'[c] = [step |-> "idle", multipart |-> 0]
           /\ \A d \in Creators \ {c} : creator'[d] = creator[d]
  BY DEF CreationTypeOK, Done, NotAsked, Steps

(* The invariant holds before any request (create_import_upload).          *)
LEMMA CreationStarts == CreationInit => CreationInv
  BY DEF CreationInit, CreationInv, CreationTypeOK, Numbered, Holders,
     RowApart,
         Owned, Steps, NotAsked, NoSession, Mishaps

(* Every step of a request, mishaps included, and the purge keep it        *)
(* (create_import_upload, expire_upload_sessions).                         *)
LEMMA CreationGoesOn == CreationInv /\ [CreationNext]_creation => CreationInv'
<1> SUFFICES ASSUME CreationInv, [CreationNext]_creation PROVE CreationInv'
  OBVIOUS
<1> USE DEF CreationInv, NoSession, Doing
<1> {"insert", "abort", "open", "idle"} \subseteq Steps /\ {"crash", "error", "lost"} \subseteq Mishaps
  BY DEF Steps, Mishaps
<1>1. ASSUME NEW c \in Creators, LookUp(c) PROVE CreationInv'
  <2>1. /\ creator' \in [Creators -> [step : Steps, multipart : Nat]]
        /\ creator'[c] = [step |-> "open", multipart |-> creator[c].multipart]
        /\ \A d \in Creators \ {c} : creator'[d] = creator[d]
    BY <1>1, GoesOn DEF LookUp
  <2>2. creator[c].step = "idle" /\ UNCHANGED <<row, open, opened, mishaps>>
    BY <1>1 DEF LookUp
  <2>3. CreationTypeOK'
    BY <2>1, <2>2 DEF CreationTypeOK
  <2>4. Numbered'
    BY <2>1, <2>2 DEF CreationTypeOK, Numbered
  <2>5. Holders'
    BY <2>1, <2>2 DEF CreationTypeOK, Numbered, Holders
  <2>6. RowApart'
    BY <2>1, <2>2 DEF CreationTypeOK, Numbered, Holders, RowApart
  <2>7. Owned'
    BY <2>1, <2>2 DEF CreationTypeOK, Holders, Owned
  <2>8. QED
    BY <2>3, <2>4, <2>5, <2>6, <2>7
<1>2. ASSUME NEW c \in Creators, OpenMultipart(c) PROVE CreationInv'
  <2>1. /\ creator[c].step = "open" /\ opened' = opened + 1 /\ opened' \in Nat
        /\ open' = open \cup {opened'} /\ UNCHANGED <<row, mishaps>>
    BY <1>2 DEF OpenMultipart, CreationTypeOK
  <2>2. /\ creator' \in [Creators -> [step : Steps, multipart : Nat]]
        /\ creator'[c] = [step |-> "insert", multipart |-> opened']
        /\ \A d \in Creators \ {c} : creator'[d] = creator[d]
    BY <1>2, <2>1 DEF OpenMultipart, CreationTypeOK
  <2>3. CreationTypeOK'
    BY <2>1, <2>2 DEF CreationTypeOK
  <2>4. Numbered'
    BY <2>1, <2>2 DEF CreationTypeOK, Numbered
  <2>5. Holders'
    BY <2>1, <2>2 DEF CreationTypeOK, Numbered, Holders
  <2>6. RowApart'
    BY <2>1, <2>2 DEF CreationTypeOK, Numbered, Holders, RowApart
  <2>7. Owned'
    <3> SUFFICES ASSUME mishaps["crash"] = 0, NEW m \in open', m /= row
                 PROVE  \E d \in Creators : creator'[d].multipart = m
      BY <2>1 DEF Owned
    <3>1. CASE m = opened'
      BY <3>1, <2>2
    <3>2. CASE m \in open
      <4>1. PICK d \in Creators : creator[d].multipart = m
        BY <3>2 DEF Owned
      <4>2. d = c => m = 0
        BY <4>1, <2>1 DEF Holders
      <4>3. QED
        BY <3>2, <4>1, <4>2, <2>2 DEF Numbered
    <3>3. QED
      BY <3>1, <3>2, <2>1
  <2>8. QED
    BY <2>3, <2>4, <2>5, <2>6, <2>7
<1>3. ASSUME NEW c \in Creators, InsertRow(c), row = 0 PROVE CreationInv'
  <2>1. /\ creator' \in [Creators -> [step : Steps, multipart : Nat]]
        /\ creator'[c] = [step |-> "idle", multipart |-> 0]
        /\ \A d \in Creators \ {c} : creator'[d] = creator[d]
    BY <1>3, IsDone DEF InsertRow
  <2>2. /\ creator[c].step = "insert" /\ row' = creator[c].multipart
        /\ UNCHANGED <<open, opened, mishaps>>
    BY <1>3 DEF InsertRow
  <2>3. CreationTypeOK'
    BY <1>3, <2>1, <2>2 DEF CreationTypeOK
  <2>4. Numbered'
    BY <1>3, <2>1, <2>2 DEF CreationTypeOK, Numbered
  <2>5. Holders'
    BY <1>3, <2>1, <2>2 DEF CreationTypeOK, Numbered, Holders
  <2>6. RowApart'
    BY <1>3, <2>1, <2>2 DEF CreationTypeOK, Numbered, Holders, RowApart
  <2>7. Owned'
    BY <1>3, <2>1, <2>2 DEF CreationTypeOK, Holders, Owned
  <2>8. QED
    BY <2>3, <2>4, <2>5, <2>6, <2>7
<1>4. ASSUME NEW c \in Creators, InsertRow(c), row /= 0 PROVE CreationInv'
  <2>1. /\ creator' \in [Creators -> [step : Steps, multipart : Nat]]
        /\ creator'[c] = [step |-> "abort", multipart |-> creator[c].multipart]
        /\ \A d \in Creators \ {c} : creator'[d] = creator[d]
    BY <1>4, GoesOn DEF InsertRow
  <2>2. creator[c].step = "insert" /\ UNCHANGED <<row, open, opened, mishaps>>
    BY <1>4 DEF InsertRow
  <2>3. CreationTypeOK'
    BY <2>1, <2>2 DEF CreationTypeOK
  <2>4. Numbered'
    BY <2>1, <2>2 DEF CreationTypeOK, Numbered
  <2>5. Holders'
    BY <2>1, <2>2 DEF CreationTypeOK, Numbered, Holders
  <2>6. RowApart'
    BY <2>1, <2>2 DEF CreationTypeOK, Numbered, Holders, RowApart
  <2>7. Owned'
    BY <2>1, <2>2 DEF CreationTypeOK, Holders, Owned
  <2>8. QED
    BY <2>3, <2>4, <2>5, <2>6, <2>7
<1>5. ASSUME NEW c \in Creators, InsertFails(c) PROVE CreationInv'
  <2>1. /\ creator' \in [Creators -> [step : Steps, multipart : Nat]]
        /\ creator'[c] = [step |-> "abort", multipart |-> creator[c].multipart]
        /\ \A d \in Creators \ {c} : creator'[d] = creator[d]
    BY <1>5, GoesOn DEF InsertFails
  <2>2. /\ mishaps' \in [Mishaps -> Nat]
        /\ \A j \in Mishaps : mishaps'[j] = 0 => mishaps[j] = 0
        /\ row' = row \/ (mishaps'["lost"] /= 0 /\ row = 0 /\ row' = creator[c].multipart)
        /\ creator[c].step = "insert" /\ UNCHANGED <<open, opened>>
    BY <1>5, MishapCounts DEF InsertFails
  <2>3. CreationTypeOK'
    BY <2>1, <2>2 DEF CreationTypeOK
  <2>4. Numbered'
    BY <2>1, <2>2 DEF CreationTypeOK, Numbered
  <2>5. Holders'
    BY <2>1, <2>2 DEF CreationTypeOK, Numbered, Holders
  <2>6. RowApart'
    BY <2>1, <2>2 DEF CreationTypeOK, Numbered, Holders, RowApart
  <2>7. Owned'
    <3> SUFFICES ASSUME mishaps'["crash"] = 0, NEW m \in open, m /= row'
                 PROVE  \E d \in Creators : creator'[d].multipart = m
      BY <2>2 DEF Owned
    <3>1. PICK d \in Creators : m = row \/ creator[d].multipart = m
      BY <2>2 DEF Owned
    <3>2. QED
      BY <3>1, <2>1, <2>2 DEF Numbered
  <2>8. QED
    BY <2>3, <2>4, <2>5, <2>6, <2>7
<1>6. ASSUME NEW c \in Creators, AbortOwn(c) PROVE CreationInv'
  <2>1. /\ creator' \in [Creators -> [step : Steps, multipart : Nat]]
        /\ creator'[c] = [step |-> "idle", multipart |-> 0]
        /\ \A d \in Creators \ {c} : creator'[d] = creator[d]
    BY <1>6, IsDone DEF AbortOwn
  <2>2. /\ creator[c].step = "abort" /\ open' = open \ {creator[c].multipart}
        /\ UNCHANGED <<row, opened, mishaps>>
    BY <1>6 DEF AbortOwn
  <2>3. CreationTypeOK'
    BY <2>1, <2>2 DEF CreationTypeOK
  <2>4. Numbered'
    BY <2>1, <2>2 DEF CreationTypeOK, Numbered
  <2>5. Holders'
    BY <2>1, <2>2 DEF CreationTypeOK, Numbered, Holders
  <2>6. RowApart'
    BY <2>1, <2>2 DEF CreationTypeOK, Numbered, Holders, RowApart
  <2>7. Owned'
    BY <2>1, <2>2 DEF CreationTypeOK, Holders, Owned
  <2>8. QED
    BY <2>3, <2>4, <2>5, <2>6, <2>7
<1>7. ASSUME NEW c \in Creators, Die(c) PROVE CreationInv'
  <2>1. /\ creator' \in [Creators -> [step : Steps, multipart : Nat]]
        /\ creator'[c] = [step |-> "idle", multipart |-> 0]
        /\ \A d \in Creators \ {c} : creator'[d] = creator[d]
    BY <1>7, IsDone DEF Die
  <2>2. /\ mishaps' \in [Mishaps -> Nat] /\ mishaps'["crash"] /= 0
        /\ \A j \in Mishaps : mishaps'[j] = 0 => mishaps[j] = 0
        /\ UNCHANGED <<row, open, opened>>
    BY <1>7, MishapCounts DEF Die
  <2>3. CreationTypeOK'
    BY <2>1, <2>2 DEF CreationTypeOK
  <2>4. Numbered'
    BY <2>1, <2>2 DEF CreationTypeOK, Numbered
  <2>5. Holders'
    BY <2>1, <2>2 DEF CreationTypeOK, Numbered, Holders
  <2>6. RowApart'
    BY <2>1, <2>2 DEF CreationTypeOK, Numbered, Holders, RowApart
  <2>7. Owned'
    BY <2>1, <2>2 DEF CreationTypeOK, Holders, Owned
  <2>8. QED
    BY <2>3, <2>4, <2>5, <2>6, <2>7
<1>8. ASSUME Forget PROVE CreationInv'
  <2>1. /\ row' = 0 /\ open' = open \ {row} /\ \A c \in Creators : creator[c].step = "idle"
        /\ UNCHANGED <<opened, creator, mishaps>>
    BY <1>8 DEF Forget
  <2>2. CreationTypeOK'
    BY <2>1 DEF CreationTypeOK
  <2>3. Numbered'
    BY <2>1 DEF CreationTypeOK, Numbered
  <2>4. Holders'
    BY <2>1 DEF CreationTypeOK, Numbered, Holders
  <2>5. RowApart'
    BY <2>1 DEF CreationTypeOK, Numbered, Holders, RowApart
  <2>6. Owned'
    BY <2>1 DEF CreationTypeOK, Holders, Owned
  <2>7. QED
    BY <2>2, <2>3, <2>4, <2>5, <2>6
<1>9. ASSUME UNCHANGED creation PROVE CreationInv'
  BY <1>9 DEF creation, CreationTypeOK, Numbered, Holders, RowApart, Owned
<1>10. QED
  BY <1>1, <1>2, <1>3, <1>4, <1>5, <1>6, <1>7, <1>8, <1>9 DEF CreationNext

(* However requests for one session race, fail and die, the session keeps  *)
(* its multipart upload and no other one is left open by a request that    *)
(* lives (create_import_upload).                                           *)
THEOREM UploadsStayOwned == CreationSpec => []MultipartsAreOwned
<1>1. CreationInv => MultipartsAreOwned
  BY DEF CreationInv, RowApart, Owned, MultipartsAreOwned, NoSession
<1>2. QED
  BY CreationStarts, CreationGoesOn, <1>1, PTL DEF CreationSpec

-----------------------------------------------------------------------------
(***************************************************************************)
(* ImportBatches.  What is added to BatchesAreCut is about the batch in    *)
(* hand: it is below both limits, and if it is empty the last one yielded  *)
(* has reached one of them.                                                *)
(***************************************************************************)

Counted(n, b) ==
    /\ n \in Nat
    /\ b \in [0 .. n -> Nat]
    /\ \A i \in 0 .. n - 1 : b[i] < b[i + 1]

\* The i-th of the batches that end at e, of n features with b bytes.
Limited(e, b, i) ==
    /\ e[i] - Begin(e, i) \in 1 .. MaxFeatures
    /\ b[e[i]] - b[Begin(e, i)] <= MaxBytes \/ e[i] - Begin(e, i) = 1

NotEarly(e, n, b, i) ==
    e[i] < n => \/ e[i] - Begin(e, i) = MaxFeatures
                \/ b[e[i] + 1] - b[Begin(e, i)] > MaxBytes

Batched(e, n, b) ==
    /\ e \in Seq(Nat)
    /\ \A i \in 1 .. Len(e) : e[i] \in 0 .. n
    /\ \A i \in 1 .. Len(e) : Limited(e, b, i) /\ NotEarly(e, n, b, i)

\* The batch in hand could be yielded, and is below the limits.
Fits(e, n, b) ==
    /\ n - Open(e) \in 1 .. MaxFeatures
    /\ b[n] - b[Open(e)] <= MaxBytes \/ n - Open(e) = 1

Below(e, n, b) ==
    Open(e) < n => n - Open(e) < MaxFeatures /\ b[n] - b[Open(e)] < MaxBytes

\* The last batch would not have held another feature of so many bytes.
Shut(e, n, b, size) ==
    Len(e) > 0 /\ e[Len(e)] = n =>
        \/ e[Len(e)] - Begin(e, Len(e)) = MaxFeatures
        \/ (b[n] + size) - b[Begin(e, Len(e))] > MaxBytes

BatchInv ==
    /\ Counted(taken, bytes) /\ Batched(ends, taken, bytes)
    /\ closed \in BOOLEAN
    /\ closed => Open(ends) = taken
    /\ ~closed => /\ Below(ends, taken, bytes)
                  /\ \A size \in Sizes : Shut(ends, taken, bytes, size)

(* A batch begins where the one before ends, which is among the features   *)
(* taken (_bounded_import_batches).                                        *)
LEMMA BeginsWithin ==
    ASSUME NEW n, NEW b, NEW e, Counted(n, b), Batched(e, n, b)
    PROVE  /\ \A i \in 1 .. Len(e) + 1 : Begin(e, i) \in 0 .. n
           /\ Open(e) \in 0 .. n
           /\ Len(e) > 0 => Open(e) = e[Len(e)]
           /\ \A i \in 1 .. Len(e) : i /= Len(e) => e[i] < n
<1>1. Len(e) \in Nat /\ n \in Nat
  BY DEF Batched, Counted
<1>2. \A i \in 1 .. Len(e) + 1 : Begin(e, i) \in 0 .. n
  BY <1>1 DEF Batched, Begin
<1>3. Open(e) \in 0 .. n /\ (Len(e) > 0 => Open(e) = e[Len(e)])
  BY <1>1, <1>2 DEF Open, Begin
<1>4. ASSUME NEW i \in 1 .. Len(e), i /= Len(e)
      PROVE  e[i] < n
  <2>1. i + 1 \in 1 .. Len(e) /\ i \in Nat /\ i + 1 /= 1 /\ (i + 1) - 1 = i
    BY <1>1, <1>4
  <2>2. e[i + 1] - e[i] \in 1 .. MaxFeatures
    BY <2>1 DEF Batched, Limited, Begin
  <2>3. e[i] \in 0 .. n /\ e[i + 1] \in 0 .. n
    BY <2>1 DEF Batched
  <2>4. QED
    BY <1>1, <2>2, <2>3, BatchAssumption
<1>5. QED
  BY <1>2, <1>3, <1>4

(* A batch that fits may be yielded (_bounded_import_batches).             *)
LEMMA YieldKeeps ==
    ASSUME NEW n, NEW b, NEW e, Counted(n, b), Batched(e, n, b), Fits(e, n, b)
    PROVE  /\ Batched(Append(e, n), n, b)
           /\ Open(Append(e, n)) = n
           /\ Len(Append(e, n)) > 0
           /\ Append(e, n)[Len(Append(e, n))] = n
           /\ Begin(Append(e, n), Len(Append(e, n))) = Open(e)
<1> DEFINE f == Append(e, n)
<1>1. n \in Nat /\ e \in Seq(Nat) /\ Len(e) \in Nat
  BY DEF Counted, Batched
<1>2. /\ f \in Seq(Nat) /\ Len(f) = Len(e) + 1 /\ f[Len(e) + 1] = n
      /\ \A i \in 1 .. Len(e) : f[i] = e[i]
  BY <1>1
<1>3. \A i \in 1 .. Len(f) : Begin(f, i) = Begin(e, i)
  BY <1>1, <1>2 DEF Begin
<1>4. Open(f) = n /\ Begin(f, Len(f)) = Open(e)
  BY <1>1, <1>2, <1>3 DEF Open, Begin
<1>5. \A i \in 1 .. Len(f) : f[i] \in 0 .. n
  BY <1>1, <1>2 DEF Batched
<1>6. ASSUME NEW i \in 1 .. Len(f)
      PROVE  Limited(f, b, i) /\ NotEarly(f, n, b, i)
  <2>1. CASE i \in 1 .. Len(e)
    BY <1>2, <1>3, <2>1 DEF Batched, Limited, NotEarly
  <2>2. CASE i = Len(f)
    <3>1. f[i] = n /\ Begin(f, i) = Open(e)
      BY <1>2, <1>4, <2>2
    <3>2. QED
      BY <1>1, <3>1 DEF Fits, Limited, NotEarly
  <2>3. QED
    BY <1>1, <1>2, <2>1, <2>2
<1> HIDE DEF f
<1>7. Batched(f, n, b) /\ Len(f) > 0 /\ f[Len(f)] = n
  BY <1>1, <1>2, <1>5, <1>6 DEF Batched
<1>8. QED
  BY <1>4, <1>7 DEF f

(* One more feature leaves the batches as they are (_bounded_import_batches).*)
LEMMA OneMore ==
    ASSUME NEW n, NEW b, NEW e, NEW c, NEW size \in Sizes,
           Counted(n, b), Batched(e, n, b), Shut(e, n, b, size),
           c \in [0 .. n + 1 -> Nat], c[n + 1] = b[n] + size,
           \A i \in 0 .. n : c[i] = b[i]
    PROVE  Counted(n + 1, c) /\ Batched(e, n + 1, c)
<1>1. n \in Nat /\ size \in Nat \ {0} /\ b[n] \in Nat /\ e \in Seq(Nat)
  BY BatchAssumption DEF Counted, Batched
<1>2. c[n + 1] = b[n] + size /\ \A i \in 0 .. n : c[i] = b[i]
  OBVIOUS
<1>3. Counted(n + 1, c)
  <2>1. ASSUME NEW i \in 0 .. n PROVE c[i] < c[i + 1]
    <3>1. CASE i = n
      BY <1>1, <1>2, <3>1
    <3>2. CASE i /= n
      <4>1. i \in 0 .. n - 1 /\ i + 1 \in 0 .. n
        BY <1>1, <3>2
      <4>2. b[i] < b[i + 1]
        BY <4>1 DEF Counted
      <4>3. QED
        BY <1>2, <4>1, <4>2
    <3>3. QED
      BY <3>1, <3>2
  <2>2. QED
    BY <1>1, <2>1 DEF Counted
<1>4. /\ \A i \in 1 .. Len(e) + 1 : Begin(e, i) \in 0 .. n
      /\ \A i \in 1 .. Len(e) : i /= Len(e) => e[i] < n
  BY BeginsWithin
<1>5. ASSUME NEW i \in 1 .. Len(e)
      PROVE  Limited(e, c, i) /\ NotEarly(e, n + 1, c, i)
  <2>1. /\ e[i] \in 0 .. n /\ Begin(e, i) \in 0 .. n /\ Len(e) \in Nat
        /\ Limited(e, b, i) /\ NotEarly(e, n, b, i)
    BY <1>1, <1>4 DEF Batched
  <2>2. Limited(e, c, i)
    BY <1>2, <2>1 DEF Limited
  <2>3. CASE e[i] < n
    <3>1. e[i] + 1 \in 0 .. n
      BY ONLY <1>1, <2>1, <2>3
    <3>2. c[e[i] + 1] = b[e[i] + 1] /\ c[Begin(e, i)] = b[Begin(e, i)]
      BY <1>2, <2>1, <3>1
    <3>3. QED
      BY ONLY <2>1, <2>2, <2>3, <3>2 DEF NotEarly
  <2>4. CASE e[i] = n
    <3>1. i = Len(e) /\ Len(e) > 0
      BY <1>1, <1>4, <2>1, <2>4
    <3>2. \/ e[i] - Begin(e, i) = MaxFeatures
          \/ (b[n] + size) - b[Begin(e, i)] > MaxBytes
      BY <2>4, <3>1 DEF Shut
    <3>3. c[e[i] + 1] = b[n] + size /\ c[Begin(e, i)] = b[Begin(e, i)]
      BY <1>2, <2>1, <2>4
    <3>4. e[i] - Begin(e, i) = MaxFeatures \/ c[e[i] + 1] - c[Begin(e, i)] > MaxBytes
      BY <3>2, <3>3
    <3>5. QED
      BY ONLY <2>2, <3>4 DEF NotEarly
  <2>5. QED
    BY <1>1, <2>1, <2>2, <2>3, <2>4
<1>6. QED
  BY <1>1, <1>2, <1>3, <1>5 DEF Batched

(* Making room for a feature, and taking it, keep the invariant            *)
(* (_bounded_import_batches).                                              *)
LEMMA TakeKeeps ==
    ASSUME BatchInv, NEW size \in Sizes, Take(size)
    PROVE  BatchInv'
<1> DEFINE n == taken
           c == [i \in 0 .. n + 1 |-> IF i <= n THEN bytes[i] ELSE bytes[n] + size]
           room == MadeRoom(size)
<1>1. /\ taken' = n + 1 /\ bytes' = c /\ ~closed /\ closed' = closed
      /\ ends' = Cut(room, n + 1, bytes[n] + size)
  BY DEF Take
<1>2. /\ Counted(n, bytes) /\ Batched(ends, n, bytes) /\ Below(ends, n, bytes)
      /\ \A s \in Sizes : Shut(ends, n, bytes, s)
  BY <1>1 DEF BatchInv
<1>3. /\ Open(ends) \in 0 .. n /\ n \in Nat /\ size \in Nat \ {0}
      /\ \A i \in 0 .. n : bytes[i] \in Nat
      /\ MaxFeatures \in Nat \ {0} /\ MaxBytes \in Nat \ {0}
  BY <1>2, BeginsWithin, BatchAssumption DEF Counted
<1>4. /\ c \in [0 .. n + 1 -> Nat] /\ c[n + 1] = bytes[n] + size
       /\ \A i \in 0 .. n : c[i] = bytes[i]
  <2>1. \A i \in 0 .. n + 1 :
          (IF i <= n THEN bytes[i] ELSE bytes[n] + size) \in Nat
    BY <1>3
  <2>2. QED
    BY <1>3, <2>1
\* What is in hand after making room, and why it may be left there.
<1>5. /\ Batched(room, n, bytes) /\ Shut(room, n, bytes, size)
      /\ Open(room) \in 0 .. n
      /\ Open(room) < n => /\ n - Open(room) < MaxFeatures
                           /\ (bytes[n] + size) - bytes[Open(room)] <= MaxBytes
  <2>1. CASE n /= Open(ends) /\ Full(n - Open(ends), (bytes[n] + size) - bytes[Open(ends)])
    <3>1. room = Append(ends, n)
      BY <2>1 DEF MadeRoom
    <3>2. n - Open(ends) \in 1 .. MaxFeatures /\ n - Open(ends) < MaxFeatures
      BY <1>2, <1>3, <2>1 DEF Below
    <3>3. bytes[n] - bytes[Open(ends)] < MaxBytes
      BY <1>2, <1>3, <2>1 DEF Below
    <3>4. Fits(ends, n, bytes)
      BY <1>3, <3>2, <3>3 DEF Fits
    <3>5. /\ Batched(room, n, bytes) /\ Open(room) = n
          /\ Begin(room, Len(room)) = Open(ends)
      BY <1>2, <3>1, <3>4, YieldKeeps
    <3>6. (bytes[n] + size) - bytes[Open(ends)] > MaxBytes
      BY <1>3, <2>1, <3>2 DEF Full
    <3>7. QED
      BY <1>3, <3>5, <3>6 DEF Shut
  <2>2. CASE ~(n /= Open(ends) /\ Full(n - Open(ends), (bytes[n] + size) - bytes[Open(ends)]))
    <3>1. room = ends
      BY <2>2 DEF MadeRoom
    <3>2. Open(ends) < n => /\ n - Open(ends) < MaxFeatures
                            /\ (bytes[n] + size) - bytes[Open(ends)] <= MaxBytes
      BY <1>3, <2>2 DEF Full
    <3>3. QED
      BY <1>2, <1>3, <3>1, <3>2
  <2>3. QED
    BY <2>1, <2>2
<1> HIDE DEF c, room
<1>6. /\ Counted(n + 1, c) /\ Batched(room, n + 1, c) /\ c[n + 1] = bytes[n] + size
      /\ \A i \in 0 .. n : c[i] = bytes[i]
  BY <1>2, <1>5, <1>4, OneMore
<1>7. c[Open(room)] = bytes[Open(room)] /\ bytes[Open(room)] \in Nat
  BY <1>3, <1>5, <1>6
<1>8. Fits(room, n + 1, c)
  <2>1. (n + 1) - Open(room) \in 1 .. MaxFeatures
    BY <1>3, <1>5
  <2>2. c[n + 1] - c[Open(room)] <= MaxBytes \/ (n + 1) - Open(room) = 1
    BY <1>3, <1>5, <1>6, <1>7
  <2>3. QED
    BY <2>1, <2>2 DEF Fits
<1>9. CASE Ready((n + 1) - Open(room), (bytes[n] + size) - bytes[Open(room)])
  <2>1. ends' = Append(room, n + 1)
    BY <1>1, <1>9 DEF Cut
  <2>2. /\ Batched(ends', n + 1, c) /\ Open(ends') = n + 1
        /\ Begin(ends', Len(ends')) = Open(room)
        /\ ends'[Len(ends')] = n + 1
    BY <1>6, <1>8, <2>1, YieldKeeps
  <2>3. \/ (n + 1) - Open(room) = MaxFeatures
        \/ (bytes[n] + size) - bytes[Open(room)] >= MaxBytes
    BY <1>3, <1>8, <1>9 DEF Ready, Fits
  <2>4. ASSUME NEW s \in Sizes PROVE Shut(ends', n + 1, c, s)
    <3>1. s \in Nat \ {0}
      BY BatchAssumption
    <3>2. \/ (n + 1) - Open(room) = MaxFeatures
          \/ (c[n + 1] + s) - c[Open(room)] > MaxBytes
      BY <1>3, <1>6, <1>7, <2>3, <3>1
    <3>3. QED
      BY <2>2, <3>2 DEF Shut
  <2>5. Below(ends', n + 1, c)
    BY <1>3, <2>2 DEF Below
  <2>6. QED
    BY <1>1, <1>6, <2>2, <2>4, <2>5 DEF BatchInv
<1>10. CASE ~Ready((n + 1) - Open(room), (bytes[n] + size) - bytes[Open(room)])
  <2>1. ends' = room
    BY <1>1, <1>10 DEF Cut
  <2>2. Below(room, n + 1, c)
    BY <1>3, <1>5, <1>6, <1>7, <1>10 DEF Ready, Below
  <2>3. Len(room) > 0 => room[Len(room)] /= n + 1
    BY <1>2, <1>3, <1>5, BeginsWithin
  <2>4. \A s \in Sizes : Shut(room, n + 1, c, s)
    BY <2>3 DEF Shut
  <2>5. QED
    BY <1>1, <1>6, <2>1, <2>2, <2>4 DEF BatchInv
<1>11. QED
  BY <1>9, <1>10

(* So does yielding what is left (_bounded_import_batches).                *)
LEMMA CloseKeeps ==
    ASSUME BatchInv, Close
    PROVE  BatchInv'
<1>1. /\ Counted(taken, bytes) /\ Batched(ends, taken, bytes)
      /\ Below(ends, taken, bytes)
      /\ closed' = TRUE /\ taken' = taken /\ bytes' = bytes
  BY DEF BatchInv, Close
<1>2. CASE Open(ends) = taken
  BY <1>1, <1>2 DEF Close, BatchInv
<1>3. CASE Open(ends) /= taken
  <2>1. /\ Open(ends) \in 0 .. taken /\ taken \in Nat
        /\ \A i \in 0 .. taken : bytes[i] \in Nat
        /\ MaxFeatures \in Nat \ {0} /\ MaxBytes \in Nat \ {0}
    BY <1>1, BeginsWithin, BatchAssumption DEF Counted
  <2>2. Fits(ends, taken, bytes)
    BY <1>1, <1>3, <2>1 DEF Below, Fits
  <2>3. ends' = Append(ends, taken)
    BY <1>3 DEF Close
  <2>4. Batched(ends', taken, bytes) /\ Open(ends') = taken
    BY <1>1, <2>2, <2>3, YieldKeeps
  <2>5. QED
    BY <1>1, <2>4 DEF BatchInv
<1>4. QED
  BY <1>2, <1>3

(* Every batch keeps its limits and none ends early, whatever the features *)
(* of an import are: a run that is started anew meets its checkpoints in   *)
(* the same places (_bounded_import_batches).                              *)
THEOREM ImportIsCut == BatchSpec => []BatchesAreCut
<1>1. BatchInit => BatchInv
  <2> SUFFICES ASSUME BatchInit PROVE BatchInv
    OBVIOUS
  <2>1. taken = 0 /\ bytes = [i \in {0} |-> 0] /\ ends = <<>> /\ closed = FALSE
    BY DEF BatchInit
  <2>2. {0} = 0 .. 0 /\ \A i \in 0 .. 0 - 1 : FALSE
    OBVIOUS
  <2>3. Counted(taken, bytes) /\ Batched(ends, taken, bytes)
    BY <2>1, <2>2 DEF Counted, Batched
  <2>4. Open(ends) = 0 /\ Len(ends) = 0
    BY <2>1 DEF Open, Begin
  <2>5. QED
    BY <2>1, <2>3, <2>4 DEF BatchInv, Below, Shut
<1>2. BatchInv /\ [BatchNext]_batches => BatchInv'
  <2> SUFFICES ASSUME BatchInv, [BatchNext]_batches PROVE BatchInv'
    OBVIOUS
  <2>1. CASE UNCHANGED batches
    BY <2>1 DEF batches, BatchInv
  <2>2. QED
    BY <2>1, TakeKeeps, CloseKeeps DEF BatchNext
<1>3. BatchInv => BatchesAreCut
  BY DEF BatchInv, Batched, Limited, NotEarly, BatchesAreCut
<1>4. QED
  BY <1>1, <1>2, <1>3, PTL DEF BatchSpec

-----------------------------------------------------------------------------
(***************************************************************************)
(* Retention.  Between its two steps, a run's object and its row, the      *)
(* sweep has a run in hand whose object is gone; nothing brings it back.   *)
(***************************************************************************)
PurgeInv ==
    /\ runs \in Seq(Runs)
    /\ due \in 0 .. Len(runs)
    /\ step = "row" => Head(selected) \notin objects

(* Taking a run out of the line leaves the others in it (_purge_run).      *)
LEMMA OthersStay ==
    ASSUME runs \in Seq(Runs), NEW r \in ToSet(runs)
    PROVE  /\ Without(r) \in Seq(Runs)
           /\ Len(Without(r)) = Len(runs) - 1
           /\ ToSet(runs) \ {r} \subseteq ToSet(Without(r))
<1> DEFINE k == CHOOSE i \in 1 .. Len(runs) : runs[i] = r
           n == Len(runs)
           before == SubSeq(runs, 1, k - 1)
           after  == SubSeq(runs, k + 1, n)
<1>1. n \in Nat /\ DOMAIN runs = 1 .. n /\ \A i \in 1 .. n : runs[i] \in Runs
  OBVIOUS
<1>2. \E i \in 1 .. n : runs[i] = r
  BY <1>1 DEF ToSet
<1>3. k \in 1 .. n /\ runs[k] = r
  BY <1>2
<1>4. Without(r) = before \o after
  BY DEF Without, RemoveAt
<1> HIDE DEF k
<1>5. /\ before \in Seq(Runs) /\ Len(before) = k - 1
      /\ \A i \in 1 .. k - 1 : before[i] = runs[i]
  BY <1>1, <1>3
<1>6. /\ after \in Seq(Runs) /\ Len(after) = n - k
      /\ \A i \in 1 .. n - k : after[i] = runs[k + i]
  <2>1. k + 1 \in Int /\ n \in Int /\ \A i \in k + 1 .. n : runs[i] \in Runs
    BY <1>1, <1>3
  <2>2. /\ after \in Seq(Runs)
        /\ Len(after) = IF k + 1 <= n THEN n - (k + 1) + 1 ELSE 0
        /\ \A i \in 1 .. n - (k + 1) + 1 : after[i] = runs[(k + 1) + i - 1]
    BY <2>1, SubSeqProperties
  <2>3. n - (k + 1) + 1 = n - k /\ k <= n /\ n - k \in Nat
    BY <1>1, <1>3
  <2>4. \A i \in 1 .. n - k : (k + 1) + i - 1 = k + i
    BY <1>1, <1>3
  <2>5. Len(after) = n - k
    <3>1. k = n \/ k + 1 <= n
      <4>1. n \in Nat /\ k \in 1 .. n
        BY <1>1, <1>3
      <4> HIDE DEF n
      <4>2. QED
        BY ONLY <4>1
    <3>2. k = n => n - k = 0 /\ ~(k + 1 <= n)
      BY <1>1, <1>3
    <3>3. QED
      BY <2>2, <2>3, <3>1, <3>2
  <2>6. QED
    BY <2>2, <2>3, <2>4, <2>5
<1> HIDE DEF n, before, after
<1>7. /\ before \o after \in Seq(Runs)
      /\ Len(before \o after) = n - 1 /\ DOMAIN (before \o after) = 1 .. n - 1
      /\ \A i \in 1 .. k - 1 : (before \o after)[i] = runs[i]
      /\ \A i \in 1 .. n - k : (before \o after)[k - 1 + i] = runs[k + i]
  <2>1. /\ before \o after \in Seq(Runs)
        /\ Len(before \o after) = Len(before) + Len(after)
        /\ \A i \in 1 .. Len(before) + Len(after) : (before \o after)[i] =
             IF i <= Len(before) THEN before[i] ELSE after[i - Len(before)]
    BY <1>5, <1>6, ConcatProperties
  <2>2. n \in Nat /\ k \in 1 .. n
    BY <1>1, <1>3
  <2>3. \A i \in 1 .. k - 1 : (before \o after)[i] = runs[i]
    BY <1>5, <1>6, <2>1, <2>2
  <2>4. ASSUME NEW i \in 1 .. n - k
        PROVE  (before \o after)[k - 1 + i] = runs[k + i]
    <3>1. /\ k - 1 + i \in 1 .. Len(before) + Len(after)
          /\ ~(k - 1 + i <= Len(before)) /\ (k - 1 + i) - Len(before) = i
      BY <1>5, <1>6, <2>2
    <3>2. (before \o after)[k - 1 + i] = after[i]
      BY <2>1, <3>1
    <3>3. QED
      BY <1>6, <3>2
  <2>5. Len(before) + Len(after) = n - 1
    BY <1>5, <1>6, <2>2
  <2>6. Len(before \o after) = n - 1 /\ DOMAIN (before \o after) = 1 .. n - 1
    BY <2>1, <2>5
  <2>7. QED
    BY <2>1, <2>3, <2>4, <2>6
<1>8. ASSUME NEW i \in 1 .. n, runs[i] /= r
      PROVE  runs[i] \in ToSet(before \o after)
  <2>1. CASE i < k
    <3>1. i \in 1 .. k - 1 /\ i \in 1 .. n - 1
      BY <1>1, <1>3, <2>1
    <3>2. (before \o after)[i] = runs[i]
      BY <1>7, <3>1
    <3>3. QED
      BY <1>7, <3>1, <3>2 DEF ToSet
  <2>2. CASE i > k
    <3>1. /\ i - k \in 1 .. n - k /\ k - 1 + (i - k) \in 1 .. n - 1
          /\ k + (i - k) = i
      BY <1>1, <1>3, <2>2
    <3>2. (before \o after)[k - 1 + (i - k)] = runs[i]
      BY <1>7, <3>1
    <3>3. QED
      BY <1>7, <3>1, <3>2 DEF ToSet
  <2>3. QED
    BY <1>1, <1>3, <1>8, <2>1, <2>2
<1>9. ToSet(runs) \ {r} \subseteq ToSet(before \o after)
  BY <1>1, <1>8 DEF ToSet
<1>10. QED
  BY <1>4, <1>7, <1>9 DEF n

(* A run past its retention is one of the line, and one that is not leaves  *)
(* room among them (purge_expired_imports).                                *)
LEMMA DueIsKnown ==
    ASSUME PurgeInv, NEW r
    PROVE  /\ r \in Due => r \in ToSet(runs) /\ due > 0
           /\ r \in ToSet(runs) \ Due => due < Len(runs)
<1>1. /\ runs \in Seq(Runs) /\ Len(runs) \in Nat /\ due \in 0 .. Len(runs)
      /\ DOMAIN runs = 1 .. Len(runs)
  BY DEF PurgeInv
<1>2. /\ Len(SubSeq(runs, 1, due)) = due
      /\ DOMAIN SubSeq(runs, 1, due) = 1 .. due
      /\ \A i \in 1 .. due : SubSeq(runs, 1, due)[i] = runs[i]
  BY <1>1
<1>3. r \in Due => r \in ToSet(runs) /\ due > 0
  BY <1>1, <1>2 DEF Due, ToSet
<1>4. r \in ToSet(runs) \ Due => due < Len(runs)
  BY <1>1, <1>2 DEF Due, ToSet
<1>5. QED
  BY <1>3, <1>4

(* Only the purge of a run takes one out of the line, and it is past its   *)
(* retention and its object is gone (purge_expired_imports).               *)
LEMMA SweepKeepsIt ==
    ASSUME PurgeInv, Sweep \/ Fail
    PROVE  /\ PurgeInv'
           /\ \A r \in ToSet(runs) \ ToSet(runs') : r \in Due \ objects
<1>1. CASE PurgeRow
  <2> DEFINE r == Head(selected)
  <2>1. step = "row" /\ step' = "object" /\ objects' = objects
    BY <1>1 DEF PurgeRow
  <2>2. CASE r \in Due
    <3>1. r \in ToSet(runs) /\ due > 0
      BY <2>2, DueIsKnown
    <3>2. runs' = Without(r) /\ due' = due - 1
      BY <1>1, <2>2 DEF PurgeRow, StillDue
    <3>3. r \notin objects
      BY <2>1 DEF PurgeInv
    <3>4. /\ Without(r) \in Seq(Runs) /\ Len(Without(r)) = Len(runs) - 1
          /\ ToSet(runs) \ {r} \subseteq ToSet(Without(r))
      BY <3>1, OthersStay DEF PurgeInv
    <3>5. due' \in 0 .. Len(runs')
      BY <3>1, <3>2, <3>4 DEF PurgeInv
    <3>6. QED
      BY <2>1, <2>2, <3>2, <3>3, <3>4, <3>5 DEF PurgeInv
  <2>3. CASE r \notin Due
    BY <1>1, <2>1, <2>3 DEF PurgeRow, StillDue, PurgeInv
  <2>4. QED
    BY <2>2, <2>3
<1>2. CASE DeleteObject
  BY <1>2 DEF DeleteObject, Exclude, PurgeInv, catalogue
<1>3. CASE StartSweep \/ SelectBatch \/ EndBatch
  <2>1. runs' = runs /\ due' = due /\ step' /= "row"
    BY <1>3 DEF StartSweep, SelectBatch, EndBatch, Rest, catalogue
  <2>2. QED
    BY <2>1 DEF PurgeInv
<1>4. CASE Fail
  <2>1. runs' = runs /\ due' = due /\ step' /= "row"
    BY <1>4 DEF Fail, Exclude, Rest, catalogue
  <2>2. QED
    BY <2>1 DEF PurgeInv
<1>5. QED
  BY <1>1, <1>2, <1>3, <1>4 DEF Sweep

(* What is worked on meanwhile only moves in the line (_claim_import_run,  *)
(* _recover_expired_work_dispatches).                                      *)
LEMMA WorkKeepsIt ==
    ASSUME PurgeInv,
           Age \/ (\E r \in Runs : Touch(r) \/ Redispatch(r)) \/ UNCHANGED retention
    PROVE  PurgeInv' /\ ToSet(runs) \subseteq ToSet(runs')
<1>1. CASE Age \/ UNCHANGED retention
  BY <1>1 DEF Age, retention, catalogue, sweeping, PurgeInv
<1>2. ASSUME NEW r \in Runs, Touch(r) \/ Redispatch(r)
      PROVE  PurgeInv' /\ ToSet(runs) \subseteq ToSet(runs')
  <2>1. /\ r \in ToSet(runs) /\ UNCHANGED <<objects, step, selected>>
        /\ \/ /\ runs' = Append(Without(r), r)
              /\ due' = due \/ (r \in Due /\ due' = due - 1)
           \/ runs' = <<r>> \o Without(r) /\ due' = due + 1 /\ r \notin Due
    BY <1>2 DEF Touch, Redispatch, sweeping
  <2>2. PICK others \in Seq(Runs) : /\ others = Without(r)
                                    /\ Len(others) = Len(runs) - 1
                                    /\ ToSet(runs) \ {r} \subseteq ToSet(others)
    BY <2>1, OthersStay DEF PurgeInv
  <2>3. /\ Len(others) \in Nat /\ due \in 0 .. Len(runs)
        /\ r \in Due => due > 0
        /\ r \notin Due => due < Len(runs)
    BY <2>1, <2>2, DueIsKnown DEF PurgeInv
  <2>4. CASE /\ runs' = Append(others, r)
             /\ due' = due \/ (r \in Due /\ due' = due - 1)
    <3>1. /\ runs' \in Seq(Runs) /\ Len(runs') = Len(others) + 1
          /\ ToSet(others) \cup {r} \subseteq ToSet(runs')
      BY <2>2, <2>4 DEF ToSet
    <3>2. due' \in 0 .. Len(runs')
      BY <2>2, <2>3, <2>4, <3>1
    <3>3. QED
      BY <2>1, <2>2, <3>1, <3>2 DEF PurgeInv
  <2>5. CASE runs' = <<r>> \o others /\ due' = due + 1 /\ r \notin Due
    <3>1. /\ runs' \in Seq(Runs) /\ Len(runs') = Len(others) + 1
          /\ runs'[1] = r /\ \A i \in 1 .. Len(others) : runs'[i + 1] = others[i]
      BY <2>2, <2>5
    <3>2. ToSet(others) \cup {r} \subseteq ToSet(runs')
      BY <3>1 DEF ToSet
    <3>3. due' \in 0 .. Len(runs')
      BY <2>2, <2>3, <2>5, <3>1
    <3>4. QED
      BY <2>1, <2>2, <3>1, <3>2, <3>3 DEF PurgeInv
  <2>6. QED
    BY <2>1, <2>2, <2>4, <2>5
<1>3. QED
  BY <1>1, <1>2

(* A run goes as a whole, its row after its object, and only while it is   *)
(* past its retention, whatever fails and whoever works on it meanwhile    *)
(* (purge_expired_imports, _purge_run).                                    *)
THEOREM RunsPurgedWhole == RetentionSpec => PurgedWhole
<1>1. RetentionInit => PurgeInv
  BY FS_CardinalityType, RetentionAssumption
     DEF RetentionInit, SetToSeqs, PurgeInv
<1>2. PurgeInv /\ [RetentionNext]_retention => PurgeInv'
  BY SweepKeepsIt, WorkKeepsIt DEF RetentionNext
<1>3. PurgeInv /\ [RetentionNext]_retention =>
        [\A r \in ToSet(runs) \ ToSet(runs') : r \in Due \ objects]_retention
  BY SweepKeepsIt, WorkKeepsIt DEF RetentionNext
<1>4. QED
  BY <1>1, <1>2, <1>3, PTL DEF RetentionSpec, PurgedWhole

-----------------------------------------------------------------------------
\* EntityGeometry.

\* The coordinates and the points of the world.
World == 0 .. Side
Spots == World \X World

\* A size that cells of the world may have; a rectangle with its borders.
IsSize(size) == size \in Nat \ {0} /\ Side % size = 0
IsBox(b) ==
    /\ b \in [left : Int, bottom : Int, right : Int, top : Int]
    /\ b.left <= b.right /\ b.bottom <= b.top

(* Whole multiples of different numbers are at least one unit apart (the   *)
(* borders of neighbouring cells).                                         *)
LEMMA Grows ==
    ASSUME NEW a \in Int, NEW b \in Int, NEW n \in Nat, a < b
    PROVE  a * n + n <= b * n
  OBVIOUS

(* Multiplying by a natural number keeps the order.                        *)
LEMMA Scales ==
    ASSUME NEW a \in Int, NEW b \in Int, NEW n \in Nat, a <= b
    PROVE  a * n <= b * n
  OBVIOUS

(* What the quotient by a positive number is (the index of a cell).        *)
LEMMA Quotient ==
    ASSUME NEW x \in Int, NEW n \in Nat \ {0}
    PROVE  /\ x \div n \in Int
           /\ (x \div n) * n <= x /\ x < (x \div n) * n + n
           /\ x % n = 0 <=> (x \div n) * n = x
  OBVIOUS

(* The number whose cell holds another is its quotient (_clamped_index).   *)
LEMMA IsQuotient ==
    ASSUME NEW x \in Int, NEW n \in Nat \ {0}, NEW q \in Int,
           q * n <= x, x < q * n + n
    PROVE  x \div n = q
<1> DEFINE p == x \div n
<1>1. p \in Int /\ p * n <= x /\ x < p * n + n
  BY Quotient
<1> HIDE DEF p
<1>2. ~(p < q)
  BY <1>1, Grows
<1>3. ~(q < p)
  BY <1>1, Grows
<1>4. p = q
  BY <1>1, <1>2, <1>3
<1> QED BY <1>4 DEF p

(* The world is cut into whole squares and into whole locators             *)
(* (locator_for_point).                                                    *)
LEMMA SizesDivide == IsSize(Square) /\ IsSize(Locator)
<1>1. /\ Side \in Nat \ {0} /\ Square \in Nat \ {0} /\ Locator \in Nat \ {0}
      /\ Side % Square = 0 /\ Square % Locator = 0
  BY PrecisionAssumption
<1> DEFINE a == Side \div Square  b == Square \div Locator
<1>2. a \in Int /\ b \in Int /\ a * Square = Side /\ b * Locator = Square
  BY <1>1, Quotient
<1> HIDE DEF a, b
<1>3. (a * b) * Locator = Side /\ a * b \in Int
  BY <1>1, <1>2
<1> DEFINE q == a * b
<1>4. q \in Int /\ q * Locator = Side
  BY <1>3
<1> HIDE DEF q
<1>5. Side \div Locator = q
  BY <1>1, <1>4, IsQuotient
<1>6. Side % Locator = 0
  BY <1>1, <1>4, <1>5, Quotient
<1> QED BY <1>1, <1>6 DEF IsSize

(* The cells of a size fill the world, side by side.                       *)
LEMMA CellsFill ==
    ASSUME NEW size, IsSize(size)
    PROVE  /\ Side \in Nat \ {0}
           /\ Side \div size \in Nat \ {0}
           /\ (Side \div size) * size = Side
<1>1. Side \in Nat \ {0} /\ size \in Nat \ {0} /\ Side % size = 0
  BY PrecisionAssumption DEF IsSize
<1> DEFINE q == Side \div size
<1>2. q \in Int /\ q * size = Side
  BY <1>1, Quotient
<1> HIDE DEF q
<1>3. q > 0
  BY <1>1, <1>2
<1> QED BY <1>1, <1>2, <1>3 DEF q

(* A member that is not above any other is the least.                      *)
LEMMA IsLeast ==
    ASSUME NEW S \in SUBSET Int, NEW m \in S, \A y \in S : m <= y
    PROVE  Min(S) = m
<1>1. \E x \in S : \A y \in S : x <= y
  OBVIOUS
<1>2. Min(S) \in S /\ \A y \in S : Min(S) <= y
  BY <1>1, Zenon DEF Min
<1>3. PICK x \in S : x = Min(S)
  BY <1>2
<1>4. x <= m /\ x \in Int /\ m \in Int
  BY <1>2, <1>3
<1>5. m <= x
  BY <1>3
<1>6. x = m
  BY <1>4, <1>5
<1> QED BY <1>3, <1>6

(* A member that is not below any other is the greatest.                   *)
LEMMA IsGreatest ==
    ASSUME NEW S \in SUBSET Int, NEW m \in S, \A y \in S : y <= m
    PROVE  Max(S) = m
<1>1. \E x \in S : \A y \in S : x >= y
  OBVIOUS
<1>2. Max(S) \in S /\ \A y \in S : Max(S) >= y
  BY <1>1, Zenon DEF Max
<1>3. PICK x \in S : x = Max(S)
  BY <1>2
<1>4. x >= m /\ x \in Int /\ m \in Int
  BY <1>2, <1>3
<1>5. m >= x
  BY <1>3
<1>6. x = m
  BY <1>4, <1>5
<1> QED BY <1>3, <1>6

(* An index is clamped to the first and the last cell (_clamped_index).    *)
LEMMA ClampedIs ==
    ASSUME NEW i \in Int, NEW count \in Nat \ {0}
    PROVE  /\ Clamped(i, count) \in 0 .. count - 1
           /\ i \in 0 .. count - 1 => Clamped(i, count) = i
           /\ i < 0 => Clamped(i, count) = 0
           /\ i >= count => Clamped(i, count) = count - 1
<1> DEFINE m == IF i < 0 THEN 0 ELSE i
<1>1. Max({0, i}) = m
  BY IsGreatest
<1>2. Clamped(i, count) = IF m < count - 1 THEN m ELSE count - 1
  BY <1>1, IsLeast DEF Clamped
<1> QED BY <1>2

(* An index is a candidate if its cell reaches the coordinates from low to *)
(* high, an edge being enough (_candidate_indices).                        *)
LEMMA Candidates ==
    ASSUME NEW size, IsSize(size), NEW low \in World, NEW high \in World,
           low <= high
    PROVE  CandidateIndices(low, high, size) =
             {i \in 0 .. Side \div size - 1 :
                i * size <= high /\ low <= (i + 1) * size}
<1> DEFINE n == Side \div size
           p == low \div size
           q == high \div size
           first == IF low % size = 0 THEN p - 1 ELSE p
           f == Clamped(first, n)
           l == Clamped(q, n)
<1>1. Side \in Nat \ {0} /\ size \in Nat \ {0} /\ n \in Nat \ {0} /\ n * size = Side
  BY CellsFill DEF IsSize
<1>2. /\ p \in Int /\ p * size <= low /\ low < p * size + size
      /\ low % size = 0 <=> p * size = low
  BY <1>1, Quotient DEF World
<1>3. q \in Int /\ q * size <= high /\ high < q * size + size
  BY <1>1, Quotient DEF World
<1>4. first \in Int
  BY <1>2
<1>5. CandidateIndices(low, high, size) = f .. l
  BY DEF CandidateIndices
<1> HIDE DEF n
<1>6. /\ f \in 0 .. n - 1
      /\ first \in 0 .. n - 1 => f = first
      /\ first < 0 => f = 0
      /\ first >= n => f = n - 1
  BY <1>1, <1>4, ClampedIs
<1>7. /\ l \in 0 .. n - 1
      /\ q \in 0 .. n - 1 => l = q
      /\ q < 0 => l = 0
      /\ q >= n => l = n - 1
  BY <1>1, <1>3, ClampedIs
<1> HIDE DEF p, q, f, l
<1>8. first < n
  <2>1. SUFFICES ASSUME first >= n PROVE FALSE
    BY <1>1, <1>4
  <2>2. CASE p * size = low
    <3>1. n < p
      BY <2>1, <2>2, <1>1, <1>2
    <3>2. n * size + size <= p * size
      BY <3>1, <1>1, <1>2, Grows
    <3> QED BY <3>2, <2>2, <1>1 DEF World
  <2>3. CASE p * size < low
    <3>1. n <= p
      BY <2>1, <2>3, <1>1, <1>2
    <3>2. n * size <= p * size
      BY <3>1, <1>1, <1>2, Scales
    <3> QED BY <3>2, <2>3, <1>1, <1>2 DEF World
  <2> QED BY <2>2, <2>3, <1>1, <1>2 DEF World
<1>9. q >= 0
  <2>1. SUFFICES ASSUME q < 0 PROVE FALSE
    BY <1>3
  <2>2. q * size + size <= 0 * size
    BY <2>1, <1>1, <1>3, Grows
  <2> QED BY <2>2, <1>1, <1>3 DEF World
<1>10. ASSUME NEW i \in 0 .. n - 1
       PROVE  i \in f .. l <=> i * size <= high /\ low <= (i + 1) * size
  <2>0. i \in Int /\ i + 1 \in Int /\ i * size \in Int /\ (i + 1) * size = i * size + size
    BY <1>1
  <2>1. i <= l <=> i <= q
    BY <1>1, <1>3, <1>7, <1>9
  <2>2. i <= q <=> i * size <= high
    <3>1. CASE i <= q
      <4>1. i * size <= q * size
        BY <3>1, <1>1, <1>3, Scales
      <4> QED BY <3>1, <4>1, <1>1, <1>3, <2>0 DEF World
    <3>2. CASE q < i
      <4>1. q * size + size <= i * size
        BY <3>2, <1>1, <1>3, Grows
      <4> QED BY <3>2, <4>1, <1>1, <1>3, <2>0 DEF World
    <3> QED BY <3>1, <3>2, <1>3
  <2>3. f <= i <=> first <= i
    BY <1>1, <1>4, <1>6, <1>8
  <2>4. first <= i <=> low <= (i + 1) * size
    <3>1. CASE p <= i
      <4>1. p * size <= i * size
        BY <3>1, <1>1, <1>2, Scales
      <4> QED BY <3>1, <4>1, <1>1, <1>2, <2>0 DEF World
    <3>2. CASE i = p - 1
      <4>1. (i + 1) * size = p * size
        BY <3>2, <1>2
      <4> QED BY <3>2, <4>1, <1>1, <1>2, <2>0 DEF World
    <3>3. CASE i + 1 < p
      <4>1. (i + 1) * size + size <= p * size
        BY <3>3, <1>1, <1>2, <2>0, Grows
      <4> QED BY <3>3, <4>1, <1>1, <1>2, <2>0 DEF World
    <3> QED BY <3>1, <3>2, <3>3, <1>2
  <2> HIDE DEF first
  <2> QED BY <2>1, <2>2, <2>3, <2>4, <1>6, <1>7
<1>11. f .. l \subseteq 0 .. n - 1
  BY <1>6, <1>7, <1>1
<1> QED BY <1>5, <1>10, <1>11 DEF n

(* Some coordinate of a nonempty set is the least (_component_bounds) ...   *)
LEMMA LeastOfWorld ==
    ASSUME NEW S \in SUBSET World, S /= {}
    PROVE  Min(S) \in S /\ \A y \in S : Min(S) <= y
<1>1. PICK R : R = OpToRel(<, Nat)
  OBVIOUS
<1>2. IsWellFoundedOn(R, Nat)
  BY <1>1, NatLessThanWellFounded
<1>3. S \subseteq Nat
  BY PrecisionAssumption DEF World
<1>4. PICK m \in S : \A k \in S : <<k, m>> \notin R
  BY ONLY <1>2, <1>3, S /= {}, WFMin
<1>5. \A j, k \in Nat : j < k => <<j, k>> \in R
  BY <1>1 DEF OpToRel
<1>6. ASSUME NEW y \in S PROVE m <= y
  <2>1. m \in Nat /\ y \in Nat /\ ~(y < m)
    BY ONLY <1>3, <1>4, <1>5
  <2> QED BY ONLY <2>1
<1>7. Min(S) = m
  BY <1>3, <1>6, IsLeast
<1> QED BY <1>6, <1>7

(* ... and some coordinate is the greatest (_component_bounds).            *)
LEMMA GreatestOfWorld ==
    ASSUME NEW S \in SUBSET World, S /= {}
    PROVE  Max(S) \in S /\ \A y \in S : y <= Max(S)
<1>1. PICK T : T = {Side - x : x \in S}
  OBVIOUS
<1>2. Side \in Nat /\ S \subseteq Nat
  BY PrecisionAssumption DEF World
<1>3. ASSUME NEW x \in S PROVE Side - x \in World
  BY <1>2 DEF World
<1>4. T \in SUBSET World /\ T /= {}
  BY <1>1, <1>3
<1>5. PICK m \in T : \A k \in T : m <= k
  BY <1>4, LeastOfWorld
<1>6. PICK x \in S : m = Side - x
  BY <1>1
<1>7. ASSUME NEW y \in S PROVE y <= x
  <2>1. m <= Side - y
    BY <1>1, <1>5
  <2> QED BY <2>1, <1>6, <1>2
<1>8. Max(S) = x
  BY <1>2, <1>7, IsGreatest
<1> QED BY <1>7, <1>8

(* The box of a nonempty set of points holds each, and each of its borders *)
(* is at one (_component_bounds).                                          *)
LEMMA BoxHolds ==
    ASSUME NEW P \in SUBSET Spots, P /= {}
    PROVE  /\ IsBox(Box(P))
           /\ {Box(P).left, Box(P).bottom, Box(P).right, Box(P).top} \subseteq World
           /\ \A p \in P : Within(p, Box(P))
           /\ \E p \in P : p[1] = Box(P).left
           /\ \E p \in P : p[1] = Box(P).right
           /\ \E p \in P : p[2] = Box(P).bottom
           /\ \E p \in P : p[2] = Box(P).top
<1> DEFINE xs == {p[1] : p \in P}  ys == {p[2] : p \in P}
<1>1. \A p \in P : p[1] \in World /\ p[2] \in World
  BY DEF Spots
<1>2. xs \in SUBSET World /\ xs /= {} /\ ys \in SUBSET World /\ ys /= {}
  BY <1>1
<1>3. /\ Min(xs) \in xs /\ \A y \in xs : Min(xs) <= y
      /\ Min(ys) \in ys /\ \A y \in ys : Min(ys) <= y
      /\ Max(xs) \in xs /\ \A y \in xs : y <= Max(xs)
      /\ Max(ys) \in ys /\ \A y \in ys : y <= Max(ys)
  BY <1>2, LeastOfWorld, GreatestOfWorld
<1>4. Box(P) = [left |-> Min(xs), bottom |-> Min(ys), right |-> Max(xs), top |-> Max(ys)]
  BY DEF Box
<1>5. PICK b : b = Box(P)
  OBVIOUS
<1>6. b.left = Min(xs) /\ b.bottom = Min(ys) /\ b.right = Max(xs) /\ b.top = Max(ys)
  BY <1>4, <1>5
<1>7. b \in [left : World, bottom : World, right : World, top : World]
  BY <1>2, <1>3, <1>4, <1>5
<1>8. World \subseteq Int
  BY PrecisionAssumption DEF World
<1>9. b \in [left : Int, bottom : Int, right : Int, top : Int]
  BY <1>7, <1>8
<1>10. \A p \in P : /\ b.left <= p[1] /\ p[1] <= b.right
                    /\ b.bottom <= p[2] /\ p[2] <= b.top
  BY <1>3, <1>6
<1>11. /\ \E p \in P : p[1] = b.left
       /\ \E p \in P : p[1] = b.right
       /\ \E p \in P : p[2] = b.bottom
       /\ \E p \in P : p[2] = b.top
  BY <1>3, <1>6
<1>12. b.left <= b.right /\ b.bottom <= b.top
  <2>1. PICK q \in P : TRUE
    OBVIOUS
  <2>2. q[1] \in Int /\ q[2] \in Int
    BY <1>1, <1>8
  <2> QED BY <2>2, <1>9, <1>10
<1> QED BY <1>5, <1>7, <1>9, <1>10, <1>11, <1>12 DEF IsBox, Within

(* The cells of a size.                                                    *)
Cells(size) == (0 .. Side \div size - 1) \X (0 .. Side \div size - 1)

(* Every cell is a box.                                                    *)
LEMMA CellIsBox ==
    ASSUME NEW size, IsSize(size), NEW c \in Cells(size)
    PROVE  /\ c[1] \in 0 .. Side \div size - 1 /\ c[2] \in 0 .. Side \div size - 1
           /\ IsBox(Cell(c[1], c[2], size))
<1>1. c[1] \in 0 .. Side \div size - 1 /\ c[2] \in 0 .. Side \div size - 1
  BY DEF Cells
<1>2. Side \div size \in Nat /\ size \in Nat
  BY CellsFill DEF IsSize
<1>3. PICK x \in Int, y \in Int : x = c[1] /\ y = c[2]
  BY <1>1, <1>2
<1>4. /\ (x + 1) * size = x * size + size /\ x * size \in Int
      /\ (y + 1) * size = y * size + size /\ y * size \in Int
  BY <1>2, <1>3
<1>5. IsBox(Cell(x, y, size))
  BY <1>2, <1>4 DEF Cell, IsBox
<1> QED BY <1>1, <1>3, <1>5

(* The candidates for some points are the cells their box overlaps         *)
(* (_cells_for_component).                                                 *)
LEMMA CandidatesOverlap ==
    ASSUME NEW size, IsSize(size), NEW P \in SUBSET Spots, P /= {}
    PROVE  CandidateCells(P, size) =
             {c \in Cells(size) : Overlap(Box(P), Cell(c[1], c[2], size))}
<1>1. PICK b : b = Box(P)
  OBVIOUS
<1>2. /\ b.left \in World /\ b.right \in World /\ b.bottom \in World /\ b.top \in World
      /\ b.left <= b.right /\ b.bottom <= b.top
  BY <1>1, BoxHolds DEF IsBox
<1>3. CandidateIndices(b.left, b.right, size) =
        {i \in 0 .. Side \div size - 1 : i * size <= b.right /\ b.left <= (i + 1) * size}
  BY <1>2, Candidates
<1>4. CandidateIndices(b.bottom, b.top, size) =
        {i \in 0 .. Side \div size - 1 : i * size <= b.top /\ b.bottom <= (i + 1) * size}
  BY <1>2, Candidates
<1>5. CandidateCells(P, size) = CandidateIndices(b.left, b.right, size)
                                  \X CandidateIndices(b.bottom, b.top, size)
  BY <1>1 DEF CandidateCells
<1>6. ASSUME NEW c \in Cells(size)
      PROVE  c \in CandidateCells(P, size) <=> Overlap(b, Cell(c[1], c[2], size))
  <2>1. PICK x \in 0 .. Side \div size - 1, y \in 0 .. Side \div size - 1 : c = <<x, y>>
    BY DEF Cells
  <2>2. c \in CandidateCells(P, size)
          <=> /\ x \in CandidateIndices(b.left, b.right, size)
              /\ y \in CandidateIndices(b.bottom, b.top, size)
    BY <2>1, <1>5
  <2>3. Overlap(b, Cell(x, y, size))
          <=> /\ x * size <= b.right /\ b.left <= (x + 1) * size
              /\ y * size <= b.top /\ b.bottom <= (y + 1) * size
    BY DEF Overlap, Cell
  <2>4. Overlap(b, Cell(c[1], c[2], size)) <=> Overlap(b, Cell(x, y, size))
    BY <2>1
  <2> QED BY <2>2, <2>3, <2>4, <1>3, <1>4
<1>7. CandidateCells(P, size) \subseteq Cells(size)
  BY <1>3, <1>4, <1>5 DEF Cells
<1> QED BY <1>1, <1>6, <1>7

(* A segment from the origin to (u, v), in the first quadrant, and the box *)
(* from (a, c) to (b, d): clipping the segment at the borders of the box   *)
(* comes to the same as looking whether its line separates the corners.    *)
Clipped(u, v, a, b, c, d) ==
    /\ a <= u /\ 0 <= b /\ c <= v /\ 0 <= d
    /\ u > 0 /\ v > 0 => a * v <= d * u /\ c * u <= b * v

Apart(u, v, a, b, c, d) ==
    \/ u * c - v * a > 0 /\ u * c - v * b > 0 /\ u * d - v * a > 0 /\ u * d - v * b > 0
    \/ u * c - v * a < 0 /\ u * c - v * b < 0 /\ u * d - v * a < 0 /\ u * d - v * b < 0

(* Where the segment and the box overlap on both axes, clipping finds no   *)
(* part of the segment in the box exactly if its line has all corners on   *)
(* one side (_segment_intersects_rect).                                    *)
LEMMA ClippedIsNotApart ==
    ASSUME NEW u \in Nat, NEW v \in Nat, NEW a \in Int, NEW b \in Int,
           NEW c \in Int, NEW d \in Int,
           a <= b, c <= d, a <= u, 0 <= b, c <= v, 0 <= d
    PROVE  Clipped(u, v, a, b, c, d) <=> ~Apart(u, v, a, b, c, d)
<1>0. PICK ua \in Int, ub \in Int, vc \in Int, vd \in Int :
         ua = v * a /\ ub = v * b /\ vc = u * c /\ vd = u * d
  OBVIOUS
<1>00. ua = a * v /\ ub = b * v /\ vc = c * u /\ vd = d * u
  BY <1>0
<1>1. ua <= ub /\ vc <= vd
  BY <1>00, Scales
<1>2. u = 0 => vc = 0 /\ vd = 0
  BY <1>00
<1>3. v = 0 => ua = 0 /\ ub = 0
  BY <1>00
<1>4. u > 0 => vd >= 0
  <2>1. 0 * u <= d * u
    BY Scales
  <2> QED BY <2>1, <1>00
<1>5. v > 0 => ub >= 0
  <2>1. 0 * v <= b * v
    BY Scales
  <2> QED BY <2>1, <1>00
<1>6. u = 0 => (v > 0 => ua <= 0)
  <2>1. ASSUME u = 0 PROVE a * v <= 0 * v
    BY <2>1, Scales
  <2> QED BY <2>1, <1>00
<1>7. v = 0 => (u > 0 => vc <= 0)
  <2>1. ASSUME v = 0 PROVE c * u <= 0 * u
    BY <2>1, Scales
  <2> QED BY <2>1, <1>00
<1>8. Apart(u, v, a, b, c, d) <=> \/ vc - ua > 0 /\ vc - ub > 0 /\ vd - ua > 0 /\ vd - ub > 0
                                  \/ vc - ua < 0 /\ vc - ub < 0 /\ vd - ua < 0 /\ vd - ub < 0
  BY <1>0 DEF Apart
<1>9. Clipped(u, v, a, b, c, d) <=> (u > 0 /\ v > 0 => ua <= vd /\ vc <= ub)
  BY <1>00 DEF Clipped
<1> QED BY <1>1, <1>2, <1>3, <1>4, <1>5, <1>6, <1>7, <1>8, <1>9

\* A segment from s to e and a box, on one axis, mirrored so that s is the
\* origin and e not left of it.
Extent(s, e) == IF s <= e THEN e - s ELSE s - e
Near(s, e, low, high) == IF s <= e THEN low - s ELSE s - high
Far(s, e, low, high) == IF s <= e THEN high - s ELSE s - low

ClippedAt(s, e, box) ==
    Clipped(Extent(s[1], e[1]), Extent(s[2], e[2]),
            Near(s[1], e[1], box.left, box.right), Far(s[1], e[1], box.left, box.right),
            Near(s[2], e[2], box.bottom, box.top), Far(s[2], e[2], box.bottom, box.top))

ApartAt(s, e, box) ==
    Apart(Extent(s[1], e[1]), Extent(s[2], e[2]),
          Near(s[1], e[1], box.left, box.right), Far(s[1], e[1], box.left, box.right),
          Near(s[2], e[2], box.bottom, box.top), Far(s[2], e[2], box.bottom, box.top))

\* The ratios at which a segment crosses two borders, if it does.
Ratios(u, a, v, c) ==
    (IF u > 0 THEN {<<a, u>>} ELSE {}) \cup (IF v > 0 THEN {<<c, v>>} ELSE {})

(* The borders that a segment crosses, with the ratio at which it does.    *)
LEMMA RatiosAre ==
    ASSUME NEW u, NEW a, NEW v, NEW c, NEW l
    PROVE  l \in Ratios(u, a, v, c) <=> (u > 0 /\ l = <<a, u>>) \/ (v > 0 /\ l = <<c, v>>)
<1>1. CASE u > 0 /\ v > 0
  <2>1. Ratios(u, a, v, c) = {<<a, u>>} \cup {<<c, v>>}
    BY <1>1 DEF Ratios
  <2> QED BY <2>1, <1>1
<1>2. CASE u > 0 /\ ~(v > 0)
  <2>1. Ratios(u, a, v, c) = {<<a, u>>} \cup {}
    BY <1>2 DEF Ratios
  <2> QED BY <2>1, <1>2
<1>3. CASE ~(u > 0) /\ v > 0
  <2>1. Ratios(u, a, v, c) = {} \cup {<<c, v>>}
    BY <1>3 DEF Ratios
  <2> QED BY <2>1, <1>3
<1>4. CASE ~(u > 0) /\ ~(v > 0)
  <2>1. Ratios(u, a, v, c) = {} \cup {}
    BY <1>4 DEF Ratios
  <2> QED BY <2>1, <1>4
<1> QED BY <1>1, <1>2, <1>3, <1>4

(* The ratios of the four borders of a box, one by one (the loop of        *)
(* _segment_intersects_rect).                                              *)
LEMMA FourRatios ==
    ASSUME NEW x1 \in Int, NEW y1 \in Int, NEW x2 \in Int, NEW y2 \in Int,
           NEW x3 \in Int, NEW y3 \in Int, NEW x4 \in Int, NEW y4 \in Int,
           NEW borders, borders = {<<x1, y1>>, <<x2, y2>>, <<x3, y3>>, <<x4, y4>>}, NEW l
    PROVE  /\ (\E q \in borders : q[1] < 0 /\ l = <<-q[2], -q[1]>>)
                <=> \/ (x1 < 0 /\ l = <<-y1, -x1>>) \/ (x2 < 0 /\ l = <<-y2, -x2>>)
                    \/ (x3 < 0 /\ l = <<-y3, -x3>>) \/ (x4 < 0 /\ l = <<-y4, -x4>>)
           /\ (\E q \in borders : q[1] > 0 /\ l = <<q[2], q[1]>>)
                <=> \/ (x1 > 0 /\ l = <<y1, x1>>) \/ (x2 > 0 /\ l = <<y2, x2>>)
                    \/ (x3 > 0 /\ l = <<y3, x3>>) \/ (x4 > 0 /\ l = <<y4, x4>>)
  OBVIOUS

(* No border is left before another is entered, exactly if clipping leaves *)
(* a part of the segment (lower and upper of _segment_intersects_rect).    *)
LEMMA RatiosAreClipped ==
    ASSUME NEW u \in Nat, NEW v \in Nat, NEW a \in Int, NEW b \in Int,
           NEW c \in Int, NEW d \in Int, a <= b, c <= d,
           u = 0 => a <= 0 /\ 0 <= b, v = 0 => c <= 0 /\ 0 <= d
    PROVE  (\A l \in Ratios(u, a, v, c) \cup {<<0, 1>>}, p \in Ratios(u, b, v, d) \cup {<<1, 1>>} :
              l[1] * p[2] <= p[1] * l[2])
           <=> Clipped(u, v, a, b, c, d)
<1> DEFINE L == Ratios(u, a, v, c) \cup {<<0, 1>>}
           P == Ratios(u, b, v, d) \cup {<<1, 1>>}
<1>1. a * u <= b * u /\ c * v <= d * v
  BY Scales
<1>2. ASSUME \A l \in L, p \in P : l[1] * p[2] <= p[1] * l[2]
      PROVE  Clipped(u, v, a, b, c, d)
  <2>1. <<0, 1>> \in L /\ <<1, 1>> \in P
    OBVIOUS
  <2>2. ASSUME u > 0 PROVE a <= u /\ 0 <= b
    <3>1. <<a, u>> \in L /\ <<b, u>> \in P
      BY <2>2 DEF Ratios
    <3>2. a * 1 <= 1 * u /\ 0 * u <= b * 1
      BY <3>1, <2>1, <1>2
    <3> QED BY <3>2
  <2>3. ASSUME v > 0 PROVE c <= v /\ 0 <= d
    <3>1. <<c, v>> \in L /\ <<d, v>> \in P
      BY <2>3 DEF Ratios
    <3>2. c * 1 <= 1 * v /\ 0 * v <= d * 1
      BY <3>1, <2>1, <1>2
    <3> QED BY <3>2
  <2>4. ASSUME u > 0, v > 0 PROVE a * v <= d * u /\ c * u <= b * v
    <3>1. <<a, u>> \in L /\ <<d, v>> \in P /\ <<c, v>> \in L /\ <<b, u>> \in P
      BY <2>4 DEF Ratios
    <3> QED BY <3>1, <1>2
  <2> QED BY <2>2, <2>3, <2>4 DEF Clipped
<1>3. ASSUME Clipped(u, v, a, b, c, d), NEW l \in L, NEW p \in P
      PROVE  l[1] * p[2] <= p[1] * l[2]
  <2>1. \/ l = <<0, 1>>
        \/ l = <<a, u>> /\ u > 0
        \/ l = <<c, v>> /\ v > 0
    BY DEF Ratios
  <2>2. \/ p = <<1, 1>>
        \/ p = <<b, u>> /\ u > 0
        \/ p = <<d, v>> /\ v > 0
    BY DEF Ratios
  <2>3. CASE l = <<0, 1>>
    BY <1>3, <2>3, <2>2 DEF Clipped
  <2>4. CASE p = <<1, 1>>
    BY <1>3, <2>4, <2>1 DEF Clipped
  <2>5. CASE l = <<a, u>> /\ u > 0 /\ p = <<b, u>>
    BY <2>5, <1>1
  <2>6. CASE l = <<c, v>> /\ v > 0 /\ p = <<d, v>>
    BY <2>6, <1>1
  <2>7. CASE l = <<a, u>> /\ u > 0 /\ p = <<d, v>> /\ v > 0
    BY <2>7, <1>3 DEF Clipped
  <2>8. CASE l = <<c, v>> /\ v > 0 /\ p = <<b, u>> /\ u > 0
    BY <2>8, <1>3 DEF Clipped
  <2> QED BY <2>1, <2>2, <2>3, <2>4, <2>5, <2>6, <2>7, <2>8
<1> QED BY <1>2, <1>3

(* The clipping of the code is clipping in the first quadrant, mirrored as *)
(* the direction of the segment asks for (_segment_intersects_rect).       *)
LEMMA MeetsIsClipped ==
    ASSUME NEW s \in Int \X Int, NEW e \in Int \X Int, NEW box, IsBox(box)
    PROVE  SegmentMeets(s, e, box) <=> ClippedAt(s, e, box)
<1>1. PICK s1 \in Int, s2 \in Int : s = <<s1, s2>>
  OBVIOUS
<1>2. PICK e1 \in Int, e2 \in Int : e = <<e1, e2>>
  OBVIOUS
<1>3. PICK left \in Int, right \in Int, bottom \in Int, top \in Int :
         /\ box.left = left /\ box.right = right /\ box.bottom = bottom /\ box.top = top
         /\ left <= right /\ bottom <= top
  BY DEF IsBox
<1> DEFINE dx == e1 - s1  dy == e2 - s2
           u == Extent(s1, e1)  a == Near(s1, e1, left, right)  b == Far(s1, e1, left, right)
           v == Extent(s2, e2)  c == Near(s2, e2, bottom, top)  d == Far(s2, e2, bottom, top)
           borders == {<<-dx, s1 - left>>, <<dx, right - s1>>,
                       <<-dy, s2 - bottom>>, <<dy, top - s2>>}
           lower == {<<-q[2], -q[1]>> : q \in {r \in borders : r[1] < 0}} \cup {<<0, 1>>}
           upper == {<<q[2], q[1]>> : q \in {r \in borders : r[1] > 0}} \cup {<<1, 1>>}
           meet == /\ \A q \in borders : q[1] = 0 => q[2] >= 0
                   /\ \A l \in lower, p \in upper : l[1] * p[2] <= p[1] * l[2]
<1>0. PICK x1 \in Int, x2 \in Int, x3 \in Int, x4 \in Int,
            y1 \in Int, y2 \in Int, y3 \in Int, y4 \in Int :
         /\ x1 = -dx /\ x2 = dx /\ x3 = -dy /\ x4 = dy
         /\ y1 = s1 - left /\ y2 = right - s1 /\ y3 = s2 - bottom /\ y4 = top - s2
  OBVIOUS
<1>00. borders = {<<x1, y1>>, <<x2, y2>>, <<x3, y3>>, <<x4, y4>>}
  BY <1>0
<1>4. SegmentMeets(s, e, box) <=> meet
  BY <1>1, <1>2, <1>3 DEF SegmentMeets
<1>5. ClippedAt(s, e, box) <=> Clipped(u, v, a, b, c, d)
  BY <1>1, <1>2, <1>3 DEF ClippedAt
<1>6. /\ u \in Nat /\ v \in Nat /\ a \in Int /\ b \in Int /\ c \in Int /\ d \in Int
      /\ a <= b /\ c <= d
  BY <1>3 DEF Extent, Near, Far
<1>7. (\A q \in borders : q[1] = 0 => q[2] >= 0)
        <=> (u = 0 => a <= 0 /\ 0 <= b) /\ (v = 0 => c <= 0 /\ 0 <= d)
  BY DEF Extent, Near, Far
<1>8. lower = Ratios(u, a, v, c) \cup {<<0, 1>>}
  <2>1. ASSUME NEW l PROVE l \in lower <=> l \in Ratios(u, a, v, c) \cup {<<0, 1>>}
    <3>1. l \in lower <=>
            \/ l = <<0, 1>>
            \/ (x1 < 0 /\ l = <<-y1, -x1>>) \/ (x2 < 0 /\ l = <<-y2, -x2>>)
            \/ (x3 < 0 /\ l = <<-y3, -x3>>) \/ (x4 < 0 /\ l = <<-y4, -x4>>)
      <4> HIDE DEF borders
      <4>1. l \in lower <=> l = <<0, 1>> \/ \E q \in borders : q[1] < 0 /\ l = <<-q[2], -q[1]>>
        OBVIOUS
      <4> QED BY <4>1, <1>00, FourRatios
    <3>2. /\ x1 < 0 => u > 0 /\ <<-y1, -x1>> = <<a, u>>
          /\ x2 < 0 => u > 0 /\ <<-y2, -x2>> = <<a, u>>
          /\ u > 0 => x1 < 0 \/ x2 < 0
      BY <1>0 DEF Extent, Near, Far
    <3>3. /\ x3 < 0 => v > 0 /\ <<-y3, -x3>> = <<c, v>>
          /\ x4 < 0 => v > 0 /\ <<-y4, -x4>> = <<c, v>>
          /\ v > 0 => x3 < 0 \/ x4 < 0
      BY <1>0 DEF Extent, Near, Far
    <3>4. l \in Ratios(u, a, v, c) \cup {<<0, 1>>} <=>
            \/ l = <<0, 1>> \/ (u > 0 /\ l = <<a, u>>) \/ (v > 0 /\ l = <<c, v>>)
      BY RatiosAre
    <3> HIDE DEF lower, u, v, a, c
    <3> QED BY <3>1, <3>2, <3>3, <3>4
  <2> HIDE DEF lower
  <2> QED BY <2>1
<1>9. upper = Ratios(u, b, v, d) \cup {<<1, 1>>}
  <2>1. ASSUME NEW l PROVE l \in upper <=> l \in Ratios(u, b, v, d) \cup {<<1, 1>>}
    <3>1. l \in upper <=>
            \/ l = <<1, 1>>
            \/ (x1 > 0 /\ l = <<y1, x1>>) \/ (x2 > 0 /\ l = <<y2, x2>>)
            \/ (x3 > 0 /\ l = <<y3, x3>>) \/ (x4 > 0 /\ l = <<y4, x4>>)
      <4> HIDE DEF borders
      <4>1. l \in upper <=> l = <<1, 1>> \/ \E q \in borders : q[1] > 0 /\ l = <<q[2], q[1]>>
        OBVIOUS
      <4> QED BY <4>1, <1>00, FourRatios
    <3>2. /\ x1 > 0 => u > 0 /\ <<y1, x1>> = <<b, u>>
          /\ x2 > 0 => u > 0 /\ <<y2, x2>> = <<b, u>>
          /\ u > 0 => x1 > 0 \/ x2 > 0
      BY <1>0 DEF Extent, Near, Far
    <3>3. /\ x3 > 0 => v > 0 /\ <<y3, x3>> = <<d, v>>
          /\ x4 > 0 => v > 0 /\ <<y4, x4>> = <<d, v>>
          /\ v > 0 => x3 > 0 \/ x4 > 0
      BY <1>0 DEF Extent, Near, Far
    <3>4. l \in Ratios(u, b, v, d) \cup {<<1, 1>>} <=>
            \/ l = <<1, 1>> \/ (u > 0 /\ l = <<b, u>>) \/ (v > 0 /\ l = <<d, v>>)
      BY RatiosAre
    <3> HIDE DEF upper, u, v, b, d
    <3> QED BY <3>1, <3>2, <3>3, <3>4
  <2> HIDE DEF upper
  <2> QED BY <2>1
<1> HIDE DEF u, v, a, b, c, d, borders, lower, upper
<1>10. CASE (u = 0 => a <= 0 /\ 0 <= b) /\ (v = 0 => c <= 0 /\ 0 <= d)
  <2>1. (\A l \in lower, p \in upper : l[1] * p[2] <= p[1] * l[2])
          <=> Clipped(u, v, a, b, c, d)
    BY <1>6, <1>8, <1>9, <1>10, RatiosAreClipped
  <2> QED BY <2>1, <1>4, <1>5, <1>7, <1>10
<1>11. CASE ~((u = 0 => a <= 0 /\ 0 <= b) /\ (v = 0 => c <= 0 /\ 0 <= d))
  <2>1. ~Clipped(u, v, a, b, c, d)
    BY <1>6, <1>11 DEF Clipped
  <2> QED BY <2>1, <1>4, <1>5, <1>7, <1>11
<1> QED BY <1>10, <1>11

(* Four numbers are all above, or all below, zero if their least, or their *)
(* greatest, is.                                                           *)
LEMMA FourExtremes ==
    ASSUME NEW p \in Int, NEW q \in Int, NEW r \in Int, NEW t \in Int,
           NEW S, S = {p, q, r, t}
    PROVE  /\ Min(S) > 0 <=> p > 0 /\ q > 0 /\ r > 0 /\ t > 0
           /\ Max(S) < 0 <=> p < 0 /\ q < 0 /\ r < 0 /\ t < 0
<1>1. S \in SUBSET Int
  OBVIOUS
<1>2. PICK m \in S : \A y \in S : m <= y
  OBVIOUS
<1>3. Min(S) = m
  BY <1>1, <1>2, IsLeast
<1>4. PICK n \in S : \A y \in S : y <= n
  OBVIOUS
<1>5. Max(S) = n
  BY <1>1, <1>4, IsGreatest
<1>6. m > 0 <=> p > 0 /\ q > 0 /\ r > 0 /\ t > 0
  BY <1>2
<1>7. n < 0 <=> p < 0 /\ q < 0 /\ r < 0 /\ t < 0
  BY <1>4
<1> QED BY <1>3, <1>5, <1>6, <1>7

(* The corners of a box are apart from a segment if they are on one side   *)
(* of its line.                                                            *)
LEMMA ApartIsOneSide ==
    ASSUME NEW s \in Int \X Int, NEW e \in Int \X Int, NEW box, IsBox(box)
    PROVE  ApartAt(s, e, box) <=>
             \/ \A p \in Corners(box) : Turn(s, e, p) > 0
             \/ \A p \in Corners(box) : Turn(s, e, p) < 0
<1>1. PICK s1 \in Int, s2 \in Int : s = <<s1, s2>>
  OBVIOUS
<1>2. PICK e1 \in Int, e2 \in Int : e = <<e1, e2>>
  OBVIOUS
<1>3. PICK left \in Int, right \in Int, bottom \in Int, top \in Int :
         /\ box.left = left /\ box.right = right /\ box.bottom = bottom /\ box.top = top
         /\ left <= right /\ bottom <= top
  BY DEF IsBox
<1> DEFINE u == Extent(s1, e1)  a == Near(s1, e1, left, right)  b == Far(s1, e1, left, right)
           v == Extent(s2, e2)  c == Near(s2, e2, bottom, top)  d == Far(s2, e2, bottom, top)
           T(x, y) == (e1 - s1) * (y - s2) - (e2 - s2) * (x - s1)
<1>4. ApartAt(s, e, box) <=> Apart(u, v, a, b, c, d)
  BY <1>1, <1>2, <1>3 DEF ApartAt
<1>5. Corners(box) = {<<left, bottom>>, <<left, top>>, <<right, bottom>>, <<right, top>>}
  BY <1>3 DEF Corners
<1>6. \A x, y : Turn(s, e, <<x, y>>) = T(x, y)
  BY <1>1, <1>2 DEF Turn
<1>7. /\ T(left, bottom) \in Int /\ T(left, top) \in Int
      /\ T(right, bottom) \in Int /\ T(right, top) \in Int
  OBVIOUS
<1>8. /\ (\A p \in Corners(box) : Turn(s, e, p) > 0) <=>
            /\ T(left, bottom) > 0 /\ T(left, top) > 0
            /\ T(right, bottom) > 0 /\ T(right, top) > 0
      /\ (\A p \in Corners(box) : Turn(s, e, p) < 0) <=>
            /\ T(left, bottom) < 0 /\ T(left, top) < 0
            /\ T(right, bottom) < 0 /\ T(right, top) < 0
  <2> HIDE DEF T
  <2> QED BY <1>5, <1>6
<1>9. CASE s1 <= e1 /\ s2 <= e2
  <2>1. /\ u * c - v * a = T(left, bottom) /\ u * d - v * a = T(left, top)
        /\ u * c - v * b = T(right, bottom) /\ u * d - v * b = T(right, top)
    BY <1>9 DEF Extent, Near, Far
  <2> HIDE DEF T, u, v, a, b, c, d
  <2> QED BY <2>1, <1>4, <1>8 DEF Apart
<1>10. CASE s1 <= e1 /\ ~(s2 <= e2)
  <2>1. /\ u * c - v * a = -T(left, top) /\ u * d - v * a = -T(left, bottom)
        /\ u * c - v * b = -T(right, top) /\ u * d - v * b = -T(right, bottom)
    BY <1>10 DEF Extent, Near, Far
  <2> HIDE DEF T, u, v, a, b, c, d
  <2> QED BY <2>1, <1>4, <1>7, <1>8 DEF Apart
<1>11. CASE ~(s1 <= e1) /\ s2 <= e2
  <2>1. /\ u * c - v * a = -T(right, bottom) /\ u * d - v * a = -T(right, top)
        /\ u * c - v * b = -T(left, bottom) /\ u * d - v * b = -T(left, top)
    BY <1>11 DEF Extent, Near, Far
  <2> HIDE DEF T, u, v, a, b, c, d
  <2> QED BY <2>1, <1>4, <1>7, <1>8 DEF Apart
<1>12. CASE ~(s1 <= e1) /\ ~(s2 <= e2)
  <2>1. /\ u * c - v * a = T(right, top) /\ u * d - v * a = T(right, bottom)
        /\ u * c - v * b = T(left, top) /\ u * d - v * b = T(left, bottom)
    BY <1>12 DEF Extent, Near, Far
  <2> HIDE DEF T, u, v, a, b, c, d
  <2> QED BY <2>1, <1>4, <1>8 DEF Apart
<1> QED BY <1>9, <1>10, <1>11, <1>12

(* A segment meets a box, by the clipping of the code, if and only if no   *)
(* axis and no edge separates them (_segment_intersects_rect).             *)
LEMMA SegmentTouches ==
    ASSUME NEW s \in Spots, NEW e \in Spots, NEW box, IsBox(box)
    PROVE  /\ SegmentMeets(s, e, box) <=> ConvexTouches(<<s, e>>, box)
           /\ SegmentMeets(s, e, box) => Overlap(Box({s, e}), box)
<1>0. World \subseteq Int
  BY PrecisionAssumption DEF World
<1>1. PICK s1 \in Int, s2 \in Int : s = <<s1, s2>>
  <2>1. PICK x \in World, y \in World : s = <<x, y>>
    BY DEF Spots
  <2> QED BY <2>1, <1>0
<1>2. PICK e1 \in Int, e2 \in Int : e = <<e1, e2>>
  <2>1. PICK x \in World, y \in World : e = <<x, y>>
    BY DEF Spots
  <2> QED BY <2>1, <1>0
<1>3. PICK left \in Int, right \in Int, bottom \in Int, top \in Int :
         /\ box.left = left /\ box.right = right /\ box.bottom = bottom /\ box.top = top
         /\ left <= right /\ bottom <= top
  BY DEF IsBox
<1> DEFINE u == Extent(s1, e1)  a == Near(s1, e1, left, right)  b == Far(s1, e1, left, right)
           v == Extent(s2, e2)  c == Near(s2, e2, bottom, top)  d == Far(s2, e2, bottom, top)
<1>4. /\ u \in Nat /\ v \in Nat /\ a \in Int /\ b \in Int /\ c \in Int /\ d \in Int
      /\ a <= b /\ c <= d
  BY <1>3 DEF Extent, Near, Far
<1>5. Overlap(Box({s, e}), box) <=> a <= u /\ 0 <= b /\ c <= v /\ 0 <= d
  <2>1. PICK w : w = Box({s, e})
    OBVIOUS
  <2>2. /\ w \in [left : Int, bottom : Int, right : Int, top : Int]
        /\ Within(s, w) /\ Within(e, w)
        /\ w.left \in {s1, e1} /\ w.right \in {s1, e1}
        /\ w.bottom \in {s2, e2} /\ w.top \in {s2, e2}
    <3>1. {s, e} \in SUBSET Spots /\ {s, e} /= {}
      OBVIOUS
    <3> QED BY <3>1, <2>1, <1>1, <1>2, BoxHolds DEF IsBox
  <2>3. /\ w.left <= s1 /\ w.left <= e1 /\ s1 <= w.right /\ e1 <= w.right
        /\ w.bottom <= s2 /\ w.bottom <= e2 /\ s2 <= w.top /\ e2 <= w.top
    BY <2>2, <1>1, <1>2 DEF Within
  <2>4. Overlap(w, box) <=> w.left <= right /\ left <= w.right /\ w.bottom <= top /\ bottom <= w.top
    BY <1>3 DEF Overlap
  <2> QED BY <2>1, <2>2, <2>3, <2>4 DEF Extent, Near, Far
<1>6. ConvexTouches(<<s, e>>, box) <=>
        Overlap(Box({s, e}), box) /\ ~Apart(u, v, a, b, c, d)
  <2>1. ToSet(<<s, e>>) = {s, e}
    BY DEF ToSet
  <2>2. Edges(<<s, e>>) = {<<s, e>>}
    BY DEF Edges
  <2>3. {Turn(s, e, p) : p \in {s, e}} = {0}
    <3>1. Turn(s, e, s) = 0 /\ Turn(s, e, e) = 0
      BY <1>1, <1>2 DEF Turn
    <3> QED BY <3>1
  <2>4. Max({0}) = 0 /\ Min({0}) = 0
    BY IsLeast, IsGreatest
  <2> DEFINE other == {Turn(s, e, p) : p \in Corners(box)}
  <2>5. other = {Turn(s, e, <<left, bottom>>), Turn(s, e, <<left, top>>),
                 Turn(s, e, <<right, bottom>>), Turn(s, e, <<right, top>>)}
    <3>1. Corners(box) = {<<left, bottom>>, <<left, top>>, <<right, bottom>>, <<right, top>>}
      BY <1>3 DEF Corners
    <3> QED BY <3>1
  <2>6. \A x, y \in Int : Turn(s, e, <<x, y>>) \in Int
    BY <1>1, <1>2 DEF Turn
  <2>7. /\ Min(other) > 0 <=> \A p \in Corners(box) : Turn(s, e, p) > 0
        /\ Max(other) < 0 <=> \A p \in Corners(box) : Turn(s, e, p) < 0
    <3>1. /\ Min(other) > 0 <=> /\ Turn(s, e, <<left, bottom>>) > 0
                                /\ Turn(s, e, <<left, top>>) > 0
                                /\ Turn(s, e, <<right, bottom>>) > 0
                                /\ Turn(s, e, <<right, top>>) > 0
          /\ Max(other) < 0 <=> /\ Turn(s, e, <<left, bottom>>) < 0
                                /\ Turn(s, e, <<left, top>>) < 0
                                /\ Turn(s, e, <<right, bottom>>) < 0
                                /\ Turn(s, e, <<right, top>>) < 0
      <4>1. PICK p \in Int, q \in Int, r \in Int, t \in Int :
               /\ p = Turn(s, e, <<left, bottom>>) /\ q = Turn(s, e, <<left, top>>)
               /\ r = Turn(s, e, <<right, bottom>>) /\ t = Turn(s, e, <<right, top>>)
        BY <2>6
      <4>2. other = {p, q, r, t}
        BY <2>5, <4>1
      <4> HIDE DEF other
      <4>3. /\ Min(other) > 0 <=> p > 0 /\ q > 0 /\ r > 0 /\ t > 0
            /\ Max(other) < 0 <=> p < 0 /\ q < 0 /\ r < 0 /\ t < 0
        BY <4>2, FourExtremes
      <4> QED BY <4>1, <4>3
    <3>2. Corners(box) = {<<left, bottom>>, <<left, top>>, <<right, bottom>>, <<right, top>>}
      BY <1>3 DEF Corners
    <3> HIDE DEF other
    <3> QED BY <3>1, <3>2
  <2>8. ConvexTouches(<<s, e>>, box) <=>
          /\ Overlap(Box({s, e}), box)
          /\ ~(\/ Max({Turn(s, e, p) : p \in {s, e}}) <= 0 /\ Min(other) > 0
               \/ Min({Turn(s, e, p) : p \in {s, e}}) >= 0 /\ Max(other) < 0)
    <3> DEFINE Between(g) ==
                 LET side == {Turn(g[1], g[2], p) : p \in ToSet(<<s, e>>)}
                     corners == {Turn(g[1], g[2], p) : p \in Corners(box)}
                 IN  \/ Max(side) <= 0 /\ Min(corners) > 0
                     \/ Min(side) >= 0 /\ Max(corners) < 0
    <3>1. ConvexTouches(<<s, e>>, box) <=>
            /\ Overlap(Box(ToSet(<<s, e>>)), box)
            /\ ~\E g \in Edges(<<s, e>>) : Between(g)
      BY DEF ConvexTouches
    <3>2. Between(<<s, e>>) <=>
            \/ Max({Turn(s, e, p) : p \in {s, e}}) <= 0 /\ Min(other) > 0
            \/ Min({Turn(s, e, p) : p \in {s, e}}) >= 0 /\ Max(other) < 0
      BY <2>1
    <3> HIDE DEF Between
    <3> QED BY <3>1, <3>2, <2>1, <2>2
  <2>9. ApartAt(s, e, box) <=> Apart(u, v, a, b, c, d)
    BY <1>1, <1>2, <1>3 DEF ApartAt
  <2> HIDE DEF other, u, v, a, b, c, d
  <2>10. s \in Int \X Int /\ e \in Int \X Int
    BY <1>1, <1>2
  <2> QED BY <2>3, <2>4, <2>7, <2>8, <2>9, <2>10, ApartIsOneSide
<1>7. SegmentMeets(s, e, box) <=> Clipped(u, v, a, b, c, d)
  <2>1. SegmentMeets(s, e, box) <=> ClippedAt(s, e, box)
    BY <1>1, <1>2, MeetsIsClipped
  <2> QED BY <2>1, <1>1, <1>2, <1>3 DEF ClippedAt
<1> HIDE DEF u, v, a, b, c, d
<1>8. Clipped(u, v, a, b, c, d) => a <= u /\ 0 <= b /\ c <= v /\ 0 <= d
  BY DEF Clipped
<1>9. a <= u /\ 0 <= b /\ c <= v /\ 0 <= d
        => (Clipped(u, v, a, b, c, d) <=> ~Apart(u, v, a, b, c, d))
  BY <1>4, ClippedIsNotApart
<1> QED BY <1>5, <1>6, <1>7, <1>8, <1>9

(* A sequence is over every set that holds its elements.                   *)
LEMMA SeqIsIn ==
    ASSUME NEW S, NEW T, NEW s \in Seq(S), \A k \in 1 .. Len(s) : s[k] \in T
    PROVE  s \in Seq(T)
<1>1. Len(s) \in Nat /\ s \in [1 .. Len(s) -> S]
  OBVIOUS
<1>2. s \in [1 .. Len(s) -> T]
  BY <1>1
<1> QED BY <1>1, <1>2, SeqDef

(* An edge joins two points of its line.                                   *)
LEMMA EdgeIs ==
    ASSUME NEW line \in Seq(Spots), NEW e \in Edges(line)
    PROVE  \E s \in Spots, t \in Spots :
             e = <<s, t>> /\ s \in ToSet(line) /\ t \in ToSet(line)
<1>1. PICK i \in 1 .. Len(line) - 1 : e = <<line[i], line[i + 1]>>
  BY DEF Edges
<1>2. i \in DOMAIN line /\ i + 1 \in DOMAIN line
  OBVIOUS
<1> QED BY <1>1, <1>2 DEF ToSet

(* The cells of a segment are those it touches (_cells_for_component).     *)
LEMMA SegmentCells ==
    ASSUME NEW size, IsSize(size), NEW s \in Spots, NEW t \in Spots
    PROVE  {c \in CandidateCells({s, t}, size) :
              LineMeets(<<s, t>>, Cell(c[1], c[2], size))}
           = {c \in Cells(size) : ConvexTouches(<<s, t>>, Cell(c[1], c[2], size))}
<1>1. {s, t} \in SUBSET Spots /\ {s, t} /= {}
  OBVIOUS
<1>2. CandidateCells({s, t}, size) =
        {c \in Cells(size) : Overlap(Box({s, t}), Cell(c[1], c[2], size))}
  BY <1>1, CandidatesOverlap
<1>3. ASSUME NEW c \in Cells(size)
      PROVE  /\ LineMeets(<<s, t>>, Cell(c[1], c[2], size))
                  <=> ConvexTouches(<<s, t>>, Cell(c[1], c[2], size))
             /\ LineMeets(<<s, t>>, Cell(c[1], c[2], size))
                  => Overlap(Box({s, t}), Cell(c[1], c[2], size))
  <2>1. Edges(<<s, t>>) = {<<s, t>>}
    BY DEF Edges
  <2>2. PICK box : box = Cell(c[1], c[2], size)
    OBVIOUS
  <2>3. IsBox(box)
    BY <2>2, CellIsBox
  <2>4. LineMeets(<<s, t>>, box) <=> SegmentMeets(s, t, box)
    BY <2>1 DEF LineMeets
  <2> QED BY <2>2, <2>3, <2>4, SegmentTouches
<1> QED BY <1>2, <1>3

(* The cells of a line are the ones that one of its segments touches       *)
(* (_covered_cells).                                                       *)
LEMMA LineCellsTouch ==
    ASSUME NEW size, IsSize(size), NEW line \in Seq(Spots)
    PROVE  LineCells(line, size) =
             {c \in Cells(size) :
                \E e \in Edges(line) : ConvexTouches(e, Cell(c[1], c[2], size))}
<1> DEFINE Of(e) == {c \in CandidateCells({e[1], e[2]}, size) :
                       LineMeets(e, Cell(c[1], c[2], size))}
           At(e) == {c \in Cells(size) : ConvexTouches(e, Cell(c[1], c[2], size))}
<1>1. ASSUME NEW e \in Edges(line) PROVE Of(e) = At(e)
  <2>1. PICK s \in Spots, t \in Spots : e = <<s, t>>
    BY EdgeIs
  <2> QED BY <2>1, SegmentCells
<1>2. LineCells(line, size) = UNION {Of(e) : e \in Edges(line)}
  BY DEF LineCells
<1> HIDE DEF Of
<1>3. LineCells(line, size) = UNION {At(e) : e \in Edges(line)}
  BY <1>1, <1>2
<1> QED BY <1>3

\* Coordinates in the world, nested as in a MultiPolygon.
Depth == Seq(Seq(Seq(Spots)))

(* The points of a geometry are those at some place of it                  *)
(* (_walk_coordinates).                                                    *)
LEMMA PointsAre ==
    ASSUME NEW g, NEW S, g.coordinates \in Seq(Seq(Seq(S))), NEW p
    PROVE  p \in Points(g) <=>
             \E i \in 1 .. Len(g.coordinates) :
               \E j \in 1 .. Len(g.coordinates[i]) : p \in ToSet(g.coordinates[i][j])
<1>1. PICK co \in Seq(Seq(Seq(S))) : co = g.coordinates
  OBVIOUS
<1>2. DOMAIN co = 1 .. Len(co) /\ \A i \in 1 .. Len(co) : co[i] \in Seq(Seq(S))
  OBVIOUS
<1>3. \A i \in 1 .. Len(co) : DOMAIN co[i] = 1 .. Len(co[i])
  BY <1>2
<1>4. Points(g) = UNION {UNION {ToSet(co[i][j]) : j \in DOMAIN co[i]} : i \in DOMAIN co}
  BY <1>1 DEF Points
<1>5. p \in Points(g) <=> \E i \in DOMAIN co : \E j \in DOMAIN co[i] : p \in ToSet(co[i][j])
  BY <1>4
<1> QED BY <1>1, <1>2, <1>3, <1>5

(* A valid geometry is in the world (validate_geometry).                   *)
LEMMA ValidIsPlaced ==
    ASSUME NEW g \in Geometries, Valid(g)
    PROVE  /\ g.coordinates \in Depth /\ g.coordinates /= <<>>
           /\ Points(g) \in SUBSET Spots /\ Points(g) /= {}
<1>1. PICK co \in Seq(Seq(Seq(Int \X Int))) : co = g.coordinates
  BY DEF Geometries
<1>2. /\ DOMAIN co = 1 .. Len(co)
      /\ \A i \in 1 .. Len(co) : co[i] \in Seq(Seq(Int \X Int))
  OBVIOUS
<1>3. \A i \in 1 .. Len(co) :
        /\ DOMAIN co[i] = 1 .. Len(co[i])
        /\ \A j \in 1 .. Len(co[i]) : co[i][j] \in Seq(Int \X Int)
  BY <1>2
<1>4. \A p \in Points(g) : {p[1], p[2]} \subseteq World
  BY DEF Valid, World
<1>5. \A i \in 1 .. Len(co) : \A j \in 1 .. Len(co[i]) : ToSet(co[i][j]) \subseteq Points(g)
  BY <1>1, PointsAre
<1>6. ASSUME NEW i \in 1 .. Len(co), NEW j \in 1 .. Len(co[i])
      PROVE  co[i][j] \in Seq(Spots)
  <2>1. PICK s \in Seq(Int \X Int) : s = co[i][j]
    BY <1>3
  <2>2. ASSUME NEW k \in 1 .. Len(s) PROVE s[k] \in Spots
    <3>1. s[k] \in Int \X Int /\ s[k] \in ToSet(s)
      <4>1. k \in DOMAIN s /\ s[k] \in Int \X Int
        OBVIOUS
      <4> QED BY <4>1 DEF ToSet
    <3>2. s[k][1] \in World /\ s[k][2] \in World
      BY <3>1, <2>1, <1>4, <1>5
    <3> QED BY <3>1, <3>2 DEF Spots
  <2>3. s \in Seq(Spots)
    BY <2>2, SeqIsIn
  <2> QED BY <2>1, <2>3
<1>7. ASSUME NEW i \in 1 .. Len(co) PROVE co[i] \in Seq(Seq(Spots))
  <2>1. PICK rings \in Seq(Seq(Int \X Int)) : rings = co[i]
    BY <1>2
  <2> QED BY <2>1, <1>6, SeqIsIn
<1>8. co \in Depth
  BY <1>7, SeqIsIn DEF Depth
<1>9. ASSUME NEW p \in Points(g) PROVE p \in Spots
  <2>0. PICK i \in 1 .. Len(co) : \E j \in 1 .. Len(co[i]) : p \in ToSet(co[i][j])
    BY <1>1, PointsAre
  <2>1. PICK j \in 1 .. Len(co[i]) : p \in ToSet(co[i][j])
    BY <2>0
  <2>2. PICK s \in Seq(Spots) : s = co[i][j]
    BY <1>6
  <2>3. PICK k \in DOMAIN s : p = s[k]
    BY <2>1, <2>2 DEF ToSet
  <2> QED BY <2>2, <2>3
<1>10. Points(g) /= {}
  BY DEF Valid, WellFormed
<1>11. co /= <<>>
  <2>1. PICK p : p \in Points(g)
    BY <1>10
  <2>2. PICK i \in 1 .. Len(co) : TRUE
    BY <2>1, <1>1, PointsAre
  <2> QED BY <2>2
<1> QED BY <1>1, <1>8, <1>9, <1>10, <1>11

(* The cells of lines are those they touch (_covered_cells).               *)
LEMMA LinesCovered ==
    ASSUME NEW size, IsSize(size), NEW g \in Geometries, Valid(g), g.type \in Lines
    PROVE  Covered(g, size) = Touched(g, size)
<1>1. g.coordinates \in Depth /\ g.coordinates /= <<>>
  BY ValidIsPlaced
<1>2. PICK lines \in Seq(Seq(Spots)) : lines = g.coordinates[1]
  BY <1>1 DEF Depth
<1>3. g.type \notin Areas /\ g.type /= "POINT"
  BY DEF Lines, Areas
<1>4. Covered(g, size) = UNION {LineCells(line, size) : line \in ToSet(lines)}
  BY <1>2, <1>3 DEF Covered
<1>5. Touched(g, size) =
        {c \in Cells(size) :
           \E line \in ToSet(lines) :
             \E e \in Edges(line) : ConvexTouches(e, Cell(c[1], c[2], size))}
  BY <1>2, <1>3 DEF Touched, Touches, Cells
<1>6. ASSUME NEW line \in ToSet(lines)
      PROVE  LineCells(line, size) =
               {c \in Cells(size) :
                  \E e \in Edges(line) : ConvexTouches(e, Cell(c[1], c[2], size))}
  <2>1. line \in Seq(Spots)
    BY DEF ToSet
  <2> QED BY <2>1, LineCellsTouch
<1> QED BY <1>4, <1>5, <1>6

(* A point is in the cell that holds it, in each direction                 *)
(* (_clamped_index).                                                       *)
LEMMA IndexHolds ==
    ASSUME NEW size, IsSize(size), NEW x \in World, NEW i \in 0 .. Side \div size - 1
    PROVE  i = Clamped(x \div size, Side \div size) <=>
             /\ i * size <= x /\ x <= (i + 1) * size
             /\ x = (i + 1) * size => x = Side
<1> DEFINE n == Side \div size  q == x \div size  h == Clamped(q, n)
<1>1. Side \in Nat \ {0} /\ size \in Nat \ {0} /\ n \in Nat \ {0} /\ n * size = Side
  BY CellsFill DEF IsSize
<1>2. x \in Nat /\ x <= Side
  BY <1>1 DEF World
<1>3. q \in Int /\ q * size <= x /\ x < q * size + size
  BY <1>1, <1>2, Quotient
<1>4. i \in 0 .. n - 1 /\ i \in Int
  BY <1>1
<1>5. h \in 0 .. n - 1 /\ (q \in 0 .. n - 1 => h = q) /\ (q >= n => h = n - 1)
  BY <1>1, <1>3, ClampedIs
<1>6. x = Side => q = n
  BY <1>1, IsQuotient
<1>7. \A k \in Int : k * size <= x /\ x < k * size + size => q = k
  BY <1>1, <1>2, IsQuotient
<1> HIDE DEF n, q, h
<1>8. i * size \in Int /\ (i + 1) * size = i * size + size
  BY <1>1, <1>4
<1>9. q >= 0
  <2>1. SUFFICES ASSUME q < 0 PROVE FALSE
    BY <1>3
  <2>2. q * size + size <= 0 * size
    BY <2>1, <1>1, <1>3, Grows
  <2> QED BY <2>2, <1>1, <1>2, <1>3
<1>10. q <= n
  <2>1. SUFFICES ASSUME n < q PROVE FALSE
    BY <1>1, <1>3
  <2>2. n * size + size <= q * size
    BY <2>1, <1>1, <1>3, Grows
  <2> QED BY <2>2, <1>1, <1>2, <1>3
<1>11. CASE q < n
  <2>1. h = q /\ x /= Side
    BY <1>11, <1>1, <1>3, <1>5, <1>6, <1>9
  <2>2. i = q => i * size <= x /\ x < i * size + size
    BY <1>3
  <2>3. i * size <= x /\ x < i * size + size => i = q
    BY <1>4, <1>7
  <2> QED BY <2>1, <2>2, <2>3, <1>1, <1>2, <1>4, <1>8 DEF n, q, h
<1>12. CASE q = n
  <2>1. h = n - 1 /\ x = Side
    BY <1>12, <1>1, <1>2, <1>3, <1>5
  <2>2. i = n - 1 => i * size <= x /\ x <= (i + 1) * size
    BY <2>1, <1>1, <1>4, <1>8
  <2>3. ASSUME i /= n - 1 PROVE (i + 1) * size < x
    <3>1. i + 1 < n
      BY <2>3, <1>1, <1>4
    <3>2. (i + 1) * size + size <= n * size
      BY <3>1, <1>1, <1>4, Grows
    <3> QED BY <3>2, <2>1, <1>1, <1>8
  <2>4. i = n - 1 <=> i * size <= x /\ x <= (i + 1) * size
    BY <2>2, <2>3, <1>1, <1>2, <1>8
  <2> QED BY <2>1, <2>4 DEF n, q, h
<1> QED BY <1>1, <1>3, <1>10, <1>11, <1>12

(* A point is in the cell that holds it (locator_for_point).               *)
LEMMA PointIsIn ==
    ASSUME NEW size, IsSize(size), NEW p \in Spots
    PROVE  /\ PointCell(p, size) \in Cells(size)
           /\ \A c \in Cells(size) :
                c = PointCell(p, size) <=> Holds(Cell(c[1], c[2], size), p)
<1>1. PICK x \in World, y \in World : p = <<x, y>>
  BY DEF Spots
<1>2. PICK h, k : h = Clamped(x \div size, Side \div size) /\ k = Clamped(y \div size, Side \div size)
  OBVIOUS
<1>3. PointCell(p, size) = <<h, k>>
  BY <1>1, <1>2 DEF PointCell
<1>4. Side \div size \in Nat \ {0} /\ size \in Nat \ {0} /\ Side \in Nat
  BY CellsFill DEF IsSize
<1>5. x \in Int /\ y \in Int
  BY <1>4 DEF World
<1>6. h \in 0 .. Side \div size - 1 /\ k \in 0 .. Side \div size - 1
  <2>1. x \div size \in Int /\ y \div size \in Int
    BY <1>4, <1>5, Quotient
  <2> QED BY <2>1, <1>2, <1>4, ClampedIs
<1>7. ASSUME NEW i \in 0 .. Side \div size - 1, NEW j \in 0 .. Side \div size - 1
      PROVE  <<i, j>> = <<h, k>> <=> Holds(Cell(i, j, size), p)
  <2>1. i = h <=> /\ i * size <= x /\ x <= (i + 1) * size
                  /\ x = (i + 1) * size => x = Side
    BY <1>2, IndexHolds
  <2>2. j = k <=> /\ j * size <= y /\ y <= (j + 1) * size
                  /\ y = (j + 1) * size => y = Side
    BY <1>2, IndexHolds
  <2>3. PICK box : box = Cell(i, j, size)
    OBVIOUS
  <2>4. /\ box.left = i * size /\ box.right = (i + 1) * size
        /\ box.bottom = j * size /\ box.top = (j + 1) * size
    BY <2>3 DEF Cell
  <2>5. Holds(box, p) <=> /\ i * size <= x /\ x <= (i + 1) * size
                          /\ j * size <= y /\ y <= (j + 1) * size
                          /\ x = (i + 1) * size => x = Side
                          /\ y = (j + 1) * size => y = Side
    BY <2>4, <1>1 DEF Holds, Within
  <2> QED BY <2>1, <2>2, <2>3, <2>5
<1>8. ASSUME NEW c \in Cells(size)
      PROVE  c = <<h, k>> <=> Holds(Cell(c[1], c[2], size), p)
  <2>1. PICK i \in 0 .. Side \div size - 1, j \in 0 .. Side \div size - 1 : c = <<i, j>>
    BY DEF Cells
  <2> QED BY <2>1, <1>7
<1> QED BY <1>3, <1>6, <1>8 DEF Cells

(* The cell of a point is the one that holds it (_covered_cells).          *)
LEMMA PointCovered ==
    ASSUME NEW size, IsSize(size), NEW g \in Geometries, Valid(g), g.type = "POINT"
    PROVE  Covered(g, size) = Touched(g, size)
<1>1. Points(g) \in SUBSET Spots
  BY ValidIsPlaced
<1>2. g.type \notin Areas /\ g.type \notin Lines
  BY DEF Lines, Areas
<1>3. Covered(g, size) = {PointCell(p, size) : p \in Points(g)}
  BY <1>2 DEF Covered
<1>4. Touched(g, size) =
        {c \in Cells(size) : \E p \in Points(g) : Holds(Cell(c[1], c[2], size), p)}
  BY <1>2 DEF Touched, Touches, Cells
<1>5. \A p \in Points(g) :
        /\ PointCell(p, size) \in Cells(size)
        /\ \A c \in Cells(size) :
             c = PointCell(p, size) <=> Holds(Cell(c[1], c[2], size), p)
  BY <1>1, PointIsIn
<1> QED BY <1>3, <1>4, <1>5

(* An upright segment meets the boxes whose extents it shares.             *)
LEMMA UprightMeets ==
    ASSUME NEW x \in Int, NEW y \in Int, NEW z \in Int, NEW box, IsBox(box),
           box.left <= x, x <= box.right,
           \/ y <= z /\ y <= box.top /\ box.bottom <= z
           \/ z <= y /\ z <= box.top /\ box.bottom <= y
    PROVE  SegmentMeets(<<x, y>>, <<x, z>>, box)
<1>1. ClippedAt(<<x, y>>, <<x, z>>, box)
  BY DEF ClippedAt, Clipped, Extent, Near, Far, IsBox
<1> QED BY <1>1, MeetsIsClipped

(* A level segment meets the boxes whose extents it shares.                *)
LEMMA LevelMeets ==
    ASSUME NEW x \in Int, NEW y \in Int, NEW z \in Int, NEW box, IsBox(box),
           box.bottom <= y, y <= box.top,
           \/ x <= z /\ x <= box.right /\ box.left <= z
           \/ z <= x /\ z <= box.right /\ box.left <= x
    PROVE  SegmentMeets(<<x, y>>, <<z, y>>, box)
<1>1. ClippedAt(<<x, y>>, <<z, y>>, box)
  BY DEF ClippedAt, Clipped, Extent, Near, Far, IsBox
<1> QED BY <1>1, MeetsIsClipped

(* A frame meets every box that the area within it overlaps: one of its    *)
(* edges does, or the box is inside (_polygon_intersects_rect).            *)
LEMMA FrameMeets ==
    ASSUME NEW w, IsBox(w), NEW box, IsBox(box), Overlap(w, box)
    PROVE  PolygonMeets(<<Frame(w)>>, box)
<1>1. PICK L \in Int, R \in Int, B \in Int, T \in Int :
         w.left = L /\ w.right = R /\ w.bottom = B /\ w.top = T /\ L <= R /\ B <= T
  BY DEF IsBox
<1>2. PICK l \in Int, r \in Int, b \in Int, t \in Int :
         /\ box.left = l /\ box.right = r /\ box.bottom = b /\ box.top = t
         /\ l <= r /\ b <= t
  BY DEF IsBox
<1>3. L <= r /\ l <= R /\ B <= t /\ b <= T
  BY <1>1, <1>2 DEF Overlap
<1>4. PICK F : F = Frame(w)
  OBVIOUS
<1>5. F = <<<<L, B>>, <<R, B>>, <<R, T>>, <<L, T>>, <<L, B>>>>
  BY <1>1, <1>4 DEF Frame
<1>6. Edges(F) = {<<<<L, B>>, <<R, B>>>>, <<<<R, B>>, <<R, T>>>>,
                  <<<<R, T>>, <<L, T>>>>, <<<<L, T>>, <<L, B>>>>}
  <2>1. Len(F) - 1 = 4 /\ 1 .. 4 = {1, 2, 3, 4}
    BY <1>5
  <2>2. Edges(F) = {<<F[i], F[i + 1]>> : i \in {1, 2, 3, 4}}
    BY <2>1 DEF Edges
  <2>3. F[1] = <<L, B>> /\ F[2] = <<R, B>> /\ F[3] = <<R, T>> /\ F[4] = <<L, T>> /\ F[5] = <<L, B>>
    BY <1>5
  <2>4. {<<F[i], F[i + 1]>> : i \in {1, 2, 3, 4}}
          = {<<F[1], F[2]>>, <<F[2], F[3]>>, <<F[3], F[4]>>, <<F[4], F[5]>>}
    OBVIOUS
  <2> QED BY <2>2, <2>3, <2>4
<1>7. ASSUME NEW s, NEW e, <<s, e>> \in Edges(F), SegmentMeets(s, e, box)
      PROVE  PolygonMeets(<<F>>, box)
  <2>1. LineMeets(F, box)
    BY <1>7 DEF LineMeets
  <2> QED BY <2>1 DEF PolygonMeets
<1>8. CASE l <= L
  <2>1. SegmentMeets(<<L, T>>, <<L, B>>, box)
    BY <1>8, <1>1, <1>2, <1>3, UprightMeets
  <2> QED BY <2>1, <1>4, <1>6, <1>7
<1>9. CASE R <= r
  <2>1. SegmentMeets(<<R, B>>, <<R, T>>, box)
    BY <1>9, <1>1, <1>2, <1>3, UprightMeets
  <2> QED BY <2>1, <1>4, <1>6, <1>7
<1>10. CASE b <= B
  <2>1. SegmentMeets(<<L, B>>, <<R, B>>, box)
    BY <1>10, <1>1, <1>2, <1>3, LevelMeets
  <2> QED BY <2>1, <1>4, <1>6, <1>7
<1>11. CASE T <= t
  <2>1. SegmentMeets(<<R, T>>, <<L, T>>, box)
    BY <1>11, <1>1, <1>2, <1>3, LevelMeets
  <2> QED BY <2>1, <1>4, <1>6, <1>7
<1>12. CASE L < l /\ r < R /\ B < b /\ t < T
  <2> DEFINE p == <<l, b>>
  <2>1. /\ ~Crosses(<<<<L, B>>, <<R, B>>>>, p)
        /\ Crosses(<<<<R, B>>, <<R, T>>>>, p)
        /\ ~Crosses(<<<<R, T>>, <<L, T>>>>, p)
        /\ ~Crosses(<<<<L, T>>, <<L, B>>>>, p)
    <3>1. ~Crosses(<<<<L, B>>, <<R, B>>>>, p) /\ ~Crosses(<<<<R, T>>, <<L, T>>>>, p)
      BY DEF Crosses
    <3>2. l - R < 0 /\ T - B > 0 /\ (l - R) * (T - B) < 0
      BY <1>12, <1>2
    <3>3. Crosses(<<<<R, B>>, <<R, T>>>>, p)
      BY <3>2, <1>12, <1>2 DEF Crosses
    <3>4. l - L > 0 /\ B - T < 0 /\ (l - L) * (B - T) < 0
      BY <1>12, <1>2
    <3>5. ~Crosses(<<<<L, T>>, <<L, B>>>>, p)
      BY <3>4, <1>12, <1>2 DEF Crosses
    <3> QED BY <3>1, <3>3, <3>5
  <2> DEFINE crossings == {i \in 1 .. Len(F) - 1 : Crosses(<<F[i], F[i + 1]>>, p)}
  <2>2. crossings = {2}
    <3>1. 1 .. Len(F) - 1 = {1, 2, 3, 4}
      BY <1>5
    <3>2. F[1] = <<L, B>> /\ F[2] = <<R, B>> /\ F[3] = <<R, T>> /\ F[4] = <<L, T>> /\ F[5] = <<L, B>>
      BY <1>5
    <3>3. /\ ~Crosses(<<F[1], F[2]>>, p) /\ Crosses(<<F[2], F[3]>>, p)
          /\ ~Crosses(<<F[3], F[4]>>, p) /\ ~Crosses(<<F[4], F[5]>>, p)
      BY <2>1, <3>2
    <3> HIDE DEF p
    <3>4. \A i \in {1, 2, 3, 4} : Crosses(<<F[i], F[i + 1]>>, p) <=> i = 2
      BY <3>3
    <3> QED BY <3>1, <3>4
  <2>3. Cardinality(crossings) % 2 = 1
    <3> HIDE DEF crossings
    <3>1. Cardinality(crossings) = 1
      BY <2>2, FS_Singleton
    <3>2. 1 % 2 = 1
      OBVIOUS
    <3> QED BY <3>1, <3>2
  <2>4. InPolygon(p, <<F>>)
    <3>1. InRing(p, F)
      BY <2>3 DEF InRing
    <3> QED BY <3>1 DEF InPolygon
  <2>5. p \in Corners(box)
    BY <1>2 DEF Corners
  <2> QED BY <2>4, <2>5, <1>4 DEF PolygonMeets
<1> QED BY <1>1, <1>2, <1>8, <1>9, <1>10, <1>11, <1>12

(* More points overlap what some of them do.                               *)
LEMMA BoxGrows ==
    ASSUME NEW Q \in SUBSET Spots, NEW P \in SUBSET Q, P /= {},
           NEW box, IsBox(box), Overlap(Box(P), box)
    PROVE  Overlap(Box(Q), box)
<1>1. PICK v : v = Box(P)
  OBVIOUS
<1>2. PICK w : w = Box(Q)
  OBVIOUS
<1>3. /\ IsBox(v) /\ IsBox(w)
      /\ \A p \in Q : Within(p, w)
      /\ \E p \in P : p[1] = v.left
      /\ \E p \in P : p[1] = v.right
      /\ \E p \in P : p[2] = v.bottom
      /\ \E p \in P : p[2] = v.top
  <2>1. P \in SUBSET Spots /\ Q /= {}
    OBVIOUS
  <2> QED BY <2>1, <1>1, <1>2, BoxHolds
<1>4. w.left <= v.left /\ v.right <= w.right /\ w.bottom <= v.bottom /\ v.top <= w.top
  BY <1>3 DEF Within
<1> QED BY <1>1, <1>2, <1>3, <1>4 DEF Overlap, IsBox

(* An area is in every cell that its outline or the border of a hole       *)
(* touches (_cells_for_component).                                         *)
LEMMA BordersCovered ==
    ASSUME NEW size, IsSize(size), NEW g \in Geometries, Valid(g), g.type \in Areas,
           NEW rings \in ToSet(g.coordinates) \ {<<>>}, NEW ring \in ToSet(rings),
           NEW e \in Edges(ring), NEW c \in Cells(size),
           ConvexTouches(e, Cell(c[1], c[2], size))
    PROVE  c \in Covered(g, size)
<1>1. g.coordinates \in Depth
  BY ValidIsPlaced
<1>2. PICK co \in Seq(Seq(Seq(Spots))) : co = g.coordinates
  BY <1>1 DEF Depth
<1>3. PICK i \in 1 .. Len(co) : rings = co[i]
  BY <1>2 DEF ToSet
<1>4. rings \in Seq(Seq(Spots))
  BY <1>3
<1>5. PICK j \in 1 .. Len(rings) : ring = rings[j]
  BY <1>4 DEF ToSet
<1>6. ring \in Seq(Spots)
  BY <1>4, <1>5
<1>7. PICK s \in Spots, t \in Spots : e = <<s, t>> /\ s \in ToSet(ring) /\ t \in ToSet(ring)
  BY <1>6, EdgeIs
<1>8. PICK box : box = Cell(c[1], c[2], size)
  OBVIOUS
<1>9. IsBox(box)
  BY <1>8, CellIsBox
<1>10. SegmentMeets(s, t, box) /\ Overlap(Box({s, t}), box)
  BY <1>7, <1>8, <1>9, SegmentTouches
<1> DEFINE all == UNION {ToSet(r) : r \in ToSet(rings)}
<1>11. all \in SUBSET Spots /\ {s, t} \in SUBSET all
  <2>1. ASSUME NEW r \in ToSet(rings) PROVE ToSet(r) \subseteq Spots
    <3>1. r \in Seq(Spots)
      BY <1>4 DEF ToSet
    <3> QED BY <3>1 DEF ToSet
  <2> QED BY <2>1, <1>7
<1>12. c \in CandidateCells(all, size)
  <2>1. Overlap(Box(all), box)
    BY <1>9, <1>10, <1>11, BoxGrows
  <2>2. all /= {}
    BY <1>11
  <2> HIDE DEF all
  <2> QED BY <2>1, <2>2, <1>8, <1>11, CandidatesOverlap
<1>13. PolygonMeets(rings, box)
  <2>1. LineMeets(ring, box)
    BY <1>7, <1>10 DEF LineMeets
  <2>2. j \in DOMAIN rings
    BY <1>4
  <2> QED BY <2>1, <2>2, <1>5 DEF PolygonMeets
<1>14. c \in PolygonCells(rings, size)
  BY <1>8, <1>12, <1>13 DEF PolygonCells
<1>15. g.type \notin Lines /\ g.type /= "POINT"
  BY DEF Lines, Areas
<1> QED BY <1>14, <1>15 DEF Covered

(* A geometry of the right depth and number of parts is one.               *)
LEMMA IsGeometry ==
    ASSUME NEW type \in Types, NEW co \in Seq(Seq(Seq(Int \X Int))),
           type /= "MULTIPOLYGON" => Len(co) = 1,
           type \in {"POINT", "LINESTRING"} => Len(co[1]) = 1,
           type = "POINT" => Len(co[1][1]) = 1
    PROVE  Geometry(type, co) \in Geometries
  BY DEF Geometry, Geometries

(* The box of a valid geometry (geometry_centroid reads it).               *)
LEMMA BoxOfPoints ==
    ASSUME NEW g \in Geometries, Valid(g)
    PROVE  IsBox(Box(Points(g))) /\ \A p \in Points(g) : Within(p, Box(Points(g)))
  BY ValidIsPlaced, BoxHolds

(* The frame around a box has its four corners (change_geometry_type).     *)
LEMMA FrameIs ==
    ASSUME NEW w, IsBox(w)
    PROVE  /\ Frame(w) \in Seq(Int \X Int)
           /\ ToSet(Frame(w)) = {<<w.left, w.bottom>>, <<w.right, w.bottom>>,
                                 <<w.right, w.top>>, <<w.left, w.top>>}
<1>1. PICK L \in Int, R \in Int, B \in Int, T \in Int :
         w.left = L /\ w.right = R /\ w.bottom = B /\ w.top = T
  BY DEF IsBox
<1>2. PICK F : F = Frame(w)
  OBVIOUS
<1>3. F = <<<<L, B>>, <<R, B>>, <<R, T>>, <<L, T>>, <<L, B>>>>
  BY <1>1, <1>2 DEF Frame
<1>4. DOMAIN F = {1, 2, 3, 4, 5}
  BY <1>3
<1>5. F[1] = <<L, B>> /\ F[2] = <<R, B>> /\ F[3] = <<R, T>> /\ F[4] = <<L, T>> /\ F[5] = <<L, B>>
  BY <1>3
<1>6. F \in Seq(Int \X Int)
  BY <1>3
<1>7. ToSet(F) = {F[1], F[2], F[3], F[4], F[5]}
  BY <1>4 DEF ToSet
<1> QED BY <1>1, <1>2, <1>5, <1>6, <1>7

(* A box that is widened is one (change_geometry_type).                    *)
LEMMA WidenedIs ==
    ASSUME NEW v, IsBox(v)
    PROVE  IsBox(Widened(v))
  BY PrecisionAssumption DEF IsBox, Widened

(* What a geometry becomes has the shape of its type                       *)
(* (change_geometry_type).                                                 *)
LEMMA ConvertedIs ==
    ASSUME NEW g \in Geometries, Valid(g), NEW target \in Types
    PROVE  Converted(g, target) \in Geometries
<1>1. PICK co \in Seq(Seq(Seq(Int \X Int))) : co = g.coordinates
  BY DEF Geometries
<1>2. co /= <<>> /\ co[1] \in Seq(Seq(Int \X Int))
  BY <1>1, ValidIsPlaced
<1>3. g.type \in Types
  BY DEF Geometries
<1>4. IsBox(Box(Points(g)))
  BY BoxOfPoints
<1>5. CASE target = "POINT"
  <2>1. Centroid(g) \in Int \X Int
    BY <1>4 DEF Centroid, IsBox
  <2>2. <<<<<<Centroid(g)>>>>>> \in Seq(Seq(Seq(Int \X Int)))
    BY <2>1
  <2>3. Converted(g, target) = Geometry(target, <<<<<<Centroid(g)>>>>>>)
    BY <1>5 DEF Converted
  <2> QED BY <2>2, <2>3, <1>5, IsGeometry
<1>6. AsLines(g) \in Seq(Seq(Int \X Int)) /\ AsLines(g) /= <<>>
  <2>1. CASE g.type = "POINT"
    <3>1. co[1][1][1] \in Int \X Int
      BY <2>1, <1>1, <1>2 DEF Geometries
    <3>2. PICK p \in Int \X Int : p = co[1][1][1]
      BY <3>1
    <3>3. PICK x \in Int, y \in Int : p = <<x, y>>
      OBVIOUS
    <3>6. AsLines(g) = <<<<<<p[1] - Pad, p[2]>>, <<p[1] + Pad, p[2]>>>>>>
      BY <2>1, <3>2, <1>1 DEF AsLines, Lines, Areas
    <3>4. Pad \in Int
      BY PrecisionAssumption
    <3>5. <<<<x - Pad, y>>, <<x + Pad, y>>>> \in Seq(Int \X Int)
      BY <3>4
    <3> QED BY <3>3, <3>5, <3>6
  <2>2. CASE g.type \in Lines
    <3>1. AsLines(g) = co[1]
      BY <2>2, <1>1 DEF AsLines, Lines, Areas
    <3>2. co[1] /= <<>>
      <4>1. Len(co) = 1
        BY <2>2, <1>1 DEF Geometries, Lines
      <4>2. PICK p : p \in Points(g)
        BY ValidIsPlaced
      <4>3. PICK i \in 1 .. Len(co) : \E j \in 1 .. Len(co[i]) : p \in ToSet(co[i][j])
        BY <4>2, <1>1, PointsAre
      <4> QED BY <4>1, <4>3
    <3> QED BY <3>1, <3>2, <1>2
  <2>3. CASE g.type \in Areas
    <3>1. AsLines(g) = <<Outline(g)>>
      BY <2>3 DEF AsLines, Lines, Areas
    <3>2. Outline(g) \in Seq(Int \X Int)
      <4>1. CASE co[1] = <<>>
        BY <4>1, <1>1 DEF Outline
      <4>2. CASE co[1] /= <<>>
        <5>1. PICK ring \in Seq(Int \X Int) : ring = co[1][1]
          BY <4>2, <1>2
        <5>2. Front(ring) \in Seq(Int \X Int)
          BY SubSeqProperties DEF Front
        <5> QED BY <5>1, <5>2, <4>2, <1>1 DEF Outline
      <4> QED BY <4>1, <4>2
    <3> QED BY <3>1, <3>2
  <2> QED BY <2>1, <2>2, <2>3, <1>3 DEF Types, Lines, Areas
<1>7. CASE target \in Lines
  <2>1. PICK lines \in Seq(Seq(Int \X Int)) : lines = AsLines(g) /\ lines /= <<>>
    BY <1>6
  <2>2. <<<<lines[1]>>>> \in Seq(Seq(Seq(Int \X Int))) /\ <<lines>> \in Seq(Seq(Seq(Int \X Int)))
    <3>1. lines[1] \in Seq(Int \X Int)
      BY <2>1
    <3>2. <<lines[1]>> \in Seq(Seq(Int \X Int))
      BY <3>1
    <3> QED BY <3>2
  <2>3. CASE target = "LINESTRING"
    <3>1. Converted(g, target) = Geometry(target, <<<<lines[1]>>>>)
      BY <2>1, <2>3 DEF Converted
    <3> QED BY <3>1, <2>2, <2>3, IsGeometry
  <2>4. CASE target = "MULTILINESTRING"
    <3>1. Converted(g, target) = Geometry(target, <<lines>>)
      BY <2>1, <2>4 DEF Converted
    <3> QED BY <3>1, <2>2, <2>4, IsGeometry
  <2> QED BY <2>3, <2>4, <1>7 DEF Lines
<1>8. AsAreas(g) \in Seq(Seq(Seq(Int \X Int))) /\ AsAreas(g) /= <<>>
  <2>1. Frame(Widened(Box(Points(g)))) \in Seq(Int \X Int)
    BY <1>4, WidenedIs, FrameIs
  <2>2. <<<<Frame(Widened(Box(Points(g))))>>>> \in Seq(Seq(Seq(Int \X Int)))
    BY <2>1
  <2> QED BY <2>2, <1>1, <1>2 DEF AsAreas
<1>9. CASE target \in Areas
  <2>1. PICK areas \in Seq(Seq(Seq(Int \X Int))) : areas = AsAreas(g) /\ areas /= <<>>
    BY <1>8
  <2>2. <<areas[1]>> \in Seq(Seq(Seq(Int \X Int)))
    BY <2>1
  <2>3. CASE target = "POLYGON"
    <3>1. Converted(g, target) = Geometry(target, <<areas[1]>>)
      BY <2>1, <2>3 DEF Converted
    <3> QED BY <3>1, <2>2, <2>3, IsGeometry
  <2>4. CASE target = "MULTIPOLYGON"
    <3>1. Converted(g, target) = Geometry(target, areas)
      BY <2>1, <2>4 DEF Converted
    <3> QED BY <3>1, <2>1, <2>4, IsGeometry
  <2> QED BY <2>3, <2>4, <1>9 DEF Areas
<1> QED BY <1>5, <1>7, <1>9 DEF Types, Lines, Areas

(* A point or lines overlap, by their box, every cell they are in.         *)
LEMMA CoveredOverlaps ==
    ASSUME NEW size, IsSize(size), NEW g \in Geometries, Valid(g), g.type \notin Areas,
           NEW c \in Covered(g, size)
    PROVE  c \in Cells(size) /\ Overlap(Box(Points(g)), Cell(c[1], c[2], size))
<1>0. g.type \in Types
  BY DEF Geometries
<1>1. g.coordinates \in Depth /\ Points(g) \in SUBSET Spots /\ Points(g) /= {}
  BY ValidIsPlaced
<1>2. PICK v : v = Box(Points(g))
  OBVIOUS
<1>3. IsBox(v) /\ \A p \in Points(g) : Within(p, v)
  BY <1>2, BoxOfPoints
<1>4. CASE g.type = "POINT"
  <2>1. c \in Touched(g, size)
    BY <1>4, PointCovered
  <2>2. c \in Cells(size) /\ \E p \in Points(g) : Holds(Cell(c[1], c[2], size), p)
    BY <2>1, <1>4 DEF Touched, Touches, Cells, Lines, Areas
  <2>3. PICK box : box = Cell(c[1], c[2], size)
    OBVIOUS
  <2>4. PICK p \in Points(g) : Holds(box, p)
    BY <2>2, <2>3
  <2>5. IsBox(box)
    BY <2>2, <2>3, CellIsBox
  <2>6. p[1] \in Int /\ p[2] \in Int
    BY <1>1, PrecisionAssumption DEF Spots, World
  <2>7. Overlap(v, box)
    BY <2>4, <2>5, <2>6, <1>3 DEF Holds, Within, Overlap, IsBox
  <2> QED BY <2>2, <2>3, <2>7, <1>2
<1>5. CASE g.type \in Lines
  <2>1. c \in Touched(g, size)
    BY <1>5, LinesCovered
  <2>2. /\ c \in Cells(size)
        /\ \E line \in ToSet(g.coordinates[1]) :
             \E e \in Edges(line) : ConvexTouches(e, Cell(c[1], c[2], size))
    BY <2>1, <1>5 DEF Touched, Touches, Cells, Lines, Areas
  <2>3. PICK co \in Seq(Seq(Seq(Spots))) : co = g.coordinates /\ co /= <<>>
    BY <1>1, ValidIsPlaced DEF Depth
  <2>4. PICK lines \in Seq(Seq(Spots)) : lines = co[1]
    BY <2>3
  <2>5. PICK line \in ToSet(lines) :
           \E e \in Edges(line) : ConvexTouches(e, Cell(c[1], c[2], size))
    BY <2>2, <2>3, <2>4
  <2>6. PICK j \in 1 .. Len(lines) : line = lines[j]
    <3>1. line \in ToSet(lines) /\ DOMAIN lines = 1 .. Len(lines)
      OBVIOUS
    <3> QED BY <3>1 DEF ToSet
  <2>7. PICK e \in Edges(line) : ConvexTouches(e, Cell(c[1], c[2], size))
    BY <2>5
  <2>8. PICK s \in Spots, t \in Spots :
           e = <<s, t>> /\ s \in ToSet(line) /\ t \in ToSet(line)
    BY <2>6, EdgeIs
  <2>9. {s, t} \in SUBSET Points(g)
    <3>1. s \in ToSet(co[1][j]) /\ t \in ToSet(co[1][j]) /\ j \in 1 .. Len(co[1])
      BY <2>4, <2>6, <2>8
    <3>2. 1 \in 1 .. Len(co)
      BY <2>3
    <3> QED BY <3>1, <3>2, <2>3, PointsAre
  <2>10. ToSet(<<s, t>>) = {s, t}
    BY DEF ToSet
  <2>11. PICK box : box = Cell(c[1], c[2], size)
    OBVIOUS
  <2>12. IsBox(box) /\ Overlap(Box({s, t}), box)
    BY <2>2, <2>7, <2>8, <2>10, <2>11, CellIsBox DEF ConvexTouches
  <2>13. Overlap(Box(Points(g)), box)
    BY <2>9, <2>12, <1>1, BoxGrows
  <2> QED BY <2>2, <2>11, <2>13
<1> QED BY <1>0, <1>4, <1>5 DEF Types, Lines, Areas

(* The frame around some points has their box, widened.                    *)
LEMMA FrameBox ==
    ASSUME NEW w, IsBox(w)
    PROVE  Box(ToSet(Frame(w))) = w
<1>1. PICK L \in Int, R \in Int, B \in Int, T \in Int :
         w.left = L /\ w.right = R /\ w.bottom = B /\ w.top = T /\ L <= R /\ B <= T
  BY DEF IsBox
<1>2. w = [left |-> L, bottom |-> B, right |-> R, top |-> T]
  BY <1>1 DEF IsBox
<1>3. ToSet(Frame(w)) = {<<L, B>>, <<R, B>>, <<R, T>>, <<L, T>>}
  BY <1>1, FrameIs
<1> DEFINE F == {<<L, B>>, <<R, B>>, <<R, T>>, <<L, T>>}
<1>4. {p[1] : p \in F} = {L, R} /\ {p[2] : p \in F} = {B, T}
  OBVIOUS
<1>5. Min({L, R}) = L /\ Min({B, T}) = B
  BY <1>1, IsLeast
<1>6. Max({L, R}) = R /\ Max({B, T}) = T
  BY <1>1, IsGreatest
<1>7. Box(F) = [left |-> L, bottom |-> B, right |-> R, top |-> T]
  BY <1>4, <1>5, <1>6 DEF Box
<1> QED BY <1>2, <1>3, <1>7

(* The area a point or lines become is in every cell they were in          *)
(* (change_geometry_type).                                                 *)
LEMMA AreaKeeps ==
    ASSUME NEW size, IsSize(size), NEW g \in Geometries, Valid(g), g.type \notin Areas,
           NEW target \in Areas, Valid(Converted(g, target))
    PROVE  Covered(g, size) \subseteq Covered(Converted(g, target), size)
<1> DEFINE v == Box(Points(g))  w == Widened(v)  h == Converted(g, target)
<1>1. IsBox(v) /\ IsBox(w)
  BY BoxOfPoints, WidenedIs
<1>2. AsAreas(g) = <<<<Frame(w)>>>>
  BY DEF AsAreas
<1>3. h = Geometry(target, <<<<Frame(w)>>>>)
  BY <1>2 DEF Converted, Areas
<1>4. h.type = target /\ h.coordinates = <<<<Frame(w)>>>>
  BY <1>3 DEF Geometry
<1>5. target \in Types
  BY DEF Types, Areas
<1>6. h \in Geometries /\ Valid(h)
  BY <1>5, ConvertedIs
<1> HIDE DEF h
<1>7. Points(h) = ToSet(Frame(w))
  <2>1. PICK F \in Seq(Int \X Int) : F = Frame(w)
    BY <1>1, FrameIs
  <2>2. <<<<F>>>> \in Seq(Seq(Seq(Int \X Int)))
    BY <2>1
  <2>3. ASSUME NEW p PROVE p \in Points(h) <=> p \in ToSet(F)
    <3>1. PICK co \in Seq(Seq(Seq(Int \X Int))) : co = h.coordinates /\ co = <<<<F>>>>
      BY <2>1, <2>2, <1>4
    <3>2. Len(co) = 1 /\ Len(co[1]) = 1 /\ co[1][1] = F
      BY <3>1
    <3>3. p \in Points(h) <=>
            \E i \in 1 .. Len(co) : \E j \in 1 .. Len(co[i]) : p \in ToSet(co[i][j])
      <4> DEFINE S == Int \X Int
      <4>1. co \in Seq(Seq(Seq(S)))
        BY <3>1
      <4> HIDE DEF S
      <4> QED BY <4>1, <3>1, PointsAre
    <3>4. 1 .. Len(co) = {1} /\ 1 .. Len(co[1]) = {1}
      BY <3>2
    <3>5. p \in Points(h) <=> p \in ToSet(co[1][1])
      <4> HIDE DEF w
      <4> QED BY <3>3, <3>4
    <3> QED BY <3>2, <3>5
  <2> QED BY <2>1, <2>3
<1>8. ToSet(Frame(w)) \in SUBSET Spots /\ ToSet(Frame(w)) /= {}
  BY <1>6, <1>7, ValidIsPlaced
<1>9. Covered(h, size) = PolygonCells(<<Frame(w)>>, size)
  <2>1. h.type \notin Lines /\ h.type /= "POINT" /\ h.type \in Areas
    BY <1>4 DEF Lines, Areas
  <2>2. ToSet(h.coordinates) \ {<<>>} = {<<Frame(w)>>}
    BY <1>4 DEF ToSet
  <2>3. Covered(h, size) = UNION {PolygonCells(rings, size) : rings \in ToSet(h.coordinates) \ {<<>>}}
    BY <2>1 DEF Covered
  <2> QED BY <2>2, <2>3
<1>10. UNION {ToSet(r) : r \in ToSet(<<Frame(w)>>)} = ToSet(Frame(w))
  <2>1. ToSet(<<Frame(w)>>) = {Frame(w)}
    BY DEF ToSet
  <2> QED BY <2>1
<1>11. PolygonCells(<<Frame(w)>>, size) =
         {c \in CandidateCells(ToSet(Frame(w)), size) :
            PolygonMeets(<<Frame(w)>>, Cell(c[1], c[2], size))}
  BY <1>10 DEF PolygonCells
<1>12. ASSUME NEW c \in Covered(g, size) PROVE c \in PolygonCells(<<Frame(w)>>, size)
  <2>1. c \in Cells(size) /\ Overlap(v, Cell(c[1], c[2], size))
    BY CoveredOverlaps
  <2>2. PICK box : box = Cell(c[1], c[2], size)
    OBVIOUS
  <2>3. IsBox(box)
    BY <2>1, <2>2, CellIsBox
  <2>4. Overlap(w, box)
    BY <2>1, <2>2, <2>3, <1>1, PrecisionAssumption DEF Overlap, IsBox, Widened
  <2> HIDE DEF w
  <2>5. c \in CandidateCells(ToSet(Frame(w)), size)
    BY <2>1, <2>2, <2>4, <1>1, <1>8, CandidatesOverlap, FrameBox
  <2>6. PolygonMeets(<<Frame(w)>>, box)
    BY <2>3, <2>4, <1>1, FrameMeets
  <2> QED BY <2>2, <2>5, <2>6, <1>11
<1> QED BY <1>9, <1>12 DEF h

(* The outline of an area is in no cell that the area is not in            *)
(* (change_geometry_type).                                                 *)
LEMMA OutlineKeeps ==
    ASSUME NEW size, IsSize(size), NEW g \in Geometries, Valid(g), g.type \in Areas,
           NEW target \in Lines, Valid(Converted(g, target))
    PROVE  Covered(Converted(g, target), size) \subseteq Covered(g, size)
<1> DEFINE o == Outline(g)  h == Converted(g, target)
<1>1. AsLines(g) = <<o>>
  BY DEF AsLines, Areas, Lines
<1>2. h = Geometry(target, <<<<o>>>>)
  BY <1>1 DEF Converted, Lines
<1>3. h.type = target /\ h.coordinates = <<<<o>>>>
  BY <1>2 DEF Geometry
<1>4. target \in Types
  BY DEF Types, Lines
<1>5. h \in Geometries /\ Valid(h)
  BY <1>4, ConvertedIs
<1> HIDE DEF h
<1>6. <<<<o>>>> \in Depth /\ Points(h) /= {}
  BY <1>3, <1>5, ValidIsPlaced
<1>7. PICK co \in Seq(Seq(Seq(Spots))) : co = g.coordinates /\ co /= <<>>
  BY ValidIsPlaced DEF Depth
<1>8. co[1] /= <<>>
  <2>1. SUFFICES ASSUME co[1] = <<>> PROVE FALSE
    OBVIOUS
  <2>2. o = <<>>
    BY <2>1, <1>7 DEF Outline
  <2> HIDE DEF o
  <2>3. PICK p : p \in Points(h)
    BY <1>6
  <2>4. \E i \in 1 .. Len(<<<<o>>>>) : \E j \in 1 .. Len(<<<<o>>>>[i]) : p \in ToSet(<<<<o>>>>[i][j])
    BY <2>3, <1>3, <1>6, PointsAre DEF Depth
  <2>5. p \in ToSet(<<>>)
    BY <2>2, <2>4
  <2> QED BY <2>5 DEF ToSet
<1>9. PICK rings \in Seq(Seq(Spots)) : rings = co[1] /\ rings /= <<>>
  BY <1>7, <1>8
<1>10. PICK ring \in Seq(Spots) : ring = rings[1]
  BY <1>9
<1>11. rings \in ToSet(g.coordinates) \ {<<>>} /\ ring \in ToSet(rings)
  <2>1. 1 \in DOMAIN co /\ 1 \in DOMAIN rings
    BY <1>7, <1>9
  <2> QED BY <2>1, <1>7, <1>9, <1>10 DEF ToSet
<1>12. o = SubSeq(ring, 1, Len(ring) - 1)
  BY <1>7, <1>8, <1>9, <1>10 DEF Outline, Front
<1> HIDE DEF o
<1>13. /\ o \in Seq(Spots) /\ Len(o) <= Len(ring)
       /\ \A i \in 1 .. Len(o) : o[i] = ring[i]
  <2>1. /\ Len(ring) \in Nat /\ \A i \in 1 .. Len(ring) - 1 : ring[i] \in Spots
    OBVIOUS
  <2>2. /\ o \in Seq(Spots)
        /\ Len(o) = IF 1 <= Len(ring) - 1 THEN Len(ring) - 1 ELSE 0
        /\ \A i \in 1 .. Len(ring) - 1 : o[i] = ring[i]
    <3> DEFINE n == Len(ring) - 1
    <3>1. 1 \in Int /\ n \in Int /\ \A i \in 1 .. n : ring[i] \in Spots
      BY <2>1
    <3>2. o = SubSeq(ring, 1, n)
      BY <1>12
    <3> HIDE DEF n
    <3>3. /\ o \in Seq(Spots)
          /\ Len(o) = IF 1 <= n THEN n - 1 + 1 ELSE 0
          /\ \A i \in 1 .. n - 1 + 1 : o[i] = ring[1 + i - 1]
      BY <3>1, <3>2, SubSeqProperties
    <3>4. o \in Seq(Spots) /\ Len(o) = IF 1 <= n THEN n ELSE 0
      BY <3>1, <3>3
    <3>5. ASSUME NEW i \in 1 .. n PROVE o[i] = ring[i]
      <4>1. i \in 1 .. n - 1 + 1 /\ 1 + i - 1 = i
        BY <3>1
      <4> QED BY <4>1, <3>3
    <3> QED BY <3>4, <3>5 DEF n
  <2> QED BY <2>1, <2>2
<1>14. Edges(o) \subseteq Edges(ring)
  <2>1. ASSUME NEW i \in 1 .. Len(o) - 1
        PROVE  i \in 1 .. Len(ring) - 1 /\ <<o[i], o[i + 1]>> = <<ring[i], ring[i + 1]>>
    <3>1. Len(o) \in Nat /\ Len(ring) \in Nat
      BY <1>13
    <3>2. i \in 1 .. Len(o) /\ i + 1 \in 1 .. Len(o) /\ i \in 1 .. Len(ring) - 1
      BY <3>1, <1>13
    <3> QED BY <3>2, <1>13
  <2> QED BY <2>1 DEF Edges
<1>15. Covered(h, size) = LineCells(o, size)
  <2>1. h.type \notin Areas /\ h.type /= "POINT" /\ h.type \in Lines
    BY <1>3 DEF Lines, Areas
  <2>2. ToSet(h.coordinates[1]) = {o}
    BY <1>3 DEF ToSet
  <2>3. Covered(h, size) = UNION {LineCells(line, size) : line \in ToSet(h.coordinates[1])}
    BY <2>1 DEF Covered
  <2> QED BY <2>2, <2>3
<1>16. ASSUME NEW c \in LineCells(o, size) PROVE c \in Covered(g, size)
  <2>1. c \in Cells(size) /\ \E e \in Edges(o) : ConvexTouches(e, Cell(c[1], c[2], size))
    BY <1>13, LineCellsTouch
  <2>2. PICK e \in Edges(ring) : ConvexTouches(e, Cell(c[1], c[2], size))
    BY <2>1, <1>14
  <2> QED BY <2>1, <2>2, <1>11, BordersCovered
<1> QED BY <1>15, <1>16 DEF h

(* The inductive invariant of an entity's geometry: it is valid, and the   *)
(* cells are the ones computed for it (apply_maidenhead_fields).           *)
GeometryInv ==
    /\ geometry \in Geometries
    /\ Valid(geometry)
    /\ squares = Covered(geometry, Square)
    /\ locators = Covered(geometry, Locator)

(* No conversion breaks the inductive invariant.                           *)
LEMMA GeometryInvStep == GeometryInv /\ [GeometryNext]_entity => GeometryInv'
<1> SUFFICES ASSUME GeometryInv, [GeometryNext]_entity PROVE GeometryInv'
  OBVIOUS
<1>1. ASSUME NEW target \in Types, ChangeGeometryType(target) PROVE GeometryInv'
  <2>1. Converted(geometry, target) \in Geometries
    BY ConvertedIs DEF GeometryInv
  <2> QED BY <2>1, <1>1 DEF ChangeGeometryType, Saved, GeometryInv
<1>2. CASE UNCHANGED entity
  BY <1>2 DEF entity, GeometryInv
<1> QED BY <1>1, <1>2 DEF GeometryNext

(* The geometry of an entity stays well formed and in the world, and its   *)
(* squares and locators are those of the geometry it has, whatever it is   *)
(* converted to and from.                                                  *)
THEOREM GeometryAlwaysPlaced == GeometrySpec => []GeometryInv
<1>1. GeometryInit(Geometries) => GeometryInv
  BY DEF GeometryInit, GeometryInv
<1> QED BY <1>1, GeometryInvStep, PTL DEF GeometrySpec

(* The square and the locator of a point hold it, and those of lines are   *)
(* the ones they touch (locator_for_point, _covered_cells).                *)
THEOREM PointsAndLinesAreTouched == GeometrySpec => [](PointIsHeld /\ LinesTouched)
<1>1. GeometryInv => PointIsHeld /\ LinesTouched
  BY SizesDivide, PointCovered, LinesCovered
     DEF GeometryInv, PointIsHeld, LinesTouched, AreTouched
<1> QED BY <1>1, GeometryAlwaysPlaced, PTL

\* An area is in the cells that an edge of its rings touches.
BordersTouched ==
    geometry.type \in Areas =>
      \A rings \in ToSet(geometry.coordinates) \ {<<>>} :
        \A ring \in ToSet(rings) : \A e \in Edges(ring) :
          /\ {c \in Cells(Square) : ConvexTouches(e, Cell(c[1], c[2], Square))}
               \subseteq squares
          /\ {c \in Cells(Locator) : ConvexTouches(e, Cell(c[1], c[2], Locator))}
               \subseteq locators

(* An area, convex or not, is in every square and locator that its outline *)
(* or the border of one of its holes touches (_polygon_intersects_rect).   *)
THEOREM AreasHaveTheirBorders == GeometrySpec => []BordersTouched
<1>1. GeometryInv => BordersTouched
  BY SizesDivide, BordersCovered DEF GeometryInv, BordersTouched
<1> QED BY <1>1, GeometryAlwaysPlaced, PTL

(* The area a point or lines are converted to is in every square they were *)
(* in, and the outline of an area stays within the area's squares          *)
(* (change_geometry_type).                                                 *)
THEOREM ConversionsAlwaysStay == GeometrySpec => ConversionsStay
<1> DEFINE Stay == /\ geometry'.type \in Areas /\ geometry.type \notin Areas =>
                        squares \subseteq squares'
                   /\ geometry'.type \in Lines /\ geometry.type \in Areas =>
                        squares' \subseteq squares
<1>1. GeometryInv /\ [GeometryNext]_entity => [Stay]_entity
  <2> SUFFICES ASSUME GeometryInv, NEW target \in Types, ChangeGeometryType(target)
               PROVE  Stay
    BY DEF GeometryNext
  <2>1. /\ geometry' = Converted(geometry, target) /\ Valid(Converted(geometry, target))
        /\ squares' = Covered(Converted(geometry, target), Square)
        /\ squares = Covered(geometry, Square)
    BY DEF ChangeGeometryType, Saved, GeometryInv
  <2>2. Converted(geometry, target).type = target
    BY DEF Converted, Geometry
  <2>3. CASE target \in Areas /\ geometry.type \notin Areas
    <3>1. squares \subseteq squares'
      BY <2>1, <2>3, SizesDivide, AreaKeeps DEF GeometryInv
    <3> QED BY <3>1, <2>1, <2>2, <2>3 DEF Lines, Areas
  <2>4. CASE target \in Lines /\ geometry.type \in Areas
    <3>1. squares' \subseteq squares
      BY <2>1, <2>4, SizesDivide, OutlineKeeps DEF GeometryInv
    <3> QED BY <3>1, <2>1, <2>2, <2>4 DEF Lines, Areas
  <2> QED BY <2>1, <2>2, <2>3, <2>4
<1>2. GeometrySpec => [][Stay]_entity
  <2> HIDE DEF Stay
  <2> QED BY <1>1, GeometryAlwaysPlaced, PTL DEF GeometrySpec
<1> QED BY <1>2 DEF ConversionsStay

\* The square a locator lies in: the first four characters of its name.
SquareOf(c) == <<c[1] \div (Square \div Locator), c[2] \div (Square \div Locator)>>

(* In each direction, a locator lies between the borders of its square.    *)
LEMMA LocatorLiesIn ==
    ASSUME NEW i \in 0 .. Side \div Locator - 1,
           NEW d, d = i \div (Square \div Locator)
    PROVE  /\ d \in 0 .. Side \div Square - 1
           /\ d * Square <= i * Locator
           /\ (i + 1) * Locator <= (d + 1) * Square
<1> DEFINE k == Square \div Locator  n == Side \div Square  m == Side \div Locator
<1>1. /\ Square \in Nat \ {0} /\ Locator \in Nat \ {0} /\ Square % Locator = 0
      /\ Side \in Nat \ {0}
  BY PrecisionAssumption
<1>2. k \in Int /\ k * Locator = Square
  BY <1>1, Quotient
<1>3. n \in Nat \ {0} /\ n * Square = Side /\ m \in Nat \ {0} /\ m * Locator = Side
  BY SizesDivide, CellsFill
<1>4. i \in Nat /\ i + 1 <= m
  BY <1>3
<1>5. d = i \div k
  OBVIOUS
<1> HIDE DEF k, n, m
<1>6. k > 0
  BY <1>1, <1>2
<1>7. d \in Int /\ d * k <= i /\ i < d * k + k
  <2>1. i \in Int /\ k \in Nat \ {0}
    BY <1>2, <1>4, <1>6
  <2>2. /\ i \div k \in Int
        /\ (i \div k) * k <= i /\ i < (i \div k) * k + k
    BY <2>1, Quotient
  <2> QED BY <2>2, <1>5
<1>8. d * Square <= i * Locator
  <2>1. (d * k) * Locator <= i * Locator
    BY <1>1, <1>2, <1>4, <1>7, Scales
  <2>2. (d * k) * Locator = d * Square
    BY <1>1, <1>2, <1>7
  <2> QED BY <2>1, <2>2
<1>9. (i + 1) * Locator <= (d + 1) * Square
  <2>1. i + 1 <= (d + 1) * k
    BY <1>2, <1>4, <1>7
  <2>2. (i + 1) * Locator <= ((d + 1) * k) * Locator
    BY <2>1, <1>1, <1>2, <1>4, <1>7, Scales
  <2>3. ((d + 1) * k) * Locator = (d + 1) * Square
    BY <1>1, <1>2, <1>7
  <2> QED BY <2>2, <2>3
<1>10. d >= 0
  <2>1. SUFFICES ASSUME d < 0 PROVE FALSE
    BY <1>7
  <2>2. d * k + k <= 0 * k
    BY <2>1, <1>2, <1>6, <1>7, Grows
  <2> QED BY <2>2, <1>2, <1>4, <1>7
<1>11. d < n
  <2>1. SUFFICES ASSUME n <= d PROVE FALSE
    BY <1>3, <1>7
  <2>2. n * Square <= d * Square
    BY <2>1, <1>1, <1>3, <1>7, Scales
  <2>3. i * Locator + Locator <= m * Locator
    BY <1>1, <1>3, <1>4, Grows
  <2> QED BY <2>2, <2>3, <1>1, <1>3, <1>4, <1>7, <1>8
<1> QED BY <1>3, <1>7, <1>8, <1>9, <1>10, <1>11 DEF n

\* One box lies within another.
Inside(a, b) ==
    /\ b.left <= a.left /\ a.right <= b.right
    /\ b.bottom <= a.bottom /\ a.top <= b.top

(* A locator lies in its square, which is one of the world.                *)
LEMMA LocatorInSquare ==
    ASSUME NEW c \in Cells(Locator)
    PROVE  /\ SquareOf(c) \in Cells(Square)
           /\ Inside(Cell(c[1], c[2], Locator),
                     Cell(SquareOf(c)[1], SquareOf(c)[2], Square))
<1>1. PICK i \in 0 .. Side \div Locator - 1, j \in 0 .. Side \div Locator - 1 : c = <<i, j>>
  BY DEF Cells
<1>2. PICK d, e : d = i \div (Square \div Locator) /\ e = j \div (Square \div Locator)
  OBVIOUS
<1>3. SquareOf(c) = <<d, e>>
  BY <1>1, <1>2 DEF SquareOf
<1>4. /\ d \in 0 .. Side \div Square - 1 /\ d * Square <= i * Locator
      /\ (i + 1) * Locator <= (d + 1) * Square
      /\ e \in 0 .. Side \div Square - 1 /\ e * Square <= j * Locator
      /\ (j + 1) * Locator <= (e + 1) * Square
  BY <1>2, LocatorLiesIn
<1>5. Inside(Cell(i, j, Locator), Cell(d, e, Square))
  BY <1>4 DEF Inside, Cell
<1> QED BY <1>1, <1>3, <1>4, <1>5 DEF Cells

(* A segment that meets a box meets the one around it.                     *)
LEMMA MeetsAround ==
    ASSUME NEW s \in Int \X Int, NEW e \in Int \X Int, NEW a, IsBox(a), NEW b, IsBox(b),
           Inside(a, b), SegmentMeets(s, e, a)
    PROVE  SegmentMeets(s, e, b)
<1> DEFINE u == Extent(s[1], e[1])  v == Extent(s[2], e[2])
           p == Near(s[1], e[1], a.left, a.right)  q == Far(s[1], e[1], a.left, a.right)
           r == Near(s[2], e[2], a.bottom, a.top)  t == Far(s[2], e[2], a.bottom, a.top)
           pp == Near(s[1], e[1], b.left, b.right)  qq == Far(s[1], e[1], b.left, b.right)
           rr == Near(s[2], e[2], b.bottom, b.top)  tt == Far(s[2], e[2], b.bottom, b.top)
<1>0. s[1] \in Int /\ s[2] \in Int /\ e[1] \in Int /\ e[2] \in Int
  OBVIOUS
<1>1. u \in Nat /\ v \in Nat /\ p \in Int /\ q \in Int /\ r \in Int /\ t \in Int
  BY <1>0 DEF Extent, Near, Far, IsBox
<1>2. pp \in Int /\ qq \in Int /\ rr \in Int /\ tt \in Int
  BY <1>0 DEF Near, Far, IsBox
<1>3. pp <= p /\ q <= qq /\ rr <= r /\ t <= tt
  BY <1>0 DEF Near, Far, IsBox, Inside
<1>4. Clipped(u, v, p, q, r, t)
  <2>1. ClippedAt(s, e, a)
    BY MeetsIsClipped
  <2> QED BY <2>1 DEF ClippedAt
<1>5. ClippedAt(s, e, b) <=> Clipped(u, v, pp, qq, rr, tt)
  BY DEF ClippedAt
<1> HIDE DEF u, v, p, q, r, t, pp, qq, rr, tt
<1>6. pp * v <= p * v /\ q * v <= qq * v /\ rr * u <= r * u /\ t * u <= tt * u
  BY <1>1, <1>2, <1>3, Scales
<1>7. Clipped(u, v, pp, qq, rr, tt)
  <2>1. pp <= u /\ 0 <= qq /\ rr <= v /\ 0 <= tt
    BY <1>1, <1>2, <1>3, <1>4 DEF Clipped
  <2>2. ASSUME u > 0, v > 0 PROVE pp * v <= tt * u /\ rr * u <= qq * v
    <3>1. p * v <= t * u /\ r * u <= q * v
      BY <2>2, <1>4 DEF Clipped
    <3>2. /\ p * v \in Int /\ t * u \in Int /\ r * u \in Int /\ q * v \in Int
          /\ pp * v \in Int /\ tt * u \in Int /\ rr * u \in Int /\ qq * v \in Int
      BY <1>1, <1>2
    <3> QED BY <3>1, <3>2, <1>6
  <2> QED BY <2>1, <2>2 DEF Clipped
<1> QED BY <1>5, <1>7, MeetsIsClipped

\* The locators of a point or of lines lie in its squares.
LocatorsLieInSquares ==
    geometry.type \notin Areas => \A c \in locators : SquareOf(c) \in squares

(* The squares and the locators of a point or lines, each computed from    *)
(* the geometry alone, agree: the square every locator lies in is one of   *)
(* the squares (maidenhead_fields).                                        *)
THEOREM LocatorsAgree == GeometrySpec => []LocatorsLieInSquares
<1>1. ASSUME GeometryInv, geometry.type \notin Areas, NEW c \in locators
      PROVE  SquareOf(c) \in squares
  <2>0. geometry \in Geometries /\ Valid(geometry) /\ geometry.type \in Types
    BY <1>1 DEF GeometryInv, Geometries
  <2>1. squares = Touched(geometry, Square) /\ locators = Touched(geometry, Locator)
    BY <1>1, <2>0, SizesDivide, PointCovered, LinesCovered
       DEF GeometryInv, Types, Lines, Areas
  <2>2. c \in Cells(Locator) /\ Touches(geometry, Cell(c[1], c[2], Locator))
    BY <2>1 DEF Touched, Cells
  <2>3. PICK a, b : /\ a = Cell(c[1], c[2], Locator)
                    /\ b = Cell(SquareOf(c)[1], SquareOf(c)[2], Square)
    OBVIOUS
  <2>4. SquareOf(c) \in Cells(Square) /\ Inside(a, b) /\ IsBox(a) /\ IsBox(b)
    BY <2>2, <2>3, LocatorInSquare, CellIsBox, SizesDivide
  <2>5. Touches(geometry, b)
    <3>1. CASE geometry.type = "POINT"
      <4>1. PICK p \in Points(geometry) : Holds(a, p)
        BY <2>2, <2>3, <3>1 DEF Touches, Lines, Areas
      <4>2. p \in Spots
        BY <2>0, ValidIsPlaced
      <4>3. p[1] \in Int /\ p[2] \in Int
        BY <4>2, PrecisionAssumption DEF Spots, World
      <4>4. Holds(b, p)
        BY <4>1, <4>3, <2>4 DEF Holds, Within, Inside, IsBox
      <4> QED BY <4>4, <3>1 DEF Touches, Lines, Areas
    <3>2. CASE geometry.type \in Lines
      <4>1. PICK lines \in Seq(Seq(Spots)) : lines = geometry.coordinates[1]
        BY <2>0, ValidIsPlaced DEF Depth
      <4>2. \E line \in ToSet(lines) : \E e \in Edges(line) : ConvexTouches(e, a)
        BY <2>2, <2>3, <3>2, <4>1 DEF Touches, Lines, Areas
      <4>3. PICK line \in ToSet(lines) : \E e \in Edges(line) : ConvexTouches(e, a)
        BY <4>2
      <4>4. PICK e \in Edges(line) : ConvexTouches(e, a)
        BY <4>3
      <4>5. line \in Seq(Spots)
        BY <4>1 DEF ToSet
      <4>6. PICK s \in Spots, t \in Spots : e = <<s, t>>
        BY <4>5, EdgeIs
      <4>7. s \in Int \X Int /\ t \in Int \X Int
        BY PrecisionAssumption DEF Spots, World
      <4>8. ConvexTouches(e, b)
        BY <4>4, <4>6, <4>7, <2>4, SegmentTouches, MeetsAround
      <4>9. \E l \in ToSet(geometry.coordinates[1]) : \E f \in Edges(l) : ConvexTouches(f, b)
        BY <4>1, <4>8
      <4> QED BY <4>9, <3>2 DEF Touches, Lines, Areas
    <3> QED BY <3>1, <3>2, <2>0, <1>1 DEF Types, Lines, Areas
  <2>6. SquareOf(c) \in Touched(geometry, Square)
    BY <2>3, <2>4, <2>5 DEF Touched, Cells
  <2> QED BY <2>1, <2>6
<1>2. GeometryInv => LocatorsLieInSquares
  BY <1>1 DEF LocatorsLieInSquares
<1> QED BY <1>2, GeometryAlwaysPlaced, PTL
================================================================================
