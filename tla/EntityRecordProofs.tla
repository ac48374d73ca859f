--------------------------- MODULE EntityRecordProofs ---------------------------
(***************************************************************************)
(* Theorems about EntityRecord, for any number of workers, geometries,     *)
(* location fields, requests and faults.                                   *)
(*   The invariant: the request an entity carries is for the geometry it   *)
(* has (Asked); every request in the stream or in a worker's hands that    *)
(* has the number of the entity's is that request (Answering), so that a   *)
(* worker whose request is the entity's own applies what was asked for;    *)
(* unless a lookup failed or an import was staged, the derived codes are   *)
(* those of the names marked (Marked), and either everything is about to   *)
(* be looked up anew or every field is as LocatedHere says (Placed).       *)
(***************************************************************************)
EXTENDS EntityRecord, TLAPS

Busy == {w \in Workers : pc[w] /= "idle"}

\* What is missing in an entity, or was at another place, is asked for.
Asked(e) ==
    /\ e.request.geometry = e.geometry
    /\ e.enrichment = "QUEUED" => e.request.id > 0
    /\ e.enrichment = "none" =>
         \A g \in Missing(e) : \E f \in g : Kept(e, f)

\* The history names what is marked; a derived code is that of the mark.
Marked(e) ==
    /\ e.manual \subseteq e.byHand
    /\ \A c \in Derived : Keepers[c] \cap e.manual /= {} =>
         e.location[c] \in {"manual", "none"}

\* LocatedHere of one field.
Here(e, f) ==
    \/ e.location[f] \in {e.geometry, "none"}
    \/ /\ Keepers[f] \cap e.byHand /= {}
       /\ f \in Derived => e.location[f] = "manual"

Placed(e) ==
    /\ Marked(e)
    /\ \/ e.enrichment = "QUEUED" /\ e.request.onlyMissing = FALSE
       \/ \A f \in Fields \ e.manual : Here(e, f)

Fits(r) ==
    r.id \in 1 .. edits + 1 /\ (r.id = entity.request.id => r = entity.request)

Answering ==
    /\ \A r \in sent : Fits(r)
    /\ \A w \in Workers : pc[w] /= "idle" => Fits(held[w])

Quiet == faults \cap {"fail", "import"} = {}

Undisturbed ==
    /\ staged = {}
    /\ \A w \in Workers : answer[w].kind /= "error" /\ failures[w] = {}
    /\ Placed(entity)

EntityInv ==
    /\ TypeOK
    /\ Asked(entity) /\ entity.request.id <= edits + 1
    /\ Answering
    /\ Quiet => Undisturbed

-----------------------------------------------------------------------------
\* What a request for a lookup leaves an entity to be.

Alike(q, e) ==
    q.manual = e.manual /\ q.byHand = e.byHand /\ q.location = e.location

\* What is missing and what is kept depends on the location and the marks
\* alone, and where the values are from on the geometry as well.
LEMMA AlikeSame ==
    ASSUME NEW e, NEW q, Alike(q, e)
    PROVE  /\ Missing(q) = Missing(e)
           /\ \A f : Kept(q, f) = Kept(e, f)
           /\ Marked(q) = Marked(e)
           /\ q.geometry = e.geometry => \A f : Here(q, f) = Here(e, f)
<1>1. q.manual = e.manual /\ q.byHand = e.byHand /\ q.location = e.location
  BY DEF Alike
<1>2. Missing(q) = Missing(e)
  BY <1>1 DEF Missing
<1>3. \A f : Kept(q, f) = Kept(e, f)
  BY <1>1 DEF Kept
<1>4. Marked(q) = Marked(e)
  BY <1>1 DEF Marked
<1>5. q.geometry = e.geometry => \A f : Here(q, f) = Here(e, f)
  BY <1>1 DEF Here
<1> QED
  BY <1>2, <1>3, <1>4, <1>5

Carries(q, e, id) ==
    /\ q \in Entities /\ q.enrichment = "QUEUED"
    /\ q.request.id = id /\ q.request.geometry = e.geometry
    /\ q.geometry = e.geometry /\ q.status = e.status /\ Alike(q, e)

\* A new request (_queue_location_enrichment) changes nothing but itself.
LEMMA NewRequest ==
    ASSUME NEW e \in Entities, NEW id \in 1 .. MaxEdits + 1, NEW q
    PROVE  /\ q = Carrying(e, id, TRUE) => Carries(q, e, id)
           /\ q = Carrying(e, id, FALSE) =>
                Carries(q, e, id) /\ q.request.onlyMissing = FALSE
<1>1. ASSUME NEW m \in BOOLEAN
      PROVE  [id |-> id, geometry |-> e.geometry, onlyMissing |-> m]
               \in Requests
  BY EditsAssumption DEF Requests, Entities
<1>2. ASSUME q = Carrying(e, id, TRUE) PROVE Carries(q, e, id)
  <2>1. PICK r : r = [id |-> id, geometry |-> e.geometry, onlyMissing |-> TRUE]
    OBVIOUS
  <2>2. r \in Requests
    BY <1>1, <2>1
  <2>3. q = [e EXCEPT !.enrichment = "QUEUED", !.request = r]
    BY <1>2, <2>1 DEF Carrying
  <2> QED
    BY <2>1, <2>2, <2>3 DEF Carries, Entities, Alike
<1>3. ASSUME q = Carrying(e, id, FALSE)
      PROVE  Carries(q, e, id) /\ q.request.onlyMissing = FALSE
  <2>1. PICK r :
          r = [id |-> id, geometry |-> e.geometry, onlyMissing |-> FALSE]
    OBVIOUS
  <2>2. r \in Requests
    BY <1>1, <2>1
  <2>3. q = [e EXCEPT !.enrichment = "QUEUED", !.request = r]
    BY <1>3, <2>1 DEF Carrying
  <2> QED
    BY <2>1, <2>2, <2>3 DEF Carries, Entities, Alike
<1> QED
  BY <1>2, <1>3

\* Of what is missing ...
LEMMA QueuesMissing ==
    ASSUME NEW e \in Entities, NEW id \in 1 .. MaxEdits + 1,
           e.request.geometry = e.geometry,
           e.enrichment = "QUEUED" => e.request.id > 0,
           NEW q, q = Queued(e, id, TRUE)
    PROVE  /\ q \in Entities /\ Asked(q)
           /\ q.request = e.request \/ q.request.id = id
           /\ Placed(e) => Placed(q)
<1>1. CASE e.enrichment = "QUEUED"
  BY <1>1 DEF Queued, Asked
<1>2. CASE e.enrichment /= "QUEUED"
  <2>1. q = Carrying(e, id, TRUE)
    BY <1>2 DEF Queued
  <2>2. /\ q \in Entities /\ q.enrichment = "QUEUED"
        /\ q.request.id = id /\ q.request.geometry = e.geometry
        /\ q.geometry = e.geometry /\ Alike(q, e)
    <3>1. Carries(q, e, id)
      BY <2>1, NewRequest
    <3> QED
      BY <3>1 DEF Carries
  <2>3. id > 0
    BY EditsAssumption
  <2>4. /\ Marked(q) = Marked(e) /\ q.manual = e.manual
        /\ \A f : Here(q, f) = Here(e, f)
    BY <2>2, AlikeSame DEF Alike
  <2>5. Placed(e) => Placed(q)
    BY <1>2, <2>4 DEF Placed
  <2> QED
    BY <1>2, <2>2, <2>3, <2>4, <2>5 DEF Asked
<1> QED
  BY <1>1, <1>2

\* ... and of everything.
LEMMA QueuesAll ==
    ASSUME NEW e \in Entities, NEW id \in 1 .. MaxEdits + 1,
           e.enrichment = "QUEUED" => e.request.geometry /= e.geometry,
           NEW q, q = Queued(e, id, FALSE)
    PROVE  /\ q \in Entities /\ Asked(q) /\ q.request.id = id
           /\ Marked(e) => Placed(q)
<1>1. q = Carrying(e, id, FALSE)
  BY DEF Queued
<1>2. /\ q \in Entities /\ q.enrichment = "QUEUED"
      /\ q.request.id = id /\ q.request.geometry = e.geometry
      /\ q.request.onlyMissing = FALSE /\ q.geometry = e.geometry
      /\ Alike(q, e)
  <2>1. Carries(q, e, id) /\ q.request.onlyMissing = FALSE
    BY <1>1, NewRequest
  <2> QED
    BY <2>1 DEF Carries
<1>3. id > 0
  BY EditsAssumption
<1> QED
  BY <1>2, <1>3, AlikeSame DEF Asked, Placed

\* An entity that is reviewed, or promoted, asks for what it lacks
\* (_queue_missing_location_metadata_on_promotion).
LEMMA Enters ==
    ASSUME NEW e \in Entities, NEW id \in 1 .. MaxEdits + 1,
           NEW status \in {"CANDIDATE", "APPROVED", "REJECTED", "RETIRED"},
           e.request.geometry = e.geometry,
           e.enrichment = "QUEUED" => e.request.id > 0,
           \/ Asked(e)
           \/ status \in {"APPROVED", "CANDIDATE"},
           NEW q, q = Entered(e, status, id)
    PROVE  /\ q \in Entities /\ Asked(q)
           /\ q.request = e.request \/ q.request.id = id
           /\ Placed(e) => Placed(q)
<1>1. PICK d : d = Moved(e, status)
  OBVIOUS
<1>2. /\ d \in Entities /\ d.geometry = e.geometry /\ d.request = e.request
      /\ d.enrichment = e.enrichment /\ Alike(d, e)
  BY <1>1 DEF Moved, Entities, Alike
<1>3. /\ Missing(d) = Missing(e) /\ (Placed(e) => Placed(d))
      /\ \A f : Kept(d, f) = Kept(e, f)
  BY <1>2, AlikeSame DEF Placed, Alike
<1>4. q = QueuedIf(status \in {"APPROVED", "CANDIDATE"} /\ Missing(e) /= {},
                   d, id, TRUE)
  BY <1>1 DEF Entered
<1>5. CASE status \in {"APPROVED", "CANDIDATE"} /\ Missing(e) /= {}
  <2>1. q = Queued(d, id, TRUE)
    BY <1>4, <1>5 DEF QueuedIf
  <2> QED
    BY <1>2, <1>3, <2>1, QueuesMissing
<1>6. CASE ~ (status \in {"APPROVED", "CANDIDATE"} /\ Missing(e) /= {})
  <2>1. q = d
    BY <1>4, <1>6 DEF QueuedIf
  <2> QED
    BY <1>2, <1>3, <1>6, <2>1 DEF Asked
<1> QED
  BY <1>5, <1>6

-----------------------------------------------------------------------------
\* The steps.

\* An entity as an import leaves it, with nobody asking.
LEMMA InitEntityInv == Init => EntityInv
<1> SUFFICES ASSUME Init PROVE EntityInv
  OBVIOUS
<1>1. PICK located \in SUBSET Fields, status \in {"CANDIDATE", "APPROVED"} :
        LET new == [status |-> status, geometry |-> Birth,
                    location |-> [f \in Fields |->
                                    IF f \in located THEN Birth ELSE "none"],
                    manual |-> {}, byHand |-> {}, enrichment |-> "none",
                    request |-> NoRequest(Birth)]
        IN  entity = Entered(new, status, 1)
  BY DEF Init
<1>2. PICK location : location = [f \in Fields |->
                                    IF f \in located THEN Birth ELSE "none"]
  OBVIOUS
<1>3. PICK new : new = [status |-> status, geometry |-> Birth,
                        location |-> location, manual |-> {},
                        byHand |-> {}, enrichment |-> "none",
                        request |-> NoRequest(Birth)]
  OBVIOUS
<1>4. entity = Entered(new, status, 1)
  BY <1>1, <1>2, <1>3
<1>5. location \in [Fields -> Values] /\ NoRequest(Birth) \in Requests
  BY <1>2, BirthAssumption, EditsAssumption
     DEF Values, NoRequest, Requests
<1>6. /\ new \in Entities /\ new.geometry = Birth
      /\ new.request.geometry = Birth /\ new.request.id = 0
      /\ new.enrichment = "none" /\ new.manual = {}
      /\ new.byHand = {} /\ new.location = location
  BY <1>3, <1>5, BirthAssumption DEF Entities, NoRequest
<1>7. Placed(new)
  <2>1. Marked(new)
    BY <1>6 DEF Marked
  <2>2. \A f \in Fields : Here(new, f)
    BY <1>2, <1>6 DEF Here
  <2> QED
    BY <2>1, <2>2 DEF Placed
<1>8. 1 \in 1 .. MaxEdits + 1
  BY EditsAssumption
<1>9. /\ entity \in Entities /\ Asked(entity) /\ Placed(entity)
      /\ entity.request = new.request \/ entity.request.id = 1
  BY <1>4, <1>6, <1>7, <1>8, Enters
<1>10. ASSUME NEW r \in sent PROVE r = entity.request /\ r.id = 1
  <2>1. r = entity.request /\ Missing(entity) /= {}
    BY DEF Init
  <2>3. CASE Missing(new) /= {}
    <3>1. entity = Queued(Moved(new, status), 1, TRUE)
      BY <1>4, <2>3 DEF Entered, QueuedIf
    <3>2. PICK d : d = Moved(new, status)
      OBVIOUS
    <3>3. d.enrichment = "none" /\ d \in Entities
      BY <1>6, <3>2 DEF Moved, Entities
    <3>4. entity = Carrying(d, 1, TRUE)
      BY <3>1, <3>2, <3>3 DEF Queued
    <3>5. Carries(entity, d, 1)
      BY <1>8, <3>3, <3>4, NewRequest
    <3> QED
      BY <2>1, <3>5 DEF Carries
  <2>4. CASE Missing(new) = {}
    <3>1. entity = Moved(new, status)
      BY <1>4, <2>4 DEF Entered, QueuedIf
    <3>2. Alike(entity, new)
      BY <1>6, <3>1 DEF Moved, Entities, Alike
    <3> QED
      BY <2>1, <2>4, <3>2, AlikeSame
  <2> QED
    BY <2>3, <2>4
<1>11. sent \subseteq Requests
  BY <1>9, <1>10 DEF Entities
<1>12. TypeOK
  <2>1. /\ staged \subseteq Stagings /\ edits \in 0 .. MaxEdits
        /\ faults \in SUBSET FaultKinds
    BY EditsAssumption DEF Init
  <2>2. /\ pc \in [Workers -> {"idle", "lookup", "apply", "ack"}]
        /\ held \in [Workers -> Requests]
        /\ failures \in [Workers -> SUBSET Geometries]
    BY <1>5 DEF Init
  <2>3. Without("none") \in Answers /\ Without("none").kind = "none"
    BY DEF Without, Answers
  <2>4. /\ answer \in [Workers -> Answers]
        /\ \A w \in Workers : answer[w].kind = "none" <=> pc[w] /= "apply"
    BY <2>3 DEF Init
  <2> QED
    BY <1>9, <1>11, <2>1, <2>2, <2>4 DEF TypeOK
<1>13. Answering
  <2>1. edits = 0 /\ \A w \in Workers : pc[w] = "idle"
    BY DEF Init
  <2>2. ASSUME NEW r \in sent PROVE Fits(r)
    BY <1>10, <2>1 DEF Fits
  <2> QED
    BY <2>1, <2>2 DEF Answering
<1>14. Undisturbed
  BY <1>9 DEF Undisturbed, Init, Without
<1>15. entity.request.id <= edits + 1
  BY <1>6, <1>9 DEF Init
<1> QED
  BY <1>9, <1>12, <1>13, <1>14, <1>15 DEF EntityInv

\* What is left to show of a request of an administrator or an import.
LEMMA SaveInv ==
    ASSUME EntityInv, NEW e \in Entities, Save(e), Edit,
           staged' \subseteq staged, UNCHANGED <<faults, worker>>,
           Asked(e), e.request = entity.request \/ e.request.id \in {0, NewId},
           Quiet => Placed(e)
    PROVE  EntityInv'
<1> USE DEF worker
<1>1. /\ TypeOK /\ edits \in Nat /\ edits' = edits + 1
      /\ edits' \in 0 .. MaxEdits
      /\ entity' = e /\ sent' \subseteq sent \cup {e.request}
  BY EditsAssumption DEF EntityInv, TypeOK, Edit, Save
<1>2. e.request \in Requests /\ entity.request \in Requests
  BY <1>1 DEF Entities, TypeOK
<1>3. e.request.id \in Nat /\ entity.request.id \in Nat
  BY <1>2, EditsAssumption DEF Requests
<1>4. TypeOK'
  BY <1>1, <1>2 DEF TypeOK
<1>5. e.request.id <= edits' + 1
  BY <1>1, <1>3 DEF EntityInv, NewId
<1>6. ASSUME NEW r, Fits(r) PROVE Fits(r)'
  <2>1. r.id \in 1 .. edits + 1
    BY <1>6 DEF Fits
  <2> QED
    BY <1>1, <1>6, <2>1 DEF Fits, NewId
<1>7. ASSUME e.request \in sent' \ sent PROVE Fits(e.request)'
  <2>1. e.request.id > entity.request.id
    BY <1>7 DEF Save
  <2>2. e.request.id \in 1 .. edits' + 1
    BY <1>1, <1>3, <1>5, <2>1
  <2> QED
    BY <1>1, <2>2 DEF Fits
<1>8. Answering'
  BY <1>1, <1>6, <1>7 DEF Answering, EntityInv
<1>9. Quiet' => Undisturbed'
  BY <1>1 DEF EntityInv, Quiet, Undisturbed
<1> QED
  BY <1>1, <1>4, <1>5, <1>8, <1>9 DEF EntityInv

\* Which entity an administrator or an import comes upon.
LEMMA EntityIs ==
    ASSUME EntityInv, Edit
    PROVE  /\ entity \in Entities /\ Asked(entity)
           /\ entity.request.geometry = entity.geometry
           /\ entity.enrichment = "QUEUED" => entity.request.id > 0
           /\ NewId \in 1 .. MaxEdits + 1 /\ edits \in Nat
           /\ Quiet => Placed(entity)
<1>1. edits \in 0 .. MaxEdits /\ edits < MaxEdits
  BY DEF EntityInv, TypeOK, Edit
<1>2. NewId \in 1 .. MaxEdits + 1 /\ edits \in Nat
  BY <1>1, EditsAssumption DEF NewId
<1> QED
  BY <1>2 DEF EntityInv, TypeOK, Asked, Undisturbed

\* review and set_status: what is missing is asked for as the status moves.
LEMMA ReviewInv ==
    ASSUME EntityInv, Edit, UNCHANGED <<staged, faults, worker>>,
           NEW status \in {"CANDIDATE", "APPROVED", "REJECTED", "RETIRED"},
           Save(Entered(entity, status, NewId))
    PROVE  EntityInv'
<1>1. PICK q : q = Entered(entity, status, NewId)
  OBVIOUS
<1>2. PICK e : e = entity
  OBVIOUS
<1>3. PICK id : id = NewId
  OBVIOUS
<1>4. /\ q \in Entities /\ Asked(q)
      /\ q.request = e.request \/ q.request.id = id
      /\ Placed(e) => Placed(q)
  BY <1>1, <1>2, <1>3, EntityIs, Enters
<1> QED
  BY <1>1, <1>2, <1>3, <1>4, EntityIs, SaveInv

\* A retirement by an import leaves the location and its request alone.
LEMMA DisappearInv ==
    ASSUME EntityInv, Disappear
    PROVE  EntityInv'
<1>1. PICK e : e = entity
  OBVIOUS
<1>2. PICK q : q = [e EXCEPT !.status = "RETIRED"]
  OBVIOUS
<1>3. e \in Entities /\ Asked(e) /\ (Quiet => Placed(e)) /\ Edit
  BY <1>1, EntityIs DEF Disappear
<1>4. /\ q \in Entities /\ q.geometry = e.geometry /\ q.request = e.request
      /\ q.enrichment = e.enrichment /\ Alike(q, e)
  BY <1>2, <1>3 DEF Entities, Alike
<1>5. Asked(q) /\ (Quiet => Placed(q))
  BY <1>3, <1>4, AlikeSame DEF Asked, Placed, Alike
<1>6. Save(q)
  BY <1>1, <1>2, <1>4 DEF Save, Disappear, EntityInv, TypeOK, Entities,
     Requests
<1> QED
  BY <1>1, <1>3, <1>4, <1>5, <1>6, SaveInv DEF Disappear

\* update_geometry and change_geometry_type: a new place is asked for anew.
LEMMA GeometryInv ==
    ASSUME EntityInv, Edit, UNCHANGED <<staged, faults, worker>>,
           NEW g \in Geometries,
           Save(IF g /= entity.geometry
                  THEN Queued([entity EXCEPT !.geometry = g], NewId, FALSE)
                  ELSE [entity EXCEPT !.geometry = g])
    PROVE  EntityInv'
<1>1. PICK e : e = entity
  OBVIOUS
<1>2. PICK d : d = [e EXCEPT !.geometry = g]
  OBVIOUS
<1>3. PICK id : id = NewId
  OBVIOUS
<1>4. /\ e \in Entities /\ Asked(e) /\ (Quiet => Placed(e))
      /\ e.request.geometry = e.geometry /\ id \in 1 .. MaxEdits + 1
  BY <1>1, <1>3, EntityIs
<1>5. /\ d \in Entities /\ d.geometry = g /\ d.request = e.request
      /\ d.enrichment = e.enrichment /\ Alike(d, e)
  BY <1>2, <1>4 DEF Entities, Alike
<1>6. CASE g /= e.geometry
  <2>1. PICK q : q = Queued(d, id, FALSE)
    OBVIOUS
  <2>2. Save(q)
    BY <1>1, <1>2, <1>3, <1>6, <2>1
  <2>3. /\ q \in Entities /\ Asked(q) /\ q.request.id = id
        /\ Marked(d) => Placed(q)
    BY <1>4, <1>5, <1>6, <2>1, QueuesAll
  <2>4. Quiet => Placed(q)
    BY <1>4, <1>5, <2>3, AlikeSame DEF Placed
  <2> QED
    BY <1>3, <2>2, <2>3, <2>4, SaveInv
<1>7. CASE g = e.geometry
  <2>1. Asked(d) /\ (Quiet => Placed(d))
    BY <1>4, <1>5, <1>7, AlikeSame DEF Asked, Placed, Alike
  <2>2. Save(d)
    BY <1>1, <1>2, <1>7
  <2> QED
    BY <1>1, <1>5, <2>1, <2>2, SaveInv
<1> QED
  BY <1>6, <1>7

\* What an edit by hand leaves an entity to be: a code that is emptied is
\* one that a lookup passes over, and released fields are empty.
LEMMA ByHandIs ==
    ASSUME NEW e \in Entities, NEW manual \in SUBSET Names,
           NEW given \in Givens(manual), NEW coded \in SUBSET Derived,
           NEW d, d = ByHand(e, manual, given, coded)
    PROVE  /\ d \in Entities /\ d.geometry = e.geometry
           /\ d.request = e.request /\ d.enrichment = e.enrichment
           /\ Placed(e) => Placed(d)
           /\ e.manual \subseteq manual /\ Asked(e) => Asked(d)
<1>1. PICK location : location = [f \in Fields |->
        IF f \in e.manual \ manual THEN "none"
        ELSE IF f \in Derived /\ Keepers[f] \cap manual /= {}
          THEN IF f \in coded THEN "manual" ELSE "none"
        ELSE IF f \in DOMAIN given THEN given[f]
        ELSE e.location[f]]
  OBVIOUS
<1>2. PICK byHand : byHand = e.byHand \cup manual
  OBVIOUS
<1>3. d = [e EXCEPT !.manual = manual, !.byHand = byHand,
                    !.location = location]
  BY <1>1, <1>2 DEF ByHand
<1>4. /\ DOMAIN given \subseteq manual
      /\ \A f \in DOMAIN given : given[f] \in {"manual", "none"}
  BY DEF Givens
<1>5. ASSUME NEW f \in Fields
      PROVE  /\ f \in e.manual \ manual => location[f] = "none"
             /\ f \notin e.manual \ manual /\ f \in Derived
                  /\ Keepers[f] \cap manual /= {} =>
                    location[f] \in {"manual", "none"}
             /\ f \in manual \/ f \in e.manual
                  \/ (f \in Derived /\ Keepers[f] \cap manual /= {})
                  \/ location[f] = e.location[f]
             /\ location[f] \in Values
  BY <1>1, <1>4 DEF Values, Entities
<1>6. location \in [Fields -> Values] /\ byHand \in SUBSET Names
  BY <1>1, <1>2, <1>5 DEF Entities
<1>7. /\ d \in Entities /\ d.geometry = e.geometry /\ d.request = e.request
      /\ d.enrichment = e.enrichment /\ d.location = location
      /\ d.manual = manual /\ d.byHand = byHand
  BY <1>3, <1>6 DEF Entities
<1>8. e.manual \subseteq Names /\ Derived \cap Names = {} /\ Derived \subseteq Fields
  BY FieldsAssumption DEF Entities, Names
<1>9. ASSUME Placed(e) PROVE Placed(d)
  <2>1. Marked(d)
    BY <1>2, <1>5, <1>7, <1>8, FieldsAssumption DEF Marked
  <2>2. ASSUME NEW f \in Fields \ manual, f \notin e.manual => Here(e, f)
        PROVE  Here(d, f)
    <3>1. CASE f \in e.manual
      BY <1>5, <1>7, <2>2, <3>1 DEF Here
    <3>2. CASE f \notin e.manual /\ f \in Derived
                 /\ Keepers[f] \cap manual /= {}
      BY <1>2, <1>5, <1>7, <2>2, <3>2 DEF Here
    <3>3. CASE f \notin e.manual
                 /\ ~ (f \in Derived /\ Keepers[f] \cap manual /= {})
      BY <1>2, <1>5, <1>7, <2>2, <3>3 DEF Here
    <3> QED
      BY <3>1, <3>2, <3>3
  <2> QED
    BY <1>7, <1>9, <2>1, <2>2 DEF Placed
<1>10. ASSUME e.manual \subseteq manual, Asked(e) PROVE Asked(d)
  <2>1. ASSUME d.enrichment = "none", NEW g \in Missing(d)
        PROVE  \E f \in g : Kept(d, f)
    <3>1. /\ g \in Groups /\ g \subseteq Fields
          /\ \A f \in g : location[f] = "none" /\ f \notin manual
      BY <1>7, <2>1, FieldsAssumption DEF Missing
    <3>2. CASE \E f \in g : f \in Derived /\ Keepers[f] \cap manual /= {}
      BY <1>7, <3>2 DEF Kept
    <3>3. CASE \A f \in g : ~ (f \in Derived /\ Keepers[f] \cap manual /= {})
      <4>1. \A f \in g : e.location[f] = "none" /\ f \notin e.manual
        BY <1>5, <1>10, <3>1, <3>3
      <4>2. g \in Missing(e)
        BY <3>1, <4>1 DEF Missing
      <4>3. PICK f \in g : Kept(e, f)
        BY <1>7, <1>10, <2>1, <4>2 DEF Asked
      <4>4. Kept(d, f)
        BY <1>7, <1>10, <4>3 DEF Kept
      <4> QED
        BY <4>4
    <3> QED
      BY <3>2, <3>3
  <2> QED
    BY <1>7, <1>10, <2>1 DEF Asked
<1> QED
  BY <1>7, <1>9, <1>10

\* update_location: the fields entered by hand are marked as such.
LEMMA LocationInv ==
    ASSUME EntityInv, NEW manual \in SUBSET Names,
           NEW given \in Givens(manual), NEW coded \in SUBSET Derived,
           UpdateLocation(manual, given, coded)
    PROVE  EntityInv'
<1>1. PICK e : e = entity
  OBVIOUS
<1>2. PICK id : id = NewId
  OBVIOUS
<1>3. PICK d : d = ByHand(e, manual, given, coded)
  OBVIOUS
<1>4. /\ e \in Entities /\ Asked(e) /\ (Quiet => Placed(e))
      /\ e.request.geometry = e.geometry /\ id \in 1 .. MaxEdits + 1
      /\ e.enrichment = "QUEUED" => e.request.id > 0
      /\ Edit /\ UNCHANGED <<staged, faults, worker>>
  BY <1>1, <1>2, EntityIs DEF UpdateLocation
<1>5. /\ d \in Entities /\ d.geometry = e.geometry /\ d.request = e.request
      /\ d.enrichment = e.enrichment /\ (Placed(e) => Placed(d))
      /\ e.manual \subseteq manual => Asked(d)
  BY <1>3, <1>4, ByHandIs
<1>6. Save(QueuedIf(e.manual \ manual /= {}, d, id, TRUE))
  BY <1>1, <1>2, <1>3 DEF UpdateLocation
<1>7. CASE e.manual \ manual /= {}
  <2>1. PICK q : q = Queued(d, id, TRUE)
    OBVIOUS
  <2>2. /\ q \in Entities /\ Asked(q)
        /\ q.request = d.request \/ q.request.id = id
        /\ Placed(d) => Placed(q)
    BY <1>4, <1>5, <2>1, QueuesMissing
  <2>3. Save(q)
    BY <1>6, <1>7, <2>1 DEF QueuedIf
  <2> QED
    BY <1>1, <1>2, <1>4, <1>5, <2>2, <2>3, SaveInv
<1>8. CASE e.manual \ manual = {}
  <2>1. Asked(d)
    BY <1>5, <1>8
  <2>2. Save(d)
    BY <1>6, <1>8 DEF QueuedIf
  <2> QED
    BY <1>1, <1>4, <1>5, <2>1, <2>2, SaveInv
<1> QED
  BY <1>7, <1>8

\* request_location_enrichment: a request for what the entity lacks.
LEMMA EnrichmentInv ==
    ASSUME EntityInv, RequestEnrichment
    PROVE  EntityInv'
<1>1. PICK e : e = entity
  OBVIOUS
<1>2. PICK id : id = NewId
  OBVIOUS
<1>3. PICK q : q = Queued(e, id, TRUE)
  OBVIOUS
<1>4. /\ e \in Entities /\ (Quiet => Placed(e))
      /\ e.request.geometry = e.geometry /\ id \in 1 .. MaxEdits + 1
      /\ e.enrichment = "QUEUED" => e.request.id > 0
      /\ Edit /\ UNCHANGED <<staged, faults, worker>>
  BY <1>1, <1>2, EntityIs DEF RequestEnrichment
<1>5. /\ q \in Entities /\ Asked(q)
      /\ q.request = e.request \/ q.request.id = id
      /\ Placed(e) => Placed(q)
  BY <1>3, <1>4, QueuesMissing
<1>6. Save(q)
  BY <1>1, <1>2, <1>3 DEF RequestEnrichment
<1> QED
  BY <1>1, <1>2, <1>4, <1>5, <1>6, SaveInv

\* A promotion writes back the location that was staged.
LEMMA MaterializeInv ==
    ASSUME EntityInv, NEW s \in staged,
           NEW status \in {"CANDIDATE", "APPROVED"}, Materialize(s, status)
    PROVE  EntityInv'
<1>1. PICK new : new =
        [status |-> status, geometry |-> s.geometry,
         location |-> s.location, manual |-> s.manual,
         byHand |-> s.byHand, enrichment |-> "none",
         request |-> NoRequest(s.geometry)]
  OBVIOUS
<1>2. PICK id : id = NewId
  OBVIOUS
<1>3. PICK all : all = (s.geometry /= entity.geometry)
  OBVIOUS
<1>4. s \in Stagings /\ ~ Quiet
  BY DEF EntityInv, TypeOK, Undisturbed
<1>5. NoRequest(s.geometry) \in Requests
  BY <1>4, EditsAssumption DEF NoRequest, Requests, Stagings
<1>6. /\ new \in Entities /\ new.enrichment = "none"
      /\ new.request = NoRequest(new.geometry)
      /\ new.request.geometry = new.geometry /\ new.request.id = 0
  BY <1>1, <1>4, <1>5 DEF Entities, Stagings, NoRequest
<1>7. id \in 1 .. MaxEdits + 1 /\ Edit /\ staged' \subseteq staged
  BY <1>2, EntityIs DEF Materialize
<1>8. UNCHANGED <<faults, worker>>
  BY DEF Materialize
<1>9. CASE s.geometry /= entity.geometry
  <2>1. PICK q : q = Queued(new, id, FALSE)
    OBVIOUS
  <2>2. q \in Entities /\ Asked(q) /\ q.request.id = id
    BY <1>6, <1>7, <2>1, QueuesAll
  <2>3. Save(q)
    BY <1>1, <1>2, <1>9, <2>1 DEF Materialize
  <2> QED
    BY <1>2, <1>4, <1>7, <1>8, <2>2, <2>3, SaveInv
<1>10. CASE s.geometry = entity.geometry
  <2>1. Save(QueuedIf(Missing(new) /= {}, new, id, TRUE))
    BY <1>1, <1>2, <1>10 DEF Materialize
  <2>2. CASE Missing(new) /= {}
    <3>1. PICK q : q = Queued(new, id, TRUE)
      OBVIOUS
    <3>2. /\ q \in Entities /\ Asked(q)
          /\ q.request = new.request \/ q.request.id = id
      BY <1>6, <1>7, <3>1, QueuesMissing
    <3>3. Save(q)
      BY <2>1, <2>2, <3>1 DEF QueuedIf
    <3> QED
      BY <1>2, <1>4, <1>6, <1>7, <1>8, <3>2, <3>3, SaveInv
  <2>3. CASE Missing(new) = {}
    <3>1. Save(new) /\ Asked(new)
      BY <1>6, <2>1, <2>3 DEF QueuedIf, Asked
    <3> QED
      BY <1>4, <1>6, <1>7, <1>8, <3>1, SaveInv
  <2> QED
    BY <2>2, <2>3
<1> QED
  BY <1>9, <1>10

\* Every edit by hand.
LEMMA AdministratorInv ==
    ASSUME EntityInv, Administrator
    PROVE  EntityInv'
<1>1. ASSUME NEW d \in {"CANDIDATE", "APPROVED", "REJECTED", "RETIRED"},
             Review(d) \/ SetStatus(d)
      PROVE  EntityInv'
  BY <1>1, ReviewInv DEF Review, SetStatus
<1>2. ASSUME NEW g \in Geometries, UpdateGeometry(g)
      PROVE  EntityInv'
  <2>1. Save(IF g /= entity.geometry
               THEN Queued([entity EXCEPT !.geometry = g], NewId, FALSE)
               ELSE [entity EXCEPT !.geometry = g])
    BY <1>2 DEF UpdateGeometry, QueuedIf
  <2> QED
    BY <1>2, <2>1, GeometryInv DEF UpdateGeometry
<1>3. ASSUME NEW g \in Geometries, ChangeGeometryType(g)
      PROVE  EntityInv'
  <2>1. Save(IF g /= entity.geometry
               THEN Queued([entity EXCEPT !.geometry = g], NewId, FALSE)
               ELSE [entity EXCEPT !.geometry = g])
    BY <1>3 DEF ChangeGeometryType
  <2> QED
    BY <1>3, <2>1, GeometryInv DEF ChangeGeometryType
<1> QED
  BY <1>1, <1>2, <1>3, LocationInv, EnrichmentInv DEF Administrator

\* What is left to show of a step that leaves the entity alone.
LEMMA ElsewhereInv ==
    ASSUME EntityInv, UNCHANGED <<entity, edits>>, TypeOK',
           sent' \subseteq sent \cup {r \in {entity.request} : r.id > 0},
           \A w \in Workers : pc'[w] /= "idle" =>
              held'[w] \in sent \/ (pc[w] /= "idle" /\ held'[w] = held[w]),
           Quiet' => Quiet /\ (Undisturbed => Undisturbed')
    PROVE  EntityInv'
<1>1. ASSUME NEW r, Fits(r) PROVE Fits(r)'
  BY <1>1 DEF Fits
<1>2. entity.request \in Requests /\ edits \in Nat
  BY EditsAssumption DEF EntityInv, TypeOK, Entities
<1>3. entity.request.id > 0 => Fits(entity.request)
  BY <1>2, EditsAssumption DEF EntityInv, Fits, Requests
<1>4. \A r \in sent' : Fits(r)'
  BY <1>1, <1>3 DEF EntityInv, Answering
<1>5. ASSUME NEW w \in Workers, pc'[w] /= "idle", NEW h, h = held'[w]
      PROVE  Fits(h)'
  <2>1. Fits(h)
    BY <1>5 DEF EntityInv, Answering
  <2> QED
    BY <1>1, <2>1
<1>6. Answering'
  <2>1. ASSUME NEW w \in Workers, pc'[w] /= "idle" PROVE Fits(held[w])'
    <3>1. PICK h : h = held'[w]
      OBVIOUS
    <3>2. Fits(h)'
      BY <1>5, <2>1, <3>1
    <3> QED
      BY <3>1, <3>2 DEF Fits
  <2> QED
    BY <1>4, <2>1 DEF Answering
<1> QED
  BY <1>6 DEF EntityInv, Asked, Missing, Kept

\* A staged copy counts as a disturbance and changes nothing else.
LEMMA StageInv ==
    ASSUME EntityInv, NEW g \in Geometries, NEW located \in SUBSET Fields,
           Stage(g, located)
    PROVE  EntityInv'
<1> USE DEF worker
<1>1. PICK e : e = entity
  OBVIOUS
<1>2. PICK location : location = StagedLocation(e, g, located)
  OBVIOUS
<1>3. e \in Entities
  BY <1>1 DEF EntityInv, TypeOK
<1>4. location \in [Fields -> Values]
  BY <1>2, <1>3 DEF Entities, Values, StagedLocation
<1>5. [geometry |-> g, manual |-> e.manual, byHand |-> e.byHand,
       location |-> location] \in Stagings
  BY <1>3, <1>4 DEF Entities, Stagings
<1>6. staged' \subseteq Stagings
  BY <1>1, <1>2, <1>5 DEF Stage, EntityInv, TypeOK
<1>7. faults' \in SUBSET FaultKinds /\ ~ Quiet'
  BY FaultsAssumption DEF Stage, Fault, EntityInv, TypeOK, Quiet
<1>8. TypeOK'
  BY <1>6, <1>7 DEF Stage, EntityInv, TypeOK
<1> QED
  BY <1>7, <1>8, ElsewhereInv DEF Stage

\* Faults happen and are not undone.
LEMMA FaultsGrow ==
    ASSUME EntityInv,
           faults' = faults \/ \E kind \in FaultKinds : Fault(kind)
    PROVE  /\ faults' \in SUBSET FaultKinds /\ (Quiet' => Quiet)
           /\ Fault("fail") => ~ Quiet'
<1>1. faults \subseteq faults'
  BY DEF Fault
<1>2. faults' \in SUBSET FaultKinds
  BY FaultsAssumption DEF EntityInv, TypeOK, Fault
<1> QED
  BY <1>1, <1>2 DEF Quiet, Fault

\* A worker begins with a request as it was sent.
LEMMA BeginInv ==
    ASSUME EntityInv, NEW w \in Workers, NEW r \in sent, Begin(w, r)
    PROVE  EntityInv'
<1> USE DEF row
<1>1. faults' \in SUBSET FaultKinds /\ (Quiet' => Quiet)
  BY FaultsGrow DEF Begin, FaultKinds
<1>2. TypeOK'
  BY <1>1 DEF Begin, Goto, EntityInv, TypeOK
<1>3. \A v \in Workers : pc'[v] /= "idle" =>
         held'[v] \in sent \/ (pc[v] /= "idle" /\ held'[v] = held[v])
  BY DEF Begin, Goto, EntityInv, TypeOK
<1>4. Undisturbed => Undisturbed'
  BY DEF Begin, Undisturbed
<1> QED
  BY <1>1, <1>2, <1>3, <1>4, ElsewhereInv DEF Begin

\* The answer of the provider is for the geometry that was asked.
LEMMA LookUpInv ==
    ASSUME EntityInv, NEW w \in Workers, LookUp(w) \/ LookUpFails(w)
    PROVE  EntityInv'
<1> USE DEF row
<1>1. faults' \in SUBSET FaultKinds /\ (Quiet' => Quiet)
  BY FaultsGrow DEF LookUp, LookUpFails, FaultKinds
<1>2. /\ Without("error") \in Answers /\ Without("error").kind = "error"
      /\ \A known \in SUBSET Fields :
            Known(known) \in Answers /\ Known(known).kind = "known"
  BY DEF Without, Known, Answers
<1>3. /\ pc' = [pc EXCEPT ![w] = "apply"]
      /\ \E a \in Answers : /\ answer' = [answer EXCEPT ![w] = a]
                            /\ a.kind /= "none"
                            /\ a.kind = "error" =>
                                 ~ Quiet' \/ held[w].geometry \in failures[w]
      /\ failures' \in [Workers -> SUBSET Geometries]
      /\ failures' = failures \/ ~ Quiet'
  <2>1. held[w].geometry \in Geometries
    BY DEF EntityInv, TypeOK, Requests
  <2>2. CASE LookUp(w)
    BY <1>2, <2>2 DEF LookUp, Goto, EntityInv, TypeOK, Knowledge
  <2>3. CASE LookUpFails(w)
    <3>1. ~ Quiet'
      BY <2>3, FaultsGrow DEF LookUpFails, FaultKinds
    <3> QED
      BY <1>2, <2>1, <2>3, <3>1 DEF LookUpFails, Goto, EntityInv, TypeOK
  <2> QED
    BY <2>2, <2>3
<1>4. PICK a \in Answers : /\ answer' = [answer EXCEPT ![w] = a]
                           /\ a.kind /= "none"
                           /\ a.kind = "error" =>
                                ~ Quiet' \/ held[w].geometry \in failures[w]
  BY <1>3
<1>5. UNCHANGED <<row, sent, edits, held>> /\ pc[w] = "lookup"
  BY DEF LookUp, LookUpFails
<1>6. TypeOK'
  BY <1>1, <1>3, <1>4, <1>5 DEF EntityInv, TypeOK
<1>7. \A v \in Workers : pc'[v] /= "idle" =>
         held'[v] \in sent \/ (pc[v] /= "idle" /\ held'[v] = held[v])
  BY <1>3, <1>5 DEF EntityInv, TypeOK
<1>8. Quiet' /\ Undisturbed => Undisturbed'
  BY <1>3, <1>4, <1>5 DEF Undisturbed, EntityInv, TypeOK
<1> QED
  BY <1>1, <1>5, <1>6, <1>7, <1>8, ElsewhereInv

\* A worker that leaves, or dies, takes nothing from the entity.
LEMMA LeaveInv ==
    ASSUME EntityInv, NEW w \in Workers, Leave(w),
           UNCHANGED <<row, edits>>, sent' \subseteq sent,
           faults' = faults \/ \E kind \in FaultKinds : Fault(kind),
           failures' \in {failures, [failures EXCEPT ![w] = {}]}
    PROVE  EntityInv'
<1> USE DEF row
<1>1. faults' \in SUBSET FaultKinds /\ (Quiet' => Quiet)
  BY FaultsGrow
<1>2. Without("none") \in Answers /\ Without("none").kind = "none"
  BY DEF Without, Answers
<1>3. NoRequest(Birth) \in Requests
  BY BirthAssumption, EditsAssumption DEF NoRequest, Requests
<1>4. TypeOK'
  BY <1>1, <1>2, <1>3 DEF Leave, Goto, EntityInv, TypeOK
<1>5. \A v \in Workers : pc'[v] /= "idle" =>
         held'[v] \in sent \/ (pc[v] /= "idle" /\ held'[v] = held[v])
  BY DEF Leave, Goto, EntityInv, TypeOK
<1>6. Undisturbed => Undisturbed'
  BY <1>2 DEF Leave, Undisturbed, EntityInv, TypeOK
<1> QED
  BY <1>1, <1>4, <1>5, <1>6, ElsewhereInv

\* What an answer writes, and what it leaves.
LEMMA AppliedIs ==
    ASSUME NEW e \in Entities, NEW known \in SUBSET Fields,
           NEW g \in Geometries, NEW m \in BOOLEAN, NEW q,
           q = Ended(Applied(e, known, g, m), "COMPLETED")
    PROVE  /\ q \in Entities /\ q.enrichment = "COMPLETED"
           /\ q.geometry = e.geometry /\ q.request = e.request
           /\ q.manual = e.manual /\ q.byHand = e.byHand
           /\ \A f \in Fields : q.location[f] =
                IF Kept(e, f) \/ (m /\ e.location[f] /= "none")
                  THEN e.location[f]
                ELSE IF f \in known THEN g ELSE "none"
<1>1. PICK location : location = [f \in Fields |->
        IF Kept(e, f) \/ (m /\ e.location[f] /= "none")
          THEN e.location[f]
        ELSE IF f \in known THEN g ELSE "none"]
  OBVIOUS
<1>2. location \in [Fields -> Values]
  BY <1>1 DEF Values, Entities
<1>3. PICK d : d = Applied(e, known, g, m)
  OBVIOUS
<1>4. d = [e EXCEPT !.location = location]
  BY <1>1, <1>3 DEF Applied
<1>5. /\ d \in Entities /\ d.geometry = e.geometry /\ d.request = e.request
      /\ d.manual = e.manual /\ d.byHand = e.byHand
      /\ d.location = location
  BY <1>2, <1>4 DEF Entities
<1>6. /\ q \in Entities /\ q.enrichment = "COMPLETED"
      /\ q.geometry = d.geometry /\ q.request = d.request
      /\ q.manual = d.manual /\ q.byHand = d.byHand
      /\ q.location = d.location
  BY <1>3, <1>5 DEF Ended, Entities
<1> QED
  BY <1>1, <1>5, <1>6

\* _process_location_enrichment: an answer is applied to the geometry it
\* was looked up for, and what the provider did not know stays missing.
LEMMA ApplyInv ==
    ASSUME EntityInv, NEW w \in Workers, Apply(w)
    PROVE  EntityInv'
<1>1. PICK e : e = entity
  OBVIOUS
<1>2. PICK r : r = held[w]
  OBVIOUS
<1>3. PICK q : q = entity'
  OBVIOUS
<1>4. /\ e \in Entities /\ Asked(e) /\ r \in Requests /\ Fits(r)
      /\ e.request \in Requests
  BY <1>1, <1>2 DEF EntityInv, TypeOK, Answering, Apply, Entities
<1>6. /\ q \in Entities /\ q.geometry = e.geometry /\ q.request = e.request
      /\ Asked(q) /\ (Quiet => Placed(q))
  <2>1. Quiet => Placed(e) /\ answer[w].kind /= "error"
    BY <1>1 DEF EntityInv, Undisturbed
  <2>2. CASE ~ Current(r)
    BY <1>1, <1>2, <1>3, <1>4, <2>1, <2>2 DEF Apply
  <2>3. CASE Current(r) /\ answer[w].kind = "error"
    <3>1. q = Ended(e, "FAILED")
      BY <1>1, <1>2, <1>3, <2>3 DEF Apply
    <3>2. /\ q \in Entities /\ q.geometry = e.geometry
          /\ q.request = e.request /\ q.enrichment = "FAILED"
      BY <1>4, <3>1 DEF Ended, Entities
    <3> QED
      BY <1>4, <2>1, <2>3, <3>2 DEF Asked
  <2>4. CASE Current(r) /\ answer[w].kind /= "error"
    <3>1. PICK known : known = answer[w].fields
      OBVIOUS
    <3>2. PICK g : g = r.geometry
      OBVIOUS
    <3>3. PICK m : m = r.onlyMissing
      OBVIOUS
    <3>4. q = Ended(Applied(e, known, g, m), "COMPLETED")
      BY <1>1, <1>2, <1>3, <2>4, <3>1, <3>2, <3>3 DEF Apply
    <3>5. known \in SUBSET Fields /\ g \in Geometries /\ m \in BOOLEAN
      BY <1>4, <3>1, <3>2, <3>3 DEF EntityInv, TypeOK, Answers, Requests
    <3>6. /\ q \in Entities /\ q.enrichment = "COMPLETED"
          /\ q.geometry = e.geometry /\ q.request = e.request
          /\ q.manual = e.manual /\ q.byHand = e.byHand
          /\ \A f \in Fields : q.location[f] =
               IF Kept(e, f) \/ (m /\ e.location[f] /= "none")
                 THEN e.location[f]
               ELSE IF f \in known THEN g ELSE "none"
      BY <1>4, <3>4, <3>5, AppliedIs
    <3>7. g = e.geometry /\ m = e.request.onlyMissing
      BY <1>1, <1>4, <2>4, <3>2, <3>3 DEF Current, Fits
    <3>8. Placed(e) => Placed(q)
      <4> SUFFICES ASSUME Placed(e) PROVE Placed(q)
        OBVIOUS
      <4>1. Marked(q)
        BY <3>6, FieldsAssumption DEF Placed, Marked, Kept
      <4>2. ASSUME NEW f \in Fields \ e.manual, Kept(e, f) PROVE Here(q, f)
        <5>1. q.location[f] = e.location[f] /\ Keepers[f] \cap e.manual /= {}
          BY <3>6, <4>2 DEF Kept
        <5> QED
          BY <3>6, <5>1 DEF Here, Placed, Marked
      <4>3. ASSUME NEW f \in Fields \ e.manual, ~ Kept(e, f) PROVE Here(q, f)
        <5>1. CASE m = TRUE /\ e.location[f] /= "none"
          BY <3>6, <3>7, <4>3, <5>1 DEF Here, Placed
        <5>2. CASE ~ (m = TRUE /\ e.location[f] /= "none")
          BY <3>6, <3>7, <4>3, <5>2 DEF Here
        <5> QED
          BY <5>1, <5>2
      <4> QED
        BY <3>6, <4>1, <4>2, <4>3 DEF Placed
    <3> QED
      BY <1>4, <2>1, <3>6, <3>8 DEF Asked
  <2> QED
    BY <2>2, <2>3, <2>4
<1>7. Without("none") \in Answers /\ Without("none").kind = "none"
  BY DEF Without, Answers
<1>8. TypeOK'
  BY <1>3, <1>6, <1>7 DEF Apply, Goto, EntityInv, TypeOK
<1>9. Answering'
  <2>1. ASSUME NEW x, Fits(x) PROVE Fits(x)'
    BY <1>1, <1>3, <1>6, <2>1 DEF Fits, Apply
  <2>2. \A v \in Workers : pc'[v] /= "idle" => pc[v] /= "idle"
    BY DEF Apply, Goto, EntityInv, TypeOK
  <2>3. ASSUME NEW v \in Workers, pc'[v] /= "idle" PROVE Fits(held[v])'
    <3>1. PICK h : h = held[v]
      OBVIOUS
    <3>2. Fits(h)
      BY <2>2, <2>3, <3>1 DEF EntityInv, Answering
    <3>3. Fits(h)'
      BY <2>1, <3>2
    <3> QED
      BY <3>1, <3>3 DEF Fits, Apply
  <2> QED
    BY <2>1, <2>3 DEF Answering, EntityInv, Apply
<1>10. Quiet' => Undisturbed'
  BY <1>3, <1>6, <1>7 DEF Apply, EntityInv, Undisturbed, Quiet, TypeOK
<1> QED
  BY <1>1, <1>3, <1>6, <1>8, <1>9, <1>10 DEF EntityInv, Apply

\* No step of an administrator, an import or a worker breaks the invariant.
LEMMA NextEntityInv == EntityInv /\ [Next]_vars => EntityInv'
<1> SUFFICES ASSUME EntityInv, [Next]_vars PROVE EntityInv'
  OBVIOUS
<1>1. CASE Administrator
  BY <1>1, AdministratorInv
<1>2. CASE Import
  BY <1>2, DisappearInv, StageInv, MaterializeInv DEF Import
<1>3. ASSUME NEW w \in Workers, Ack(w) \/ Crash(w) \/ DeadLetter(w)
      PROVE  EntityInv'
  BY <1>3, LeaveInv DEF Ack, Crash, DeadLetter, FaultKinds
<1>4. ASSUME NEW w \in Workers,
             Work(w) \/ LookUpFails(w) \/ Crash(w) \/ DeadLetter(w)
      PROVE  EntityInv'
  BY <1>3, <1>4, BeginInv, LookUpInv, ApplyInv DEF Work
<1>5. CASE Redispatch
  <2>1. entity.request \in Requests /\ entity.request.id > 0
    BY <1>5 DEF Redispatch, EntityInv, TypeOK, Entities, Asked
  <2>2. TypeOK'
    BY <1>5, <2>1 DEF Redispatch, EntityInv, TypeOK, row, worker
  <2> QED
    BY <1>5, <2>1, <2>2, ElsewhereInv
       DEF Redispatch, row, worker, Undisturbed, Quiet
<1>6. CASE UNCHANGED vars
  <2>1. TypeOK'
    BY <1>6 DEF vars, row, worker, EntityInv, TypeOK
  <2> QED
    BY <1>6, <2>1, ElsewhereInv DEF vars, row, worker, Undisturbed, Quiet
<1> QED
  BY <1>1, <1>2, <1>4, <1>5, <1>6 DEF Next

\* The invariant of an entity holds in every reachable state.
LEMMA EntityInvariant == Spec => []EntityInv
BY InitEntityInv, NextEntityInv, PTL DEF Spec

-----------------------------------------------------------------------------
\* The theorems.

(* Every variable has its type; a worker has an answer exactly while it is *)
(* about to write it.                                                      *)
THEOREM EntityTypes == Spec => []TypeOK
<1>1. EntityInv => TypeOK
  BY DEF EntityInv
<1> QED
  BY <1>1, EntityInvariant, PTL

(* What an entity lacks has been asked for, however it came to lack it:    *)
(* it was created or promoted without it, or it was released from manual   *)
(* management (_queue_location_enrichment).                                *)
THEOREM WhatIsMissingIsAsked == Spec => []MissingIsAskedFor
<1>1. EntityInv => MissingIsAskedFor
  BY DEF EntityInv, Asked, MissingIsAskedFor
<1> QED
  BY <1>1, EntityInvariant, PTL

(* An answer that was looked up for one geometry never completes an entity *)
(* that has another one by then, whatever edits and redeliveries come in   *)
(* between (_process_location_enrichment, apply_location_result).          *)
THEOREM CompletedIsHere == Spec => []LocatedHere
<1>1. EntityInv => LocatedHere
  BY DEF EntityInv, Quiet, Undisturbed, Placed, Here, LocatedHere
<1> QED
  BY <1>1, EntityInvariant, PTL

(* An answer never replaces a field managed by hand, even if the mark was  *)
(* set after the worker had read the entity (apply_location_result).       *)
THEOREM ManualValuesKept == Spec => ManualKept
<1>1. ASSUME EntityInv, NEW w \in Workers, Apply(w),
             NEW f \in Fields, Kept(entity, f)
      PROVE  entity'.location[f] = entity.location[f]
  <2>1. PICK e : e = entity
    OBVIOUS
  <2>2. e \in Entities /\ Kept(e, f)
    BY <1>1, <2>1 DEF EntityInv, TypeOK, Entities
  <2>3. PICK q : q = entity'
    OBVIOUS
  <2>4. CASE q = e \/ q = Ended(e, "FAILED")
    BY <2>1, <2>2, <2>3, <2>4 DEF Ended, Entities
  <2>5. PICK known : known = answer[w].fields
    OBVIOUS
  <2>6. PICK g : g = held[w].geometry
    OBVIOUS
  <2>7. PICK m : m = held[w].onlyMissing
    OBVIOUS
  <2>8. CASE q = Ended(Applied(e, known, g, m), "COMPLETED")
    <3>1. known \in SUBSET Fields /\ g \in Geometries /\ m \in BOOLEAN
      BY <1>1, <2>5, <2>6, <2>7 DEF EntityInv, TypeOK, Answers, Requests
    <3>2. q.location[f] = e.location[f]
      BY <2>2, <2>8, <3>1, AppliedIs
    <3> QED
      BY <2>1, <2>3, <3>2
  <2> QED
    BY <1>1, <2>1, <2>3, <2>4, <2>5, <2>6, <2>7, <2>8 DEF Apply
<1>2. EntityInv /\ [Next]_vars =>
        [(\E w \in Workers : Apply(w)) =>
           \A f \in Fields : Kept(entity, f) =>
             entity'.location[f] = entity.location[f]]_vars
  BY <1>1
<1> QED
  BY <1>2, EntityInvariant, PTL DEF Spec, ManualKept
=============================================================================
