------------------------------ MODULE EntityRecord ------------------------------
(***************************************************************************)
(* One entity of the catalogue: its lifecycle, its geometry, and the       *)
(* location that is looked up for the geometry, by hand or by the workers  *)
(* of the enrichment queue (src/geodata.py, src/reverse_geocoder.py, the   *)
(* consumer and the reconciler in src/geodata_import_worker.py).  A worker *)
(* asks the provider outside any transaction; requests of administrators,  *)
(* and imports promoted into the entity, come in between.  Each of these   *)
(* is one transaction under a lock of the row.                             *)
(***************************************************************************)
EXTENDS Naturals, FiniteSets

CONSTANTS
    Workers,      \* consumers of the enrichment requests
    Geometries,
    Birth,        \* the geometry the entity is created with
    Fields,       \* location fields: names and codes
    Codes,        \* the fields that are codes
    Derived,      \* the codes that the catalogue has for a name
    Groups,       \* LOCATION_REQUIRED_GROUPS: one field of each is needed
    Keepers,      \* the names that keep a field from a lookup (code_parents,
                  \* location_aliases)
    MaxEdits,     \* bound: requests of administrators, promotions
    Faults,       \* the kinds of fault that may happen, each once
    MaxFaults     \* bound: how many of them happen

FaultKinds ==
    {"fail",      \* the provider answers an error
     "crash",     \* a worker dies; its message is delivered again
     "twice",     \* a message is delivered again to another worker
     "dead",      \* a message reaches its delivery limit
     "import"}    \* an import is staged for the entity

ASSUME BirthAssumption  == Birth \in Geometries
ASSUME FieldsAssumption ==
    /\ Derived \subseteq Codes /\ Codes \subseteq Fields
    /\ Groups \subseteq SUBSET Fields
    /\ Keepers \in [Fields -> SUBSET (Fields \ Codes)]
    /\ \A c \in Derived : Keepers[c] /= {}
ASSUME EditsAssumption  == MaxEdits \in Nat
ASSUME FaultsAssumption == Faults \subseteq FaultKinds /\ MaxFaults \in Nat

\* Codes are not edited by hand (update_location).
Names == Fields \ Codes

(* A location value: looked up for a geometry, entered by hand (or derived *)
(* from what was), or missing.                                             *)
Values == Geometries \cup {"manual", "none"}

\* A request for a lookup; 0 numbers no request.
Requests ==
    [id : 0 .. MaxEdits + 1, geometry : Geometries, onlyMissing : BOOLEAN]

Entities ==
    [status : {"CANDIDATE", "APPROVED", "REJECTED", "RETIRED"},
     geometry : Geometries, location : [Fields -> Values],
     manual : SUBSET Names,     \* manualLocationFields
     byHand : SUBSET Names,     \* those that reviewHistory says were, ever
     request : Requests,
     enrichment : {"none", "QUEUED", "COMPLETED", "FAILED"}]

\* What a staged import will write.
Stagings ==
    [geometry : Geometries, location : [Fields -> Values],
     manual : SUBSET Names, byHand : SUBSET Names]

\* The provider's answer: the fields it knows, or an error.
Answers == [kind : {"none", "known", "error"}, fields : SUBSET Fields]

Known(known)  == [kind |-> "known", fields |-> known]
Without(kind) == [kind |-> kind, fields |-> {}]

VARIABLES
    entity,       \* the row
    staged,       \* imports staged for it
    sent,         \* requests in the stream
    edits,        \* requests made so far (bound and identity)
    faults,       \* the kinds that have happened
    pc, held,     \* a worker's step and the request it works on
    answer,       \* what the provider has told it
    failures      \* points whose failed lookup the process remembers

row    == <<entity, staged>>
worker == <<pc, held, answer, failures>>
vars   == <<row, sent, edits, faults, worker>>

TypeOK ==
    /\ entity \in Entities
    /\ staged \subseteq Stagings
    /\ sent \subseteq Requests
    /\ edits \in 0 .. MaxEdits
    /\ faults \in SUBSET FaultKinds
    /\ pc \in [Workers -> {"idle", "lookup", "apply", "ack"}]
    /\ held \in [Workers -> Requests]
    /\ answer \in [Workers -> Answers]
    /\ failures \in [Workers -> SUBSET Geometries]
    /\ \A w \in Workers : answer[w].kind = "none" <=> pc[w] /= "apply"

-----------------------------------------------------------------------------
Fault(kind) ==
    /\ kind \in Faults \ faults /\ Cardinality(faults) < MaxFaults
    /\ faults' = faults \cup {kind}

\* An administrator's request counts against the bound and gets an id.
Edit == edits < MaxEdits /\ edits' = edits + 1

\* _missing_location_fields: neither data nor a manual mark.
Missing(e) ==
    {g \in Groups : \A f \in g : e.location[f] = "none" /\ f \notin e.manual}

\* apply_location_result passes over a field if it, or what it goes with, is
\* managed by hand.
Kept(e, f) == ({f} \cup Keepers[f]) \cap e.manual /= {}

\* The entity with a request for its geometry.
Carrying(e, id, onlyMissing) ==
    [e EXCEPT !.enrichment = "QUEUED",
              !.request = [id |-> id, geometry |-> e.geometry,
                           onlyMissing |-> onlyMissing]]

\* Mutant: a request is merged into the queued one whatever its geometry.
QueuedAtAll(e, id, onlyMissing) ==
    IF e.enrichment = "QUEUED" THEN e ELSE Carrying(e, id, onlyMissing)

(* _queue_location_enrichment: a request for the geometry, unless one for  *)
(* the same geometry is queued.                                            *)
Queued(e, id, onlyMissing) ==
    IF e.enrichment = "QUEUED" /\ e.request.geometry = e.geometry THEN e
    ELSE Carrying(e, id, onlyMissing)

QueuedIf(condition, e, id, onlyMissing) ==
    IF condition THEN Queued(e, id, onlyMissing) ELSE e

\* The row and, if it carries a new request, the command for it are committed.
Save(e) ==
    /\ entity' = e
    /\ sent' = IF e.request.id > entity.request.id
                 THEN sent \cup {e.request} ELSE sent

Moved(e, status) == [e EXCEPT !.status = status]

\* A lifecycle that becomes active asks for what is missing.
Entered(e, status, id) ==
    QueuedIf(status \in {"APPROVED", "CANDIDATE"} /\ Missing(e) /= {},
             Moved(e, status), id, TRUE)

NoRequest(g) == [id |-> 0, geometry |-> g, onlyMissing |-> FALSE]

\* The entity is created by a promotion; its source may have located it.
Init ==
    /\ \E located \in SUBSET Fields, status \in {"CANDIDATE", "APPROVED"} :
         LET new == [status |-> status, geometry |-> Birth,
                     location |-> [f \in Fields |->
                                     IF f \in located THEN Birth ELSE "none"],
                     manual |-> {}, byHand |-> {}, enrichment |-> "none",
                     request |-> NoRequest(Birth)]
         IN  entity = Entered(new, status, 1)
    /\ staged = {}
    /\ sent = {entity.request : g \in Missing(entity)}
    /\ edits = 0
    /\ faults = {}
    /\ pc = [w \in Workers |-> "idle"]
    /\ held = [w \in Workers |-> NoRequest(Birth)]
    /\ answer = [w \in Workers |-> Without("none")]
    /\ failures = [w \in Workers |-> {}]

-----------------------------------------------------------------------------
\* Administrators.  edits + 2 is the next id: the first one made the entity.

NewId == edits + 2

Review(decision) ==
    /\ Edit
    /\ entity.status = "CANDIDATE" /\ decision \in {"APPROVED", "REJECTED"}
    /\ Save(Entered(entity, decision, NewId))
    /\ UNCHANGED <<staged, faults, worker>>

\* What set_status lets through: a move to the same status changes nothing.
StatusMoves ==
    {<<"CANDIDATE", "APPROVED">>, <<"CANDIDATE", "REJECTED">>,
     <<"APPROVED", "RETIRED">>}

SetStatus(target) ==
    /\ Edit
    /\ <<entity.status, target>> \in StatusMoves
    /\ Save(Entered(entity, target, NewId))
    /\ UNCHANGED <<staged, faults, worker>>

\* _apply_disappearance, with the policy that retires.
Disappear ==
    /\ Edit
    /\ entity' = [entity EXCEPT !.status = "RETIRED"]
    /\ UNCHANGED <<staged, sent, faults, worker>>

UpdateGeometry(g) ==
    /\ Edit
    /\ Save(QueuedIf(g /= entity.geometry, [entity EXCEPT !.geometry = g],
                     NewId, FALSE))
    /\ UNCHANGED <<staged, faults, worker>>

ChangeGeometryType(g) ==
    /\ Edit
    /\ g /= entity.geometry
    /\ Save(Queued([entity EXCEPT !.geometry = g], NewId, FALSE))
    /\ UNCHANGED <<staged, faults, worker>>

\* Values, or null, for some of the fields managed by hand.
Givens(manual) ==
    UNION {[some -> {"manual", "none"}] : some \in SUBSET manual}

(* derive_location_codes refuses names that the catalogue does not know:   *)
(* of the names a code has, all managed by hand, one is given.             *)
Selected(manual, given) ==
    \A c \in Derived : Keepers[c] \subseteq manual =>
        \E k \in Keepers[c] \cap DOMAIN given : given[k] = "manual"

(* The entity with the fields that are managed by hand from now on, some   *)
(* of them given a value.  The codes of their names are those of the       *)
(* catalogue, which may have none; the fields that were marked and are no  *)
(* longer are emptied, their codes are not.                                *)
ByHand(e, manual, given, coded) ==
    [e EXCEPT
       !.manual = manual,
       !.byHand = e.byHand \cup manual,
       !.location = [f \in Fields |->
           IF f \in e.manual \ manual THEN "none"
           ELSE IF f \in Derived /\ Keepers[f] \cap manual /= {}
             THEN IF f \in coded THEN "manual" ELSE "none"
           ELSE IF f \in DOMAIN given THEN given[f]
           ELSE e.location[f]]]

\* Mutant: fields that are released are not asked for.
UpdateLocationUnasked(manual, given, coded) ==
    /\ Edit
    /\ Selected(manual, given)
    /\ Save(ByHand(entity, manual, given, coded))
    /\ UNCHANGED <<staged, faults, worker>>

UpdateLocation(manual, given, coded) ==
    /\ Edit
    /\ Selected(manual, given)
    /\ Save(QueuedIf(entity.manual \ manual /= {},
                     ByHand(entity, manual, given, coded), NewId, TRUE))
    /\ UNCHANGED <<staged, faults, worker>>

RequestEnrichment ==
    /\ Edit
    /\ Missing(entity) /= {}
    /\ Save(Queued(entity, NewId, TRUE))
    /\ UNCHANGED <<staged, faults, worker>>

-----------------------------------------------------------------------------
\* Imports.

(* The location a record for the entity is staged with: the entity's own,  *)
(* in which the source supplies fields only as long as neither an import   *)
(* nor a lookup has written any; from then on all of them are there, if    *)
(* only as null (_apply_import_location_metadata,                          *)
(* _preserve_manual_location).                                             *)
StagedLocation(e, g, located) ==
    IF \E f \in Fields : e.location[f] \in Geometries THEN e.location
    ELSE [f \in Fields |->
            IF f \in located /\ e.location[f] = "none" THEN g
            ELSE e.location[f]]

\* The record has a geometry of its own.
Stage(g, located) ==
    /\ Fault("import")
    /\ staged' = staged \cup
         {[geometry |-> g, manual |-> entity.manual, byHand |-> entity.byHand,
           location |-> StagedLocation(entity, g, located)]}
    /\ UNCHANGED <<entity, sent, edits, worker>>

(* The staged record replaces the entity, its enrichment included, unless  *)
(* that is approved; a new geometry, or missing fields, ask for a lookup.  *)
Materialize(s, status) ==
    /\ Edit
    /\ entity.status /= "APPROVED"
    /\ LET new == [status |-> status, geometry |-> s.geometry,
                   location |-> s.location, manual |-> s.manual,
                   byHand |-> s.byHand, enrichment |-> "none",
                   request |-> NoRequest(s.geometry)]
       IN  Save(IF s.geometry /= entity.geometry
                  THEN Queued(new, NewId, FALSE)
                  ELSE QueuedIf(Missing(new) /= {}, new, NewId, TRUE))
    /\ staged' = staged \ {s}
    /\ UNCHANGED <<faults, worker>>

-----------------------------------------------------------------------------
\* The worker: _process_location_enrichment.

Goto(w, phase) == pc' = [pc EXCEPT ![w] = phase]

\* The request is the entity's own and its geometry is the present one.
Current(r) == entity.request.id = r.id /\ entity.geometry = r.geometry

Settled == entity.enrichment \in {"COMPLETED", "FAILED"}

(* A delivery of a request that another worker holds is a fault; one that  *)
(* is out of date or answered is acknowledged without a lookup.            *)
Begin(w, r) ==
    /\ pc[w] = "idle" /\ r \in sent
    /\ IF \E v \in Workers : pc[v] /= "idle" /\ held[v] = r
         THEN Fault("twice") ELSE UNCHANGED faults
    /\ Goto(w, IF Current(r) /\ ~Settled THEN "lookup" ELSE "ack")
    /\ held' = [held EXCEPT ![w] = r]
    /\ UNCHANGED <<row, sent, edits, answer, failures>>

\* What a provider knows: a name and its alias are the same to it
\* (normalize_response).
Knowledge == {known \in SUBSET Fields :
                 \A f \in known \cap Names : Keepers[f] \subseteq known}

\* The provider knows some of the fields, unless a failure is remembered ...
LookUp(w) ==
    /\ pc[w] = "lookup"
    /\ IF held[w].geometry \in failures[w]
         THEN answer' = [answer EXCEPT ![w] = Without("error")]
         ELSE \E known \in Knowledge :
                answer' = [answer EXCEPT ![w] = Known(known)]
    /\ Goto(w, "apply")
    /\ UNCHANGED <<row, sent, edits, faults, held, failures>>

\* ... or it fails, which is remembered like an answer.
LookUpFails(w) ==
    /\ pc[w] = "lookup"
    /\ Fault("fail")
    /\ answer' = [answer EXCEPT ![w] = Without("error")]
    /\ failures' =
         [failures EXCEPT ![w] = failures[w] \cup {held[w].geometry}]
    /\ Goto(w, "apply")
    /\ UNCHANGED <<row, sent, edits, held>>

\* Mutant: only the marked fields themselves are passed over.
AppliedToOthers(e, known, g, onlyMissing) ==
    [e EXCEPT !.location = [f \in Fields |->
        IF f \in e.manual \/ (onlyMissing /\ e.location[f] /= "none")
          THEN e.location[f]
        ELSE IF f \in known THEN g ELSE "none"]]

(* apply_location_result: fields that are kept, and existing ones when     *)
(* only missing ones are asked for, keep their values, each by itself.     *)
Applied(e, known, g, onlyMissing) ==
    [e EXCEPT !.location = [f \in Fields |->
        IF Kept(e, f) \/ (onlyMissing /\ e.location[f] /= "none")
          THEN e.location[f]
        ELSE IF f \in known THEN g ELSE "none"]]

Ended(e, state) == [e EXCEPT !.enrichment = state]

\* Mutant: the entity is not looked at again after the lookup.
ApplyUnchecked(w) ==
    /\ pc[w] = "apply"
    /\ entity' =
         IF answer[w].kind = "error" THEN Ended(entity, "FAILED")
         ELSE Ended(Applied(entity, answer[w].fields, held[w].geometry,
                            held[w].onlyMissing), "COMPLETED")
    /\ answer' = [answer EXCEPT ![w] = Without("none")]
    /\ Goto(w, "ack")
    /\ UNCHANGED <<staged, sent, edits, faults, held, failures>>

(* In one transaction the request is compared again and the answer, or the *)
(* failure, is written with the state of the request.                      *)
Apply(w) ==
    /\ pc[w] = "apply"
    /\ entity' =
         IF ~Current(held[w]) THEN entity
         ELSE IF answer[w].kind = "error" THEN Ended(entity, "FAILED")
         ELSE Ended(Applied(entity, answer[w].fields, held[w].geometry,
                            held[w].onlyMissing), "COMPLETED")
    /\ answer' = [answer EXCEPT ![w] = Without("none")]
    /\ Goto(w, "ack")
    /\ UNCHANGED <<staged, sent, edits, faults, held, failures>>

Leave(w) ==
    /\ Goto(w, "idle")
    /\ held' = [held EXCEPT ![w] = NoRequest(Birth)]
    /\ answer' = [answer EXCEPT ![w] = Without("none")]

Ack(w) ==
    /\ pc[w] = "ack"
    /\ sent' = sent \ {held[w]}
    /\ Leave(w)
    /\ UNCHANGED <<row, edits, faults, failures>>

\* The message is delivered again; a new process remembers no failures.
Crash(w) ==
    /\ pc[w] /= "idle"
    /\ Fault("crash")
    /\ Leave(w)
    /\ failures' = [failures EXCEPT ![w] = {}]
    /\ UNCHANGED <<row, sent, edits>>

\* The eighth delivery fails: the message is terminated, the entity stays.
DeadLetter(w) ==
    /\ pc[w] \in {"lookup", "apply"}
    /\ Fault("dead")
    /\ sent' = sent \ {held[w]}
    /\ Leave(w)
    /\ UNCHANGED <<row, edits, failures>>

\* _recover_expired_work_dispatches.
Redispatch ==
    /\ entity.enrichment = "QUEUED"
    /\ entity.request \notin sent
    /\ sent' = sent \cup {entity.request}
    /\ UNCHANGED <<row, edits, faults, worker>>

-----------------------------------------------------------------------------
Administrator ==
    \/ \E s \in {"CANDIDATE", "APPROVED", "REJECTED", "RETIRED"} :
         Review(s) \/ SetStatus(s)
    \/ \E g \in Geometries : UpdateGeometry(g) \/ ChangeGeometryType(g)
    \/ \E manual \in SUBSET Names, coded \in SUBSET Derived :
         \E given \in Givens(manual) : UpdateLocation(manual, given, coded)
    \/ RequestEnrichment

Import ==
    \/ Disappear
    \/ \E g \in Geometries, located \in SUBSET Fields : Stage(g, located)
    \/ \E s \in staged, status \in {"CANDIDATE", "APPROVED"} :
         Materialize(s, status)

Work(w) ==
    \/ \E r \in sent : Begin(w, r)
    \/ LookUp(w) \/ Apply(w) \/ Ack(w)

Next ==
    \/ Administrator \/ Import
    \/ \E w \in Workers :
         Work(w) \/ LookUpFails(w) \/ Crash(w) \/ DeadLetter(w)
    \/ Redispatch

Spec == Init /\ [][Next]_vars

\* Consumers and the reconciler loop for ever; nothing is asked of people.
FairSpec ==
    Spec /\ (\A w \in Workers : WF_vars(Work(w))) /\ WF_vars(Redispatch)

-----------------------------------------------------------------------------
\* Properties.

(* "provider responses never replace those values": a field managed by     *)
(* hand, and a code or an alias of one, keeps its value whatever a worker  *)
(* writes, although the mark may be newer than the entity the worker has   *)
(* read (apply_location_result).                                           *)
ManualKept ==
    [][(\E w \in Workers : Apply(w)) =>
         \A f \in Fields : Kept(entity, f) =>
             entity'.location[f] = entity.location[f]]_vars

(* "stale results cannot overwrite a later edit": in an entity whose       *)
(* enrichment is complete, no value belongs to an earlier geometry, if no  *)
(* lookup failed and no import was promoted.  (A field filled after a      *)
(* failure joins the values of the old geometry; a second import staged    *)
(* before the first was promoted brings the old location back.)  Only what *)
(* goes with a name that was managed by hand once may be left from then:   *)
(* the code derived from the name, the alias or the county code that a     *)
(* lookup passed over.                                                     *)
LocatedHere ==
    entity.enrichment = "COMPLETED" /\ faults \cap {"fail", "import"} = {}
      => \A f \in Fields \ entity.manual :
             \/ entity.location[f] \in {entity.geometry, "none"}
             \/ /\ Keepers[f] \cap entity.byHand /= {}
                /\ f \in Derived => entity.location[f] = "manual"

(* What is missing has been asked for, in whichever way it came to be      *)
(* missing: by creation, promotion or release (_queue_location_enrichment).*)
(* Only a code that the catalogue lacks for a name managed by hand is not, *)
(* and a lookup would pass over it.                                        *)
MissingIsAskedFor ==
    entity.enrichment = "none" =>
        \A g \in Missing(entity) : \E f \in g : Kept(entity, f)

(* A queued request is answered, although messages are lost, delivered     *)
(* twice or terminated and workers die.                                    *)
RequestsSettle == <>[](entity.enrichment /= "QUEUED")
=============================================================================
