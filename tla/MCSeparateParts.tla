--------------------------- MODULE MCSeparateParts ---------------------------
(***************************************************************************)
(* Instances of the small parts that share no state with each other or     *)
(* with the larger modules: EntityGeometry, ImportBatches, Retention and   *)
(* UploadCreation.  A behaviour is one of a single part, the subject; the  *)
(* others stay in one of their initial states.                             *)
(***************************************************************************)
EXTENDS EntityGeometry, ImportBatches, Retention, UploadCreation

CONSTANTS i1, i2, i3, c1, c2, c3

MCRuns     == {i1, i2, i3}
MCCreators == {c1, c2, c3}

VARIABLE subject

-----------------------------------------------------------------------------
Grid     == (0 .. Side) \X (0 .. Side)
Diagonal == {<<i, i>> : i \in 0 .. Side}

Area(rings) == Geometry("POLYGON", <<rings>>)
Ring(a, b, c) == <<a, b, c, a>>

Somewhere == Geometry("POINT", <<<<<<<<1, 1>>>>>>>>)

\* Triangles whose first point is the origin or the middle of the world ...
Triangles ==
    {Area(<<Ring(a, b, c)>>) :
       a \in {<<0, 0>>, <<Side \div 2, Side \div 2 - 1>>},
       b \in Diagonal, c \in Grid}

\* ... frames of any size, and the world with one of them as a hole.
Boxes ==
    {b \in [left : 0 .. Side, bottom : 0 .. Side,
            right : 0 .. Side, top : 0 .. Side] :
       b.left < b.right /\ b.bottom < b.top}

World == Frame([left |-> 0, bottom |-> 0, right |-> Side, top |-> Side])

Frames == {Area(<<Frame(b)>>) : b \in Boxes}
Holes  == {Area(<<World, Frame(b)>>) : b \in Boxes}

Inputs ==
    {Geometry("POINT", <<<<<<p>>>>>>) : p \in Grid}
    \cup {Geometry("LINESTRING", <<<<<<p, q>>>>>>) : p \in Grid, q \in Grid}
    \cup {Geometry("MULTILINESTRING", <<<<<<p, <<1, 1>>>>, <<q, <<2, 3>>>>>>>>)
            : p \in Grid, q \in Diagonal}
    \cup {Geometry("MULTIPOLYGON", <<<<Ring(<<1, 1>>, <<1, 2>>, <<2, 1>>)>>,
                                    <<Ring(<<3, 3>>, p, q)>>>>)
            : p \in Grid, q \in Diagonal}
    \cup {Geometry("MULTIPOLYGON", <<<<>>, <<Ring(<<1, 1>>, <<1, 2>>, p)>>>>)
            : p \in Diagonal}
    \cup Triangles \cup Frames \cup Holes

ASSUME InputsAssumption == Inputs \subseteq Geometries

\* The runs are alike but for their sources.
InOrder == runs = <<i1, i2, i3>>

-----------------------------------------------------------------------------
Init ==
    /\ subject \in {"geometry", "batches", "retention", "creation"}
    /\ GeometryInit(IF subject = "geometry" THEN Inputs ELSE {Somewhere})
    /\ BatchInit /\ CreationInit
    /\ RetentionInit /\ InOrder
    /\ subject = "retention" \/ misplaced = {}

Next ==
    \/ /\ subject = "geometry" /\ GeometryNext
       /\ UNCHANGED <<batches, retention, creation, subject>>
    \/ /\ subject = "batches" /\ BatchNext
       /\ UNCHANGED <<entity, retention, creation, subject>>
    \/ /\ subject = "retention" /\ RetentionNext
       /\ UNCHANGED <<entity, batches, creation, subject>>
    \/ /\ subject = "creation" /\ CreationNext
       /\ UNCHANGED <<entity, batches, retention, subject>>

vars == <<entity, batches, retention, creation, subject>>

\* The sweep is run every day and goes on until it ends.
Spec ==
    /\ Init /\ [][Next]_vars
    /\ WF_vars(/\ subject = "retention" /\ Sweep
               /\ UNCHANGED <<entity, batches, creation, subject>>)
=============================================================================
