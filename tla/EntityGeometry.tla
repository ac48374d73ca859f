---------------------------- MODULE EntityGeometry ----------------------------
(***************************************************************************)
(* The geometry of an entity, its conversion to another type               *)
(* (src/geodata.py, validated in src/geodata_pipeline.py), and the         *)
(* Maidenhead cells derived from it (src/maidenhead.py).                   *)
(*   The world is Side by Side units instead of 360 by 180 degrees, cut    *)
(* into squares of Square units and those into locators of Locator units.  *)
(* Coordinates are whole units; products take the place of quotients.      *)
(***************************************************************************)
EXTENDS Integers, FiniteSets, FiniteSetsExt, SequencesExt

CONSTANTS Side, Square, Locator,
          Pad    \* by how much a point or a box is widened

ASSUME PrecisionAssumption ==
    /\ {Side, Square, Locator} \subseteq Nat \ {0} /\ Pad \in Nat \ {0}
    /\ Side % Square = 0 /\ Square % Locator = 0

Types == {"POINT", "LINESTRING", "MULTILINESTRING", "POLYGON", "MULTIPOLYGON"}
Areas == {"POLYGON", "MULTIPOLYGON"}
Lines == {"LINESTRING", "MULTILINESTRING"}

\* Coordinates are nested as in a MultiPolygon, whatever the type: a line is
\* the only "ring" of the only "polygon", a point the only point of that.
Geometry(type, coordinates) == [type |-> type, coordinates |-> coordinates]

\* A polygon of a MultiPolygon may be without rings.
Geometries ==
    {g \in [type : Types, coordinates : Seq(Seq(Seq(Int \X Int)))] :
       LET coordinates == g.coordinates
       IN  /\ g.type /= "MULTIPOLYGON" => Len(coordinates) = 1
           /\ g.type \in {"POINT", "LINESTRING"} => Len(coordinates[1]) = 1
           /\ g.type = "POINT" => Len(coordinates[1][1]) = 1}

VARIABLES
    geometry,
    squares,     \* maidenheadGridSquares4, as indices
    locators     \* maidenheadLocators6

entity == <<geometry, squares, locators>>

-----------------------------------------------------------------------------
\* Points, lines, boxes.

Points(g) ==
    UNION {UNION {ToSet(g.coordinates[i][j]) : j \in DOMAIN g.coordinates[i]}
             : i \in DOMAIN g.coordinates}

\* The pairs of neighbours in a sequence of points.
Edges(line) == {<<line[i], line[i + 1]>> : i \in 1 .. Len(line) - 1}

Box(points) ==
    LET xs == {p[1] : p \in points}  ys == {p[2] : p \in points}
    IN  [left |-> Min(xs), bottom |-> Min(ys), right |-> Max(xs), top |-> Max(ys)]

Cell(x, y, size) ==
    [left |-> x * size, bottom |-> y * size,
     right |-> (x + 1) * size, top |-> (y + 1) * size]

Corners(box) == {box.left, box.right} \X {box.bottom, box.top}

Within(p, box) ==
    box.left <= p[1] /\ p[1] <= box.right /\ box.bottom <= p[2] /\ p[2] <= box.top

\* validate_geometry, apart from the limits of the world.
WellFormed(g) ==
    /\ Points(g) /= {}
    /\ \A ring \in UNION {ToSet(polygon) : polygon \in ToSet(g.coordinates)} :
         /\ g.type \in Lines => Len(ring) >= 2
         /\ g.type \in Areas => Len(ring) >= 4 /\ ring[1] = ring[Len(ring)]

Valid(g) ==
    WellFormed(g) /\ \A p \in Points(g) : {p[1], p[2]} \subseteq 0 .. Side

-----------------------------------------------------------------------------
\* maidenhead.py

Clamped(index, count) == Min({count - 1, Max({0, index})})

\* The cell a point is in: its lower and left edges belong to it, and the
\* last one is closed.
PointCell(p, size) == <<Clamped(p[1] \div size, Side \div size),
                        Clamped(p[2] \div size, Side \div size)>>

\* _candidate_indices, with the cell that ends where the geometry begins.
CandidateIndices(low, high, size) ==
    LET first == IF low % size = 0 THEN low \div size - 1 ELSE low \div size
    IN  Clamped(first, Side \div size) .. Clamped(high \div size, Side \div size)

(* _segment_intersects_rect (Liang and Barsky): as the segment is traversed *)
(* from 0 to 1, each border is crossed inwards or outwards at a ratio, and *)
(* it is never inside one after it is outside another.                     *)
SegmentMeets(start, end, box) ==
    LET dx == end[1] - start[1]
        dy == end[2] - start[2]
        borders == {<<-dx, start[1] - box.left>>, <<dx, box.right - start[1]>>,
                    <<-dy, start[2] - box.bottom>>, <<dy, box.top - start[2]>>}
        lower == {<<-b[2], -b[1]>> : b \in {c \in borders : c[1] < 0}}
                   \cup {<<0, 1>>}
        upper == {<<b[2], b[1]>> : b \in {c \in borders : c[1] > 0}}
                   \cup {<<1, 1>>}
    IN  /\ \A b \in borders : b[1] = 0 => b[2] >= 0
        /\ \A l \in lower, u \in upper : l[1] * u[2] <= u[1] * l[2]

OnLine(p, line) ==
    \E e \in Edges(line) :
      SegmentMeets(e[1], e[2], [left |-> p[1], bottom |-> p[2],
                                right |-> p[1], top |-> p[2]])

\* Does an edge cross the ray from p to the right (_point_in_ring)?
Crosses(e, p) ==
    LET rise == e[2][2] - e[1][2]
    IN  /\ (e[1][2] > p[2]) /= (e[2][2] > p[2])
        /\ IF rise > 0
             THEN (p[1] - e[1][1]) * rise < (p[2] - e[1][2]) * (e[2][1] - e[1][1])
             ELSE (p[1] - e[1][1]) * rise > (p[2] - e[1][2]) * (e[2][1] - e[1][1])

\* An edge that is traversed twice counts twice.
InRing(p, ring) ==
    LET crossings == {i \in 1 .. Len(ring) - 1 : Crosses(<<ring[i], ring[i + 1]>>, p)}
    IN  OnLine(p, ring) \/ Cardinality(crossings) % 2 = 1

\* Mutant: holes are filled.
InPolygonFilled(p, rings) == InRing(p, rings[1])

\* The boundary of a hole belongs to the polygon; its interior does not.  The
\* first hole a point is in decides.
InPolygon(p, rings) ==
    /\ InRing(p, rings[1])
    /\ \A i \in 2 .. Len(rings) :
         InRing(p, rings[i]) => \E j \in 2 .. i : OnLine(p, rings[j])

LineMeets(line, box) == \E e \in Edges(line) : SegmentMeets(e[1], e[2], box)

PolygonMeets(rings, box) ==
    \/ \E i \in DOMAIN rings :
         (\E p \in ToSet(rings[i]) : Within(p, box)) \/ LineMeets(rings[i], box)
    \/ \E corner \in Corners(box) : InPolygon(corner, rings)

CandidateCells(points, size) ==
    LET box == Box(points)
    IN  CandidateIndices(box.left, box.right, size)
          \X CandidateIndices(box.bottom, box.top, size)

\* _cells_for_component, for a polygon and for a segment.
PolygonCells(rings, size) ==
    {c \in CandidateCells(UNION {ToSet(r) : r \in ToSet(rings)}, size) :
       PolygonMeets(rings, Cell(c[1], c[2], size))}

LineCells(line, size) ==
    UNION {{c \in CandidateCells({e[1], e[2]}, size) :
              LineMeets(e, Cell(c[1], c[2], size))} : e \in Edges(line)}

Covered(g, size) ==
    CASE g.type = "POINT" -> {PointCell(p, size) : p \in Points(g)}
      [] g.type \in Lines ->
           UNION {LineCells(line, size) : line \in ToSet(g.coordinates[1])}
      [] g.type \in Areas ->
           UNION {PolygonCells(rings, size) :
                    rings \in ToSet(g.coordinates) \ {<<>>}}

-----------------------------------------------------------------------------
\* change_geometry_type

\* geometry_centroid: the middle of the box, rounded.
Centroid(g) ==
    LET box == Box(Points(g))
    IN  <<(box.left + box.right) \div 2, (box.bottom + box.top) \div 2>>

Frame(box) ==
    <<<<box.left, box.bottom>>, <<box.right, box.bottom>>, <<box.right, box.top>>,
      <<box.left, box.top>>, <<box.left, box.bottom>>>>

Widened(box) ==
    [left |-> box.left - Pad, bottom |-> box.bottom - Pad,
     right |-> box.right + Pad, top |-> box.top + Pad]

\* The outer ring of the first area, without the repetition of its first point.
Outline(g) ==
    IF g.coordinates[1] = <<>> THEN <<>> ELSE Front(g.coordinates[1][1])

\* The lines a geometry becomes: of areas, the outline of the first one.
AsLines(g) ==
    CASE g.type = "POINT" ->
           LET p == g.coordinates[1][1][1]
           IN  <<<<<<p[1] - Pad, p[2]>>, <<p[1] + Pad, p[2]>>>>>>
      [] g.type \in Lines -> g.coordinates[1]
      [] g.type \in Areas -> <<Outline(g)>>

\* Mutant: the box of the first line only.
AsAreasOfFirst(g) ==
    IF g.type \in Areas THEN g.coordinates
    ELSE <<<<Frame(Widened(Box(ToSet(g.coordinates[1][1]))))>>>>

\* The areas it becomes: of a point or lines, the frame around them.
AsAreas(g) ==
    IF g.type \in Areas THEN g.coordinates
    ELSE <<<<Frame(Widened(Box(Points(g))))>>>>

\* A type for one thing takes the first.
Converted(g, target) ==
    Geometry(target,
      CASE target = "POINT"           -> <<<<<<Centroid(g)>>>>>>
        [] target = "LINESTRING"      -> <<<<AsLines(g)[1]>>>>
        [] target = "MULTILINESTRING" -> <<AsLines(g)>>
        [] target = "POLYGON"         -> <<AsAreas(g)[1]>>
        [] target = "MULTIPOLYGON"    -> AsAreas(g))

\* apply_maidenhead_fields follows every change of the geometry.
Saved(g) ==
    /\ geometry' = g
    /\ squares' = Covered(g, Square)
    /\ locators' = Covered(g, Locator)

\* An import or update_geometry gives the entity any valid geometry.
GeometryInit(geometries) ==
    /\ geometry \in geometries /\ Valid(geometry)
    /\ squares = Covered(geometry, Square)
    /\ locators = Covered(geometry, Locator)

\* A conversion that leaves the world is refused.
ChangeGeometryType(target) ==
    /\ target /= geometry.type
    /\ Valid(Converted(geometry, target))
    /\ Saved(Converted(geometry, target))

GeometryNext == \E target \in Types : ChangeGeometryType(target)

GeometrySpec == GeometryInit(Geometries) /\ [][GeometryNext]_entity

-----------------------------------------------------------------------------
\* Reference definitions.

\* Twice the area of a triangle, positive to the left of the line from a to b.
Turn(a, b, p) == (b[1] - a[1]) * (p[2] - a[2]) - (b[2] - a[2]) * (p[1] - a[1])

Overlap(a, b) ==
    /\ a.left <= b.right /\ b.left <= a.right
    /\ a.bottom <= b.top /\ b.bottom <= a.top

\* Two convex sets touch unless an edge, or an axis, separates them.
ConvexTouches(line, box) ==
    /\ Overlap(Box(ToSet(line)), box)
    /\ ~ \E e \in Edges(line) :
          LET side == {Turn(e[1], e[2], p) : p \in ToSet(line)}
              other == {Turn(e[1], e[2], p) : p \in Corners(box)}
          IN  \/ Max(side) <= 0 /\ Min(other) > 0
              \/ Min(side) >= 0 /\ Max(other) < 0

\* A box misses an area with convex rings if it lies inside a hole.
InsideHole(box, ring) ==
    \A e \in Edges(ring) : \A p \in Corners(box), q \in ToSet(ring) :
      LET t == Turn(e[1], e[2], p)  u == Turn(e[1], e[2], q)
      IN  t /= 0 /\ (u > 0 => t > 0) /\ (u < 0 => t < 0)

AreaTouches(rings, box) ==
    /\ ConvexTouches(rings[1], box)
    /\ \A i \in 2 .. Len(rings) : ~InsideHole(box, rings[i])

\* A cell holds its lower and left borders, and the last one all of them.
Holds(box, p) ==
    /\ Within(p, box)
    /\ p[1] = box.right => p[1] = Side
    /\ p[2] = box.top => p[2] = Side

Touches(g, box) ==
    CASE g.type = "POINT" -> \E p \in Points(g) : Holds(box, p)
      [] g.type \in Lines ->
           \E line \in ToSet(g.coordinates[1]) :
             \E e \in Edges(line) : ConvexTouches(e, box)
      [] g.type \in Areas ->
           \E rings \in ToSet(g.coordinates) \ {<<>>} : AreaTouches(rings, box)

Touched(g, size) ==
    {c \in (0 .. Side \div size - 1) \X (0 .. Side \div size - 1) :
       Touches(g, Cell(c[1], c[2], size))}

-----------------------------------------------------------------------------
\* Properties.

AreTouched ==
    squares = Touched(geometry, Square) /\ locators = Touched(geometry, Locator)

PointIsHeld  == geometry.type = "POINT"  => AreTouched
LinesTouched == geometry.type \in Lines => AreTouched
AreasTouched == geometry.type \in Areas => AreTouched

(* The square and the locator of a point hold it (locator_for_point); those *)
(* of a line or an area are the ones it touches, an edge or a corner being  *)
(* enough (_covered_cells), whatever it was converted from.  The reference  *)
(* for areas is for convex rings.                                           *)
SquaresAreTouched == PointIsHeld /\ LinesTouched /\ AreasTouched

(* The area a point or lines are converted to is in every square they were *)
(* in, and the outline of an area stays within the area's squares          *)
(* (change_geometry_type).                                                 *)
ConversionsStay ==
    [][/\ geometry'.type \in Areas /\ geometry.type \notin Areas =>
            squares \subseteq squares'
       /\ geometry'.type \in Lines /\ geometry.type \in Areas =>
            squares' \subseteq squares]_entity
=============================================================================
