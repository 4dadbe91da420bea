----------------------------- MODULE Rasterizer -----------------------------
(***************************************************************************)
(* From a triangle to pixels in the software renderer: clipping against    *)
(* the view volume (clipper.cpp) and the pixels that a triangle covers     *)
(* (rasterizer.cpp).                                                       *)
(*                                                                         *)
(* Positions before clipping are homogeneous, so a vertex may be scaled by *)
(* any positive number: intersections are exact in integers.  Positions on *)
(* the screen are fixed-point numbers of Unit steps per pixel (16 in the   *)
(* code).                                                                  *)
(***************************************************************************)
EXTENDS Integers, Sequences, FiniteSets, FiniteSetsExt

CONSTANTS Unit,      \* steps per pixel, an even number
          Starts,    \* points on the screen where an edge starts
          Points,    \* the other points
          Triangles, \* triangles before clipping
          Modes      \* values of cull_mode

VARIABLE rs
vars == <<rs>>

-----------------------------------------------------------------------------
(* Clipping: Sutherland and Hodgman, one edge after the other. *)
Dot(v, coeffs) == v.x * coeffs.x + v.y * coeffs.y + v.z * coeffs.z + v.w * coeffs.w
Coeffs(x, y, z, w) == [x |-> x, y |-> y, z |-> z, w |-> w]
\* the last edge is w >= -EPSILON, of which integers tell w >= 0
clipping_edges == <<Coeffs(1, 0, 0, -1), Coeffs(-1, 0, 0, -1), Coeffs(0, 1, 0, -1), Coeffs(0, -1, 0, -1),
                    Coeffs(0, 0, 1, 0), Coeffs(0, 0, -1, -1), Coeffs(0, 0, 0, -1)>>
IsInside(edge, v) == Dot(v, edge) <= 0

RECURSIVE Gcd(_, _)
Gcd(a, b) == IF b = 0 THEN a ELSE Gcd(b, a % b)
Abs(n) == IF n < 0 THEN -n ELSE n
Scaled(v, n) == [c \in DOMAIN v |-> v[c] * n]
Reduced(v) == LET n == Gcd(Gcd(Abs(v.x), Abs(v.y)), Gcd(Abs(v.z), Abs(v.w)))
              IN  IF n = 0 THEN v ELSE [c \in DOMAIN v |-> IF v[c] < 0 THEN -(Abs(v[c]) \div n) ELSE v[c] \div n]
\* v0 and v1 are on two sides, so that the weights have one sign
GetIntersection(edge, v0, v1) ==
  LET dp == Abs(Dot(v0, edge))
      dp_prev == Abs(Dot(v1, edge))
  IN  Reduced([c \in DOMAIN v0 |-> v0[c] * dp_prev + v1[c] * dp])

ClipVertexLate(edge, reference, vertex, out) ==
  IF IsInside(edge, vertex) THEN Append(out, vertex)
  ELSE IF IsInside(edge, reference) THEN Append(out, GetIntersection(edge, vertex, reference)) ELSE out
ClipVertex(edge, reference, vertex, out) ==
  IF IsInside(edge, vertex)
  THEN Append(IF IsInside(edge, reference) THEN out ELSE Append(out, GetIntersection(edge, vertex, reference)), vertex)
  ELSE IF IsInside(edge, reference) THEN Append(out, GetIntersection(edge, vertex, reference)) ELSE out
ClipEdge(edge, input) ==
  LET out[i \in 0 .. Len(input)] ==
        IF i = 0 THEN <<>> ELSE ClipVertex(edge, input[IF i = 1 THEN Len(input) ELSE i - 1], input[i], out[i - 1])
  IN  out[Len(input)]

\* a polygon of less than three vertices ends the loop; the rest of it is drawn as a fan
Clipped(triangle) ==
  LET list[i \in 0 .. Len(clipping_edges)] ==
        IF i = 0 THEN triangle ELSE IF Len(list[i - 1]) < 3 THEN <<>> ELSE ClipEdge(clipping_edges[i], list[i - 1])
  IN  IF Len(list[Len(clipping_edges)]) < 3 THEN <<>> ELSE list[Len(clipping_edges)]
Fan(list) == [i \in 1 .. Len(list) - 2 |-> <<list[1], list[i + 1], list[i + 2]>>]

-----------------------------------------------------------------------------
(* The pixels of a triangle on the screen. *)
SignedArea(a, b, c) == (b.x - a.x) * (c.y - a.y) - (b.y - a.y) * (c.x - a.x)
\* the division of the code rounds towards zero
Quotient(a, b) == LET q == Abs(a) \div Abs(b) IN IF (a < 0) = (b < 0) THEN q ELSE -q
IsNoEdge(v, line1, line2) == FALSE
IsRightSideOrFlatBottomEdge(v, line1, line2) ==
  IF line1.y = line2.y THEN v.y < line1.y
  ELSE v.x < line1.x + Quotient((line2.x - line1.x) * (v.y - line1.y), line2.y - line1.y)

Bias(v, line1, line2) == IF IsRightSideOrFlatBottomEdge(v, line1, line2) THEN -1 ELSE 0
\* pixels from the rounded down minimum to the rounded up maximum
Centers(lo, hi) == {n \in (lo \div Unit) * Unit .. hi + Unit : n % Unit = Unit \div 2 /\ n < ((hi + Unit - 1) \div Unit) * Unit}
Covered(a, b, c) ==
  {p \in [x : Centers(Min({a.x, b.x, c.x}), Max({a.x, b.x, c.x})), y : Centers(Min({a.y, b.y, c.y}), Max({a.y, b.y, c.y}))] :
     /\ Bias(a, b, c) + SignedArea(b, c, p) >= 0
     /\ Bias(b, c, a) + SignedArea(c, a, p) >= 0
     /\ Bias(c, a, b) + SignedArea(a, b, p) >= 0}
\* culling, with one recursive call that turns the triangle round
ProcessTriangleInternal(a, b, c, cull) ==
  CASE cull = "KeepAll" -> IF SignedArea(a, b, c) <= 0 THEN Covered(a, c, b) ELSE Covered(a, b, c)
    [] cull = "KeepClockWise" -> IF SignedArea(a, c, b) <= 0 THEN {} ELSE Covered(a, c, b)
    [] cull = "KeepCounterClockWise" -> IF SignedArea(a, b, c) <= 0 THEN {} ELSE Covered(a, b, c)

-----------------------------------------------------------------------------
Init == \/ \E t \in Triangles : rs = [task |-> "clip", input |-> t, fan |-> <<>>, done |-> FALSE]
        \/ \E a \in Starts, b \in Points, c \in Points, d \in Points, cull \in Modes :
             /\ SignedArea(a, b, c) > 0 /\ SignedArea(a, b, d) < 0
             /\ rs = [task |-> "cover", input |-> <<<<a, b, c>>, <<b, a, d>>>>, cull |-> cull, drawn |-> <<>>]
\* Clipper::ProcessTriangle
ProcessTriangle ==
  rs.task = "clip" /\ ~rs.done /\ rs' = [rs EXCEPT !.fan = Fan(Clipped(rs.input)), !.done = TRUE]
\* one triangle of the strip after the other
Rasterize ==
  /\ rs.task = "cover" /\ Len(rs.drawn) < 2
  /\ LET t == rs.input[Len(rs.drawn) + 1]
     IN  rs' = [rs EXCEPT !.drawn = Append(@, ProcessTriangleInternal(t[1], t[2], t[3], rs.cull))]
Next == ProcessTriangle \/ Rasterize
Spec == Init /\ [][Next]_vars

-----------------------------------------------------------------------------
Strictly(t, p) == LET s == {SignedArea(t[1], t[2], p), SignedArea(t[2], t[3], p), SignedArea(t[3], t[1], p)}
                  IN  (\A n \in s : n > 0) \/ (\A n \in s : n < 0)
OnEdge(a, b, p) == SignedArea(a, b, p) = 0 /\ (p.x - a.x) * (p.x - b.x) + (p.y - a.y) * (p.y - b.y) < 0
\* a vertex less than a step from the line through an edge, which the division may find on the other side
Thin(v, line1, line2) == Abs((line2.x - line1.x) * (v.y - line1.y) - (v.x - line1.x) * (line2.y - line1.y)) < Abs(line2.y - line1.y)
Kept(t, cull) == cull = "KeepAll" \/ (SignedArea(t[1], t[2], t[3]) > 0 <=> cull = "KeepCounterClockWise")
(* Two triangles on two sides of an edge leave no gap between them and     *)
(* draw no pixel twice, as the filling rules of ProcessTriangleInternal    *)
(* promise, unless one of them is thinner than a step; what is culled is   *)
(* not drawn at all.                                                       *)
PixelsOnce ==
  rs.task = "cover" /\ Len(rs.drawn) = 2 =>
    LET a == rs.input[1][1]
        b == rs.input[1][2]
        extent == Max({p.x : p \in Points} \cup {p.y : p \in Points})
        pixels == [x : Centers(0, extent), y : Centers(0, extent)]
        kept == {i \in 1 .. 2 : Kept(rs.input[i], rs.cull)}
        thin == \E i \in 1 .. 2 : LET t == rs.input[i] IN Thin(t[1], t[2], t[3]) \/ Thin(t[2], t[3], t[1]) \/ Thin(t[3], t[1], t[2])
    IN  /\ \A i \in 1 .. 2 : i \notin kept => rs.drawn[i] = {}
        /\ thin \/ rs.drawn[1] \cap rs.drawn[2] = {}
        /\ \A i \in kept : \A p \in pixels : Strictly(rs.input[i], p) => p \in rs.drawn[i]
        /\ kept = {1, 2} => \A p \in pixels : OnEdge(a, b, p) => p \in rs.drawn[1] \cup rs.drawn[2]

Orientation(t) ==
  LET d == t[1].x * (t[2].y * t[3].w - t[2].w * t[3].y) - t[1].y * (t[2].x * t[3].w - t[2].w * t[3].x)
           + t[1].w * (t[2].x * t[3].y - t[2].y * t[3].x)
  IN  IF d < 0 THEN -1 ELSE IF d > 0 THEN 1 ELSE 0
Within(v) == \A i \in DOMAIN clipping_edges : IsInside(clipping_edges[i], v)
(* What clipping leaves is inside the view volume and keeps its winding, a *)
(* triangle inside of it stays as it is, and none with a vertex inside of  *)
(* it is lost (Clipper::ProcessTriangle).                                  *)
ClippedRight ==
  rs.task = "clip" /\ rs.done =>
    /\ \A i \in DOMAIN rs.fan : \A n \in 1 .. 3 : Within(rs.fan[i][n])
    /\ \A i \in DOMAIN rs.fan : Orientation(rs.fan[i]) \in {0, Orientation(rs.input)}
    /\ (\A n \in 1 .. 3 : Within(rs.input[n])) => rs.fan = <<rs.input>>
    /\ (\E n \in 1 .. 3 : \A i \in DOMAIN clipping_edges : Dot(rs.input[n], clipping_edges[i]) < 0) => rs.fan # <<>>
=============================================================================
