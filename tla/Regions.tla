------------------------------- MODULE Regions -------------------------------
(***************************************************************************)
(* Clipping regions (kernel/clip.c): a list of rectangles that grows by    *)
(* conservative union and shrinks by exact subtraction, and the drawing    *)
(* that it clips.  Every node comes from kmalloc and any kmalloc may fail. *)
(***************************************************************************)
EXTENDS Integers, Sequences, FiniteSets, SequencesExt, FiniteSetsExt

CONSTANTS Boxes,     \* rectangles the callers pass
          FbW, FbH,  \* size of the frame buffer
          SrcW, SrcH, \* size of the image of a blit
          MaxCalls   \* bound: calls on one region

ASSUME RegionsAssumption == /\ Boxes \subseteq [x : Int, y : Int, w : Nat, h : Nat]
                            /\ SrcW \in Nat \ {0} /\ SrcH \in Nat \ {0} /\ FbW \in Nat /\ FbH \in Nat

VARIABLES region,  \* [rects: list, box: bounding box] of the clip_region_t
          wanted,  \* cells the calls so far ask for (history)
          exact,   \* no union since the region was last set (history)
          failed,  \* a kmalloc failed since the region was last empty (history)
          painted, \* cells the last call wrote |-> the source cell, for a blit
          asked,   \* cells of the screen it should write (history)
          calls

regionVars == <<region, wanted, exact, failed, painted, asked, calls>>

Box(x, y, w, h) == [x |-> x, y |-> y, w |-> w, h |-> h]
Corners(x1, y1, x2, y2) == Box(x1, y1, x2 - x1, y2 - y1)
Cells(r) == (r.x .. r.x + r.w - 1) \X (r.y .. r.y + r.h - 1)
Cover(rects) == UNION {Cells(rects[i]) : i \in DOMAIN rects}
Larger(a, b)  == IF a > b THEN a ELSE b
Smaller(a, b) == IF a < b THEN a ELSE b

Overlap(a, b) == ~(\/ a.x + a.w <= b.x \/ b.x + b.w <= a.x
                   \/ a.y + a.h <= b.y \/ b.y + b.h <= a.y)
Touch(a, b) == \/ /\ a.y = b.y /\ a.h = b.h
                  /\ a.x + a.w = b.x \/ b.x + b.w = a.x
               \/ /\ a.x = b.x /\ a.w = b.w
                  /\ a.y + a.h = b.y \/ b.y + b.h = a.y
Merged(a, b) == Corners(Smaller(a.x, b.x), Smaller(a.y, b.y),
                        Larger(a.x + a.w, b.x + b.w), Larger(a.y + a.h, b.y + b.h))

Empty == [rects |-> <<>>, box |-> Box(0, 0, 0, 0)]
Bounded(rects) ==
    LET of(e(_)) == {e(rects[i]) : i \in DOMAIN rects}
        left(r) == r.x  right(r) == r.x + r.w  top(r) == r.y  bottom(r) == r.y + r.h
    IN  IF rects = <<>> THEN Empty
        ELSE [rects |-> rects,
              box |-> Corners(Min(of(left)), Min(of(top)), Max(of(right)), Max(of(bottom)))]

Meets(rects, nr) == {i \in DOMAIN rects : Overlap(rects[i], nr) \/ Touch(rects[i], nr)}

\* nr swallows the first rectangle it meets.
Swallow(rects, nr) == LET meets == Meets(rects, nr)
                      IN  IF meets = {} THEN <<rects, nr>>
                          ELSE <<RemoveAt(rects, Min(meets)), Merged(nr, rects[Min(meets)])>>

\* After each merge the scan starts again; there are as many merges as
\* rectangles at the most.
Absorbed(rects, nr) ==
    LET after[k \in 0 .. Len(rects)] == IF k = 0 THEN <<rects, nr>> ELSE Swallow(after[k - 1][1], after[k - 1][2])
    IN  after[Len(rects)]

\* It is inserted before the first rectangle that lies lower.
Inserted(rects, nr) ==
    LET lower == {i \in DOMAIN rects : rects[i].y > nr.y}
    IN  InsertAt(rects, IF lower = {} THEN Len(rects) + 1 ELSE Min(lower), nr)

\* Mutant of AddRect: the scan is not repeated after a merge.
AddRectOnce(rects, r) == LET u == Swallow(rects, r)
                         IN  IF Cells(r) = {} THEN rects ELSE Inserted(u[1], u[2])

AddRect(rects, r) == LET u == Absorbed(rects, r)
                     IN  IF Cells(r) = {} THEN rects ELSE Inserted(u[1], u[2])

\* The rectangles at these places, in their order
Only(rects, places) == FlattenSeq([i \in DOMAIN rects |-> IF i \in places THEN <<rects[i]>> ELSE <<>>])

\* rect_subtract: what b leaves of a, in the order of the fragments.
Fragments(a, b) ==
    LET ax2 == a.x + a.w              ay2 == a.y + a.h
        bx1 == Larger(b.x, a.x)       by1 == Larger(b.y, a.y)
        bx2 == Smaller(b.x + b.w, ax2) by2 == Smaller(b.y + b.h, ay2)
        four == <<Corners(a.x, a.y, ax2, by1), Corners(a.x, by2, ax2, ay2),
                  Corners(a.x, by1, bx1, by2), Corners(bx2, by1, ax2, by2)>>
    IN  Only(four, {i \in 1 .. 4 : four[i].w > 0 /\ four[i].h > 0})

\* Mutant of SubtractRect: a rectangle that b misses is freed with the others.
SubtractRectAll(rects, b) ==
    Reverse(FlattenSeq([i \in DOMAIN rects |-> IF Overlap(rects[i], b)
                                               THEN Fragments(rects[i], b) ELSE <<>>]))

\* clip_region_subtract_rect: a rectangle that b misses keeps its node, the
\* others give way to fragments, and the list ends up reversed.
SubtractRect(rects, b) ==
    Reverse(FlattenSeq([i \in DOMAIN rects |-> IF Overlap(rects[i], b)
                                               THEN Fragments(rects[i], b) ELSE <<rects[i]>>]))

(***************************************************************************)
(* The calls                                                               *)
(***************************************************************************)
RegionInit == /\ region = Empty /\ wanted = {} /\ exact = TRUE /\ failed = FALSE
              /\ painted = <<>> /\ asked = {} /\ calls = 0

Call == calls < MaxCalls /\ calls' = calls + 1
NoDraw == painted' = <<>> /\ asked' = {}

ClipRegionAddRect(r) ==
    /\ Call
    /\ \/ region' = Bounded(AddRect(region.rects, r)) /\ UNCHANGED failed
       \/ failed' = TRUE /\ UNCHANGED region
    /\ wanted' = wanted \cup Cells(r)
    /\ exact' = (region.rects = <<>> \/ (exact /\ Cells(r) = {}))
    /\ NoDraw

ClipRegionSubtractRect(r) ==
    /\ Call /\ region.rects # <<>> /\ Cells(r) # {}
    /\ LET left  == SubtractRect(region.rects, r)
           fresh == {i \in DOMAIN left : left[i] \notin ToSet(region.rects)}
       IN  \E lost \in SUBSET fresh : \* the fragments for which there is no memory
              /\ region' = Bounded(Only(left, DOMAIN left \ lost))
              /\ failed' = (failed \/ lost # {})
    /\ wanted' = wanted \ Cells(r)
    /\ NoDraw /\ UNCHANGED exact

ClipRegionClear ==
    /\ Call /\ region' = Empty /\ wanted' = {} /\ exact' = TRUE /\ failed' = FALSE
    /\ NoDraw

ClipRegionSetRect(r) ==
    /\ Call /\ wanted' = Cells(r) /\ exact' = TRUE
    /\ \/ region' = Bounded(AddRect(<<>>, r)) /\ failed' = FALSE
       \/ region' = Empty /\ failed' = TRUE
    /\ NoDraw

\* What is left of a window under the shown windows above it, from the back.
Visible(win, above) ==
    LET left[i \in 0 .. Len(above)] ==
            IF i = 0 THEN AddRect(<<>>, win)
            ELSE IF left[i - 1] = <<>> \/ Cells(above[i]) = {} THEN left[i - 1]
            ELSE SubtractRect(left[i - 1], above[i])
    IN  left[Len(above)]

WmComputeVisibleRegion(win, above) ==
    /\ Call /\ region' = Bounded(Visible(win, above))
    /\ wanted' = Cells(win) \ Cover(above) /\ exact' = TRUE /\ failed' = FALSE
    /\ NoDraw

\* Mutant of Clipped: the request is not cut at the right of the screen.
ClippedWide(r, q) == Corners(Larger(Larger(q.x, r.x), 0), Larger(Larger(q.y, r.y), 0),
                             Smaller(q.x + q.w, r.x + r.w),
                             Smaller(Smaller(q.y + q.h, r.y + r.h), FbH))

\* One rectangle of the region, the request and the screen, as the loops bound it.
Clipped(r, q) == Corners(Larger(Larger(q.x, r.x), 0), Larger(Larger(q.y, r.y), 0),
                         Smaller(Smaller(q.x + q.w, r.x + r.w), FbW),
                         Smaller(Smaller(q.y + q.h, r.y + r.h), FbH))

\* The cells that both drawing calls write; without a region only the screen cuts.
Written(q, clip) == UNION {Cells(Clipped(r, q)) : r \in IF clip THEN ToSet(region.rects) ELSE {q}}

Asked(q, clip) == asked' = Cells(q) \cap Cells(Box(0, 0, FbW, FbH))
                                   \cap (IF clip THEN Cover(region.rects) ELSE Cells(q))

ClipDrawRect(q, clip) ==
    /\ Call /\ Asked(q, clip)
    /\ painted' = [c \in Written(q, clip) |-> <<0, 0>>]
    /\ UNCHANGED <<region, wanted, exact, failed>>

\* A blit whose source rectangle leaves the image does nothing.
ClipBlit(q, sx, clip) ==
    /\ Call /\ Cells(q) # {} /\ sx + q.w <= SrcW /\ q.h <= SrcH
    /\ Asked(q, clip)
    /\ painted' = [c \in Written(q, clip) |-> <<sx + c[1] - q.x, c[2] - q.y>>]
    /\ UNCHANGED <<region, wanted, exact, failed>>

RegionNext ==
    \/ \E r \in Boxes : \/ ClipRegionAddRect(r) \/ ClipRegionSubtractRect(r)
                        \/ ClipRegionSetRect(r)
                        \/ \E clip \in BOOLEAN : ClipDrawRect(r, clip)
                                                \/ \E sx \in 0 .. 1 : ClipBlit(r, sx, clip)
    \/ ClipRegionClear
    \/ calls = 0 /\ \E win, a, b \in Boxes : WmComputeVisibleRegion(win, <<a, b>>)

(***************************************************************************)
(* Properties                                                              *)
(***************************************************************************)
\* The comment at clip.c:115-117 says a union never covers less than was added.
\* While memory lasts nothing asked for is missing, a region that was only cut
\* is exact, the rectangles never overlap however they merged, and the
\* bounding box is that of the list.
RegionCovers ==
    LET n == DOMAIN region.rects IN
    /\ ~failed => wanted \subseteq Cover(region.rects)
    /\ ~failed /\ exact => wanted = Cover(region.rects)
    /\ \A i, j \in n : i # j => ~Overlap(region.rects[i], region.rects[j])
    /\ \A i \in n : region.rects[i].w > 0 /\ region.rects[i].h > 0
    /\ Cover(region.rects) \subseteq Cells(region.box)

\* Clipped drawing writes each cell that is in the request, in the region and
\* on the screen, and no other; a blit takes it from inside its source.
DrawsClipped ==
    /\ DOMAIN painted = asked
    /\ \A c \in asked : painted[c] \in Cells(Box(0, 0, SrcW, SrcH))
=============================================================================
