-------------------------------- MODULE Fonts --------------------------------
(***************************************************************************)
(* Text: how it is broken into lines, and where the pictures of its        *)
(* characters come from.                                                   *)
(***************************************************************************)
EXTENDS Integers, Sequences, SequencesExt, Folds, FiniteSets, FiniteSetsExt

(***************************************************************************)
(* Word wrap (font_layout_text, font_layout_line of kernel/font.c): one    *)
(* pass over the text that remembers the start of the line and the last    *)
(* blank in it.                                                            *)
(***************************************************************************)
CONSTANTS Words,     \* texts: sequences of advances in pixels; a blank is Blank
          Blank,
          MaxWidths, \* max_width, 0 for no wrapping
          MaxLines   \* MAX_TEXT_LINES

ASSUME LayoutAssumption == /\ \A t \in Words : t \in Seq(Nat)
                           /\ MaxWidths \subseteq Nat /\ MaxLines \in Nat

VARIABLES text, max_width,
          scan,  \* [i, start, last_break, pen_x] of the pass, done when i = Len(text) + 1
          lines  \* <<from, to>>, places of text counted from 0, to not included

layoutVars == <<text, max_width, scan, lines>>

\* The advance of a place; a blank is one pixel wide here.
Advance(i)       == IF text[i + 1] = Blank THEN 1 ELSE text[i + 1]
LineWidth(line)  == FoldLeft(LAMBDA w, i : w + Advance(line[1] + i - 1), 0,
                             [i \in 1 .. line[2] - line[1] |-> i])

LayoutInit == /\ text \in Words /\ max_width \in MaxWidths /\ lines = <<>>
              /\ scan = [i |-> 0, start |-> 0, last_break |-> 0, pen_x |-> 0]

Done == scan.i > Len(text)

\* A line for which there is no room is left out.
Laid(from, to) == IF Len(lines) < MaxLines THEN Append(lines, <<from, to>>) ELSE lines

\* Without wrapping there is one line, also for an empty text.
SingleLine == /\ scan.i = 0 /\ max_width = 0
              /\ lines' = << <<0, Len(text)>> >> /\ scan' = [scan EXCEPT !.i = Len(text) + 1]

Break == IF text[scan.i + 1] = Blank THEN scan.i ELSE scan.last_break
Full  == scan.pen_x + Advance(scan.i) > max_width /\ Break > scan.start

\* Mutant of NextStart: the blank at the break opens the next line.
NextStart0 == Break

\* The blank at the break belongs to neither line.
NextStart == Break + 1

\* One turn of the loop.  After a wrap the pen is at 0, although the places from
\* the new start to i have been passed: so a line may come out too wide.
LayoutStep ==
    /\ max_width > 0 /\ scan.i < Len(text)
    /\ IF Full
       THEN /\ lines' = Laid(scan.start, Break)
            /\ scan' = [i |-> scan.i + 1, start |-> NextStart, last_break |-> NextStart, pen_x |-> 0]
       ELSE /\ scan' = [scan EXCEPT !.i = @ + 1, !.last_break = Break, !.pen_x = @ + Advance(scan.i)]
            /\ UNCHANGED lines

LayoutEnd == /\ max_width > 0 /\ scan.i = Len(text)
             /\ lines' = IF scan.start < Len(text) THEN Laid(scan.start, Len(text)) ELSE lines
             /\ scan' = [scan EXCEPT !.i = @ + 1]

LayoutNext == (SingleLine \/ LayoutStep \/ LayoutEnd) /\ UNCHANGED <<text, max_width>>

(***************************************************************************)
(* Properties                                                              *)
(***************************************************************************)
\* As long as lines are left, wrapping neither loses nor repeats a character:
\* the lines follow each other with one blank between two of them, none is
\* empty, and the last ends where the text ends or at its last blank.
TextLaidOut ==
    Len(lines) < MaxLines =>
        /\ \A k \in 1 .. Len(lines) - 1 : /\ lines[k][2] + 1 = lines[k + 1][1]
                                          /\ text[lines[k][2] + 1] = Blank
        /\ lines # <<>> => lines[1][1] = 0
        /\ max_width > 0 => \A k \in DOMAIN lines : lines[k][1] < lines[k][2]
        /\ Done => LET end == IF lines = <<>> THEN 0 ELSE Last(lines)[2]
                   IN  end = Len(text) \/ (end = Len(text) - 1 /\ text[Len(text)] = Blank)

(***************************************************************************)
(* Fonts loaded from files and the cache of their glyphs (kernel/font.c).  *)
(* The cache is shared by all fonts and sizes, and a picture belongs to    *)
(* the cache from the moment it is put there.                              *)
(***************************************************************************)
CONSTANTS GlyphIds,
          FontSizes,
          CacheSize,   \* FONT_CACHE_SIZE
          Bitmaps,     \* blocks that kmalloc has
          MaxClock   \* bound: the clock

NoBitmap    == "null"
NoGlyph == 65535

ASSUME CacheAssumption == NoBitmap \notin Bitmaps /\ CacheSize \in Nat \ {0}

VARIABLES glyph_cache, \* index |-> [glyph_id, bitmap, last_used]
          cache_initialized,
          bitmaps,     \* block |-> <<glyph, size>> of the picture in it, while it is allocated
          drawn,       \* what the last call drew: [asked, picture]
          leaked,      \* copies made before the cache was initialised (history)
          clock

cacheVars == <<glyph_cache, cache_initialized, bitmaps, drawn, leaked, clock>>

Nothing == [asked |-> NoGlyph, picture |-> <<NoGlyph, 0>>]
Entries == 0 .. CacheSize - 1

GlyphCacheInit ==
    /\ glyph_cache = [i \in Entries |-> [glyph_id |-> 0, bitmap |-> NoBitmap, last_used |-> 0]]
    /\ cache_initialized = FALSE /\ bitmaps = [b \in {} |-> <<>>] /\ drawn = Nothing
    /\ leaked = {} /\ clock = 0

FontCacheInit ==
    /\ ~cache_initialized /\ cache_initialized' = TRUE
    /\ glyph_cache' = [i \in Entries |-> [glyph_id |-> NoGlyph, bitmap |-> NoBitmap, last_used |-> 0]]
    /\ UNCHANGED <<bitmaps, drawn, leaked, clock>>

\* font_cache_get, and the loop of font_draw_glyph that looks again for the
\* size: the first entry of that glyph, of whatever font and size.
Cached(gid) == {i \in Entries : /\ cache_initialized /\ glyph_cache[i].glyph_id = gid
                                /\ glyph_cache[i].bitmap # NoBitmap}

\* Mutant of Freed: the picture that is replaced is not given back.
FreedNone(i) == {}

Oldest == LET least == Min({glyph_cache[i].last_used : i \in Entries})
          IN  Min({i \in Entries : glyph_cache[i].last_used = least})
\* What font_cache_put gives back
Freed(i) == {glyph_cache[i].bitmap} \ {NoBitmap}

\* Mutant of Newest: the entry keeps the identifier of the glyph it had.
NewestId(i, gid, b) == [glyph_cache[i] EXCEPT !.bitmap = b, !.last_used = clock]

Newest(i, gid, b) == [glyph_id |-> gid, bitmap |-> b, last_used |-> clock]

Holding(change, freed) == [c \in (DOMAIN bitmaps \cup DOMAIN change) \ freed |->
                             IF c \in DOMAIN change THEN change[c] ELSE bitmaps[c]]

\* font_draw_glyph: the picture drawn is not the one in the cache; without
\* memory for it nothing is drawn, without memory for a copy none is cached.
FontDrawGlyph(gid, size) ==
    /\ UNCHANGED <<cache_initialized, clock>>
    /\ IF Cached(gid) # {}
       THEN LET i == Min(Cached(gid)) IN
            /\ drawn' = [asked |-> gid, picture |-> bitmaps[glyph_cache[i].bitmap]]
            /\ glyph_cache' = [glyph_cache EXCEPT ![i].last_used = clock]
            /\ UNCHANGED <<bitmaps, leaked>>
       ELSE \/ drawn' = Nothing /\ UNCHANGED <<glyph_cache, bitmaps, leaked>>
            \/ /\ drawn' = [asked |-> gid, picture |-> <<gid, size>>]
               /\ UNCHANGED <<glyph_cache, bitmaps, leaked>>
            \/ /\ drawn' = [asked |-> gid, picture |-> <<gid, size>>]
               /\ \E b \in Bitmaps \ DOMAIN bitmaps :
                     IF cache_initialized
                     THEN /\ glyph_cache' = [glyph_cache EXCEPT ![Oldest] = Newest(Oldest, gid, b)]
                          /\ bitmaps' = Holding([c \in {b} |-> <<gid, size>>], Freed(Oldest))
                          /\ UNCHANGED leaked
                     ELSE /\ bitmaps' = Holding([c \in {b} |-> <<gid, size>>], {})
                          /\ leaked' = leaked \cup {b} /\ UNCHANGED glyph_cache

GlyphTick == clock < MaxClock /\ clock' = clock + 1
             /\ UNCHANGED <<glyph_cache, cache_initialized, bitmaps, drawn, leaked>>

GlyphCacheNext == \/ FontCacheInit \/ GlyphTick
                  \/ \E gid \in GlyphIds, size \in FontSizes : FontDrawGlyph(gid, size)

(***************************************************************************)
(* Properties                                                              *)
(***************************************************************************)
\* However entries are replaced and allocations fail, the cache has at most one
\* entry for a glyph and each of its pictures once, holds every copy that was
\* not lost before it was initialised, and draws the glyph that was asked for.
\* (It may draw it in the size of an earlier call, of another font: nobody asks.)
CacheHoldsCopies ==
    LET used == {i \in Entries : glyph_cache[i].bitmap # NoBitmap} IN
    /\ {glyph_cache[i].bitmap : i \in used} \cup leaked = DOMAIN bitmaps
    /\ \A i, j \in used : i # j => /\ glyph_cache[i].glyph_id # glyph_cache[j].glyph_id
                                   /\ glyph_cache[i].bitmap # glyph_cache[j].bitmap
    /\ drawn.picture[1] = drawn.asked
=============================================================================
