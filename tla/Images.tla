------------------------------- MODULE Images --------------------------------
(***************************************************************************)
(* Images (kernel/image.c): who has the heap blocks of a picture while it  *)
(* is decoded, scaled and freed, and which pixels scaling, drawing and the *)
(* filters of PNG read and write.  The pixels of rows and of columns are   *)
(* computed alike, so the model has columns only.                          *)
(***************************************************************************)
EXTENDS Integers, Sequences, FiniteSets, SequencesExt, KernelHeap

CONSTANTS ImageBlocks, \* blocks of the heap
          MaxColumns,  \* bound: widths of pictures, targets and frames
          ByteValues,  \* 2^w of a byte
          RowLength    \* bytes of a row of a PNG with one byte per pixel

LogoPixels == "toros_logo_64x64" \* static, not of the heap

ASSUME ImagesAssumption == NoBlock \notin ImageBlocks /\ LogoPixels \notin ImageBlocks
ASSUME PixelsAssumption == MaxColumns \in Nat /\ ByteValues \in Nat \ {0} /\ RowLength \in Nat

VARIABLES images,  \* of image_t that are in use: [record, pixels]
          decoder, \* image_load: [at, file, idat, inflated]
          astray,  \* blocks nobody points to (history)
          blit,    \* input of a scaling or drawing call
          png      \* [rows, filters] of the last picture that was decoded, as it was encoded

imageVars == <<heap_free, images, decoder, astray, blit, png>>

NotLoading == [at |-> "idle", file |-> NoBlock, idat |-> NoBlock, inflated |-> NoBlock]
Calls      == {"draw", "draw_scaled", "draw_clipped", "nearest", "bilinear"}
Inputs     == [call : Calls, size : 1 .. MaxColumns, fb : 1 .. MaxColumns, x : -1 .. MaxColumns,
               sx : -1 .. MaxColumns, n : 1 .. MaxColumns + 1]
NoCall     == [call |-> "none", size |-> 1, fb |-> 1, x |-> 0, sx |-> 0, n |-> 1]

ImagesInit == /\ heap_free = ImageBlocks /\ images = {} /\ decoder = NotLoading /\ astray = {}
              /\ blit = NoCall /\ png = [rows |-> <<>>, filters |-> <<>>]

Used(i) == {i.record, i.pixels} \ {NoBlock, LogoPixels}

(***************************************************************************)
(* Loading.  Other processes use images between the steps of a load.       *)
(***************************************************************************)
KeepRest == UNCHANGED <<astray, blit, png>>

\* image_load: the file into a block of the heap.
ReadFile == /\ decoder.at = "idle"
            /\ \E b \in heap_free : /\ heap_free' = heap_free \ {b}
                                    /\ decoder' = [NotLoading EXCEPT !.at = "format", !.file = b]
            /\ UNCHANGED images /\ KeepRest

ImageLoadFromMemory == /\ decoder.at = "idle"
                       /\ decoder' = [NotLoading EXCEPT !.at = "format"]
                       /\ UNCHANGED <<heap_free, images>> /\ KeepRest

\* The end of a load: a caller's image_t gets the pixels, or none; file and
\* buffers go back.
Buffers == {decoder.file, decoder.idat, decoder.inflated} \ {NoBlock}

\* Mutant of OnBadImage: the inflated rows stay allocated when there is no room for pixels.
OnBadImageKept == Buffers \ {decoder.inflated}

\* What goes back to the heap when the load fails
OnBadImage == Buffers

Failed == /\ heap_free' = heap_free \cup OnBadImage /\ decoder' = NotLoading
          /\ UNCHANGED images /\ KeepRest
WithPixels == /\ \E p \in heap_free :
                    /\ heap_free' = (heap_free \ {p}) \cup Buffers
                    /\ images' = images \cup {[record |-> NoBlock, pixels |-> p]}
              /\ decoder' = NotLoading /\ KeepRest

\* By the first bytes: bmp_decode and jpeg_decode at once, a PNG by chunks.
Decode == /\ decoder.at = "format"
          /\ \/ WithPixels
             \/ Failed
             \/ decoder' = [decoder EXCEPT !.at = "chunks"] /\ UNCHANGED <<heap_free, images>> /\ KeepRest

\* An IDAT chunk that the buffer has no room for: a new one, and the old one
\* goes.  Without memory the code copies to NULL: there this load ends.
Idat == /\ decoder.at = "chunks"
        /\ \/ \E b \in heap_free :
                 /\ heap_free' = Kfree({decoder.idat}) \ {b}
                 /\ decoder' = [decoder EXCEPT !.idat = b]
           \/ /\ heap_free' = Kfree({decoder.idat})
              /\ decoder' = [decoder EXCEPT !.at = "fault", !.idat = NoBlock]
        /\ UNCHANGED images /\ KeepRest

\* zlib_inflate; the buffer of the chunks goes back whether it succeeds or not.
Inflate == /\ decoder.at = "chunks"
           /\ IF decoder.idat = NoBlock THEN Failed
              ELSE \/ Failed
                   \/ /\ \E b \in heap_free :
                            /\ heap_free' = (heap_free \ {b}) \cup {decoder.idat}
                            /\ decoder' = [decoder EXCEPT !.at = "rows", !.idat = NoBlock, !.inflated = b]
                      /\ UNCHANGED images /\ KeepRest

Rows == decoder.at = "rows" /\ (WithPixels \/ Failed)

(***************************************************************************)
(* Scaled pictures, icons and the logo have their image_t on the heap.     *)
(***************************************************************************)
\* image_scale_nearest and _bilinear, image_get_app_icon; a call that fails gives
\* back the one block it may have got, image_icon_draw and image_scale_inplace both.
NewImage == /\ \E record \in heap_free : \E pixels \in heap_free \ {record} :
                  /\ heap_free' = heap_free \ {record, pixels}
                  /\ images' = images \cup {[record |-> record, pixels |-> pixels]}
            /\ UNCHANGED decoder /\ KeepRest

\* The logo in its own size has the static pixels.
ImageGetLogo == /\ \E record \in heap_free :
                      /\ heap_free' = heap_free \ {record}
                      /\ images' = images \cup {[record |-> record, pixels |-> LogoPixels]}
                /\ UNCHANGED decoder /\ KeepRest

\* image_free frees the pixels; the record, and a logo's pixels, are the caller's
\* affair, and no function is there for it.  (Nothing in the tree frees a logo.)
ImageFree(i) == /\ i.pixels # LogoPixels
                /\ images' = images \ {i}
                /\ heap_free' = Kfree({i.pixels})
                /\ astray' = astray \cup ({i.record} \ {NoBlock})
                /\ UNCHANGED <<decoder, blit, png>>

\* image_load into an image_t that still has pixels clears it.
Overwritten(i) == /\ decoder.at = "idle" /\ i.record = NoBlock
                  /\ images' = images \ {i} /\ astray' = astray \cup {i.pixels}
                  /\ UNCHANGED <<heap_free, decoder, blit, png>>

(***************************************************************************)
(* Columns                                                                 *)
(***************************************************************************)
\* image_draw_clipped cuts the source to the picture.  What is cut off at its
\* left is not added to x: the rest is drawn further left than it was.
CutFrom(in) == IF in.sx < 0 THEN 0 ELSE in.sx

\* Mutant of CutWidth: the right edge of the picture is not looked at.
CutWidthOpen(in) == IF in.sx < 0 THEN in.n + in.sx ELSE in.n

CutWidth(in) == LET n == IF in.sx < 0 THEN in.n + in.sx ELSE in.n
                IN  IF CutFrom(in) + n > in.size THEN in.size - CutFrom(in) ELSE n

Columns(in) == CASE in.call = "draw" -> in.size [] in.call = "draw_clipped" -> CutWidth(in) [] OTHER -> in.n

\* The columns that are written, and the one of the source each is read from.
\* A frame cuts what is drawn, a scaled picture has all columns.
OnFrame(in) == in.call \in {"draw", "draw_scaled", "draw_clipped"}
Target(in, c)  == IF OnFrame(in) THEN in.x + c ELSE c
WrittenColumns(in) == {c \in 0 .. Columns(in) - 1 : OnFrame(in) => in.x + c \in 0 .. in.fb - 1}

\* Mutant of SourceOf: the scale is that of the frame.
SourceOfFrame(in, c) == CASE in.call = "draw" -> c [] in.call = "draw_clipped" -> CutFrom(in) + c
                          [] OTHER -> (c * in.fb) \div in.n

\* bilinear: the left one of two; 0 / 0, for a target of one column, converts to 0.
SourceOf(in, c) == CASE in.call = "draw" -> c
                     [] in.call = "draw_clipped" -> CutFrom(in) + c
                     [] in.call = "bilinear" -> IF in.n = 1 THEN 0 ELSE (c * (in.size - 1)) \div (in.n - 1)
                     [] OTHER -> (c * in.size) \div in.n

\* The right one of the two that bilinear mixes
NextSource(in, c) == IF SourceOf(in, c) + 1 < in.size THEN SourceOf(in, c) + 1 ELSE SourceOf(in, c)

Blit(in) == blit' = in /\ UNCHANGED <<heap_free, images, decoder, astray, png>>

(***************************************************************************)
(* The filters of PNG, one byte per pixel                                  *)
(***************************************************************************)
Abs(n) == IF n < 0 THEN -n ELSE n

\* Mutant of Paeth: a tie goes to the corner instead of the byte above.
PaethCorner(a, b, c) == LET p == a + b - c IN
                        IF Abs(p - a) <= Abs(p - b) /\ Abs(p - a) <= Abs(p - c) THEN a
                        ELSE IF Abs(p - b) < Abs(p - c) THEN b ELSE c

\* png_paeth
Paeth(a, b, c) == LET p == a + b - c IN
                  IF Abs(p - a) <= Abs(p - b) /\ Abs(p - a) <= Abs(p - c) THEN a
                  ELSE IF Abs(p - b) <= Abs(p - c) THEN b ELSE c

Predicted(filter, left, above, above_left) ==
    CASE filter = 0 -> 0 [] filter = 1 -> left [] filter = 2 -> above
      [] filter = 3 -> (left + above) \div 2 [] filter = 4 -> Paeth(left, above, above_left)

\* A row in place, from the left: above is the row before, already decoded.
Unfiltered(filter, row, above) ==
    LET curr[i \in 0 .. RowLength] ==
            IF i = 0 THEN 0
            ELSE (row[i] + Predicted(filter, curr[i - 1], above[i], IF i = 1 THEN 0 ELSE above[i - 1]))
                     % ByteValues
    IN  [i \in 1 .. RowLength |-> curr[i]]
NoRow == [i \in 1 .. RowLength |-> 0]
PngRows(rows, filters) == LET first == Unfiltered(filters[1], rows[1], NoRow)
                          IN  <<first, Unfiltered(filters[2], rows[2], first)>>

PngDecode(rows, filters) == /\ png' = [rows |-> rows, filters |-> filters]
                            /\ UNCHANGED <<heap_free, images, decoder, astray, blit>>

ImagesNext == \/ ReadFile \/ ImageLoadFromMemory \/ Decode \/ Idat \/ Inflate \/ Rows
              \/ NewImage \/ ImageGetLogo
              \/ \E i \in images : ImageFree(i) \/ Overwritten(i)
\* One call of each kind: the calls share nothing.
ColumnsNext == blit = NoCall /\ \E in \in Inputs : Blit(in)
RowsNext    == png.rows = <<>> /\ \E rows \in [1 .. 2 -> [1 .. RowLength -> 0 .. ByteValues - 1]], f, g \in 0 .. 4 :
                  PngDecode(rows, <<f, g>>)

(***************************************************************************)
(* Properties                                                              *)
(***************************************************************************)
\* Whatever fails on the way, every block is free, of the load that runs, of an
\* image, or one nobody points to: never two of them, and never none.
ImagesOwned ==
    LET owners == {Used(i) : i \in images} \cup {Buffers, heap_free, astray}
    IN  /\ UNION owners = ImageBlocks
        /\ \A a, b \in owners : a # b => a \cap b = {}

\* Every column that is read is one of the picture, every column that is drawn
\* one of the frame; drawing shows the picture where it was asked for and scaling
\* goes from its left to its right without going back.
ColumnsInside ==
    \A c \in WrittenColumns(blit) :
        /\ SourceOf(blit, c) \in 0 .. blit.size - 1
        /\ blit.call = "bilinear" => NextSource(blit, c) \in SourceOf(blit, c) .. blit.size - 1
        /\ blit.call = "draw" => Target(blit, c) = blit.x + SourceOf(blit, c)
        /\ blit.call = "draw_clipped" /\ blit.sx >= 0 =>
               Target(blit, c) - blit.x = SourceOf(blit, c) - blit.sx
        /\ c - 1 \in WrittenColumns(blit) => SourceOf(blit, c - 1) <= SourceOf(blit, c)

\* The reference is the encoder of the PNG specification: what it makes of the
\* rows decodes to them, whichever filter each row has.  Its predictor takes
\* the neighbour that is closest to left + above - above_left, in this order.
Closest(a, b, c) ==
    LET away(x) == Abs(a + b - c - x)
    IN  <<a, b, c>>[Min({k \in 1 .. 3 : \A y \in {a, b, c} : away(<<a, b, c>>[k]) <= away(y)})]
Encoded(filter, row, above) ==
    [i \in 1 .. RowLength |->
        LET left == IF i = 1 THEN 0 ELSE row[i - 1]
            corner == IF i = 1 THEN 0 ELSE above[i - 1]
            predictor == IF filter = 4 THEN Closest(left, above[i], corner)
                         ELSE <<0, left, above[i], (left + above[i]) \div 2>>[filter + 1]
        IN  (row[i] - predictor) % ByteValues]
RowsDecoded ==
    png.rows # <<>> =>
        PngRows(<<Encoded(png.filters[1], png.rows[1], NoRow),
                  Encoded(png.filters[2], png.rows[2], png.rows[1])>>, png.filters) = png.rows
=============================================================================
