----------------------------- MODULE GpuBuffers -----------------------------
(***************************************************************************)
(* kernel/gpu_buffer.c: one, two or three pages of the page allocator are  *)
(* the frame buffers; drawing goes to the back one and a swap rotates      *)
(* them.  gpu_buffer_init is called once, by virtio_gpu_init at boot, or   *)
(* after a shutdown.  Each buffer is one page, whatever the size of the    *)
(* frame: drawing runs into the pages behind it, whoever has them.  What   *)
(* a page shows is one value, not an array of pixels; what an overrun does *)
(* to the data of other users of pages is not followed.                    *)
(***************************************************************************)
EXTENDS Integers, FiniteSets

CONSTANTS GpuPages,   \* pages the allocator has, numbered as they lie in memory
          FramePages, \* pages a frame of width * height pixels takes
          GpuFrames   \* what can be drawn; 0 is a cleared buffer

ASSUME GpuAssumption == GpuPages \subseteq Nat \ {0} /\ FramePages \in Nat \ {0} /\ 0 \in GpuFrames

VARIABLES buffer_initialized, mode, front, back, third,
          vsync_enabled, pending_swap,
          free_pages, \* the allocator's free pages
          others,     \* pages of its other users
          content,    \* page -> frame in it
          swapped     \* what the back buffer's page had at the last swap (history)

gpuVars == <<buffer_initialized, mode, front, back, third, vsync_enabled, pending_swap,
             free_pages, others, content, swapped>>

NoPage == 0
Modes  == {"single", "double", "triple"}
Held   == IF buffer_initialized THEN {front, back, third} \ {NoPage} ELSE {}

\* page_alloc of one of the pages, which fails only when there is none.
Allocated(p, pages) == IF pages = {} THEN p = NoPage ELSE p \in pages

\* Mutant of FreeAfterInit: the front buffer is not freed when there is no back one.
FreeAfterInitKept(f, b, t) == free_pages \ {f, b, t}

FreeAfterInit(f, b, t) == IF b = NoPage THEN free_pages ELSE free_pages \ {f, b, t}

GpuBufferInit(m) ==
    /\ ~buffer_initialized
    /\ \E f, b, t \in GpuPages \cup {NoPage} :
          /\ Allocated(f, free_pages)
          /\ IF m = "single" \/ f = NoPage THEN b = f ELSE Allocated(b, free_pages \ {f})
          /\ IF m = "triple" /\ b # NoPage THEN Allocated(t, free_pages \ {f, b}) ELSE t = NoPage
          /\ front' = f /\ back' = b /\ third' = t
          /\ buffer_initialized' = (b # NoPage)
          /\ mode' = IF m = "triple" /\ b # NoPage /\ t = NoPage THEN "double" ELSE m
          /\ free_pages' = FreeAfterInit(f, b, t)
          /\ content' = [p \in GpuPages |-> IF p \in {f, b, t} THEN 0 ELSE content[p]]
    /\ vsync_enabled' = TRUE /\ pending_swap' = FALSE
    /\ swapped' = 0
    /\ UNCHANGED others

GpuBufferShutdown ==
    /\ buffer_initialized
    /\ free_pages' = free_pages \cup Held
    /\ buffer_initialized' = FALSE
    /\ front' = NoPage /\ back' = NoPage /\ third' = NoPage
    /\ mode' = "single" /\ vsync_enabled' = FALSE /\ pending_swap' = FALSE
    /\ UNCHANGED <<others, content, swapped>>

\* The pages that a frame reaches from the page it starts at.
Extent(p) == (p .. p + FramePages - 1) \cap GpuPages

\* gpu_buffer_clear, _blit, _fill_rect, _hline, _vline and _putpixel: any part of a frame.
Draw(frame, drawn) ==
    /\ buffer_initialized /\ drawn \subseteq Extent(back)
    /\ content' = [p \in GpuPages |-> IF p \in drawn THEN frame ELSE content[p]]
    /\ UNCHANGED <<buffer_initialized, mode, front, back, third, vsync_enabled, pending_swap,
                   free_pages, others, swapped>>

\* Mutant of Rotated: the buffers go round the other way.
RotatedBack == [front |-> third, back |-> front, third |-> back]

\* front to third, back to front, third to back.
Rotated == [front |-> back, back |-> third, third |-> front]

Flipped == [front |-> back, back |-> front, third |-> third]

GpuBufferSwap ==
    /\ buffer_initialized /\ mode # "single"
    /\ LET to == IF mode = "triple" /\ third # NoPage THEN Rotated ELSE Flipped
       IN front' = to.front /\ back' = to.back /\ third' = to.third
    /\ swapped' = content[back]
    /\ pending_swap' = TRUE
    /\ UNCHANGED <<buffer_initialized, mode, vsync_enabled, free_pages, others, content>>

\* gpu_buffer_present; the time it waits for the interval is left out.
GpuBufferPresent ==
    /\ buffer_initialized
    /\ pending_swap' = FALSE
    /\ UNCHANGED <<buffer_initialized, mode, front, back, third, vsync_enabled, free_pages, others,
                   content, swapped>>

GpuBufferSetVsync(enable) ==
    /\ buffer_initialized
    /\ vsync_enabled' = enable
    /\ UNCHANGED <<buffer_initialized, mode, front, back, third, pending_swap, free_pages,
                   others, content, swapped>>

\* The other users of the allocator.
OthersAlloc(p) ==
    /\ p \in free_pages
    /\ free_pages' = free_pages \ {p} /\ others' = others \cup {p}
    /\ \E frame \in GpuFrames : content' = [content EXCEPT ![p] = frame]
    /\ UNCHANGED <<buffer_initialized, mode, front, back, third, vsync_enabled, pending_swap, swapped>>

OthersFree(p) ==
    /\ p \in others
    /\ free_pages' = free_pages \cup {p} /\ others' = others \ {p}
    /\ UNCHANGED <<buffer_initialized, mode, front, back, third, vsync_enabled, pending_swap, content,
                   swapped>>

GpuBuffersInit ==
    /\ buffer_initialized = FALSE /\ mode = "single"
    /\ front = NoPage /\ back = NoPage /\ third = NoPage
    /\ vsync_enabled = FALSE /\ pending_swap = FALSE
    /\ free_pages \in SUBSET GpuPages /\ others = GpuPages \ free_pages
    /\ content = [p \in GpuPages |-> 0]
    /\ swapped = 0

GpuBuffersNext ==
    \/ \E m \in Modes : GpuBufferInit(m)
    \/ GpuBufferShutdown
    \/ \E frame \in GpuFrames, drawn \in SUBSET GpuPages : Draw(frame, drawn)
    \/ GpuBufferSwap
    \/ GpuBufferPresent
    \/ \E enable \in BOOLEAN : GpuBufferSetVsync(enable)
    \/ \E p \in GpuPages : OthersAlloc(p) \/ OthersFree(p)
-----------------------------------------------------------------------------
\* The frame buffers and the other users' pages are exactly the pages that are not
\* free, whatever allocation fails and however often the buffers are given up.
GpuPagesOwned ==
    /\ Held \cap others = {} /\ free_pages = GpuPages \ (Held \cup others)
    /\ buffer_initialized =>
          Cardinality(Held) = CASE mode = "single" -> 1 [] mode = "double" -> 2 [] mode = "triple" -> 3

\* With two or three buffers the page of the front buffer shows what was complete at the
\* last swap, and nothing drawn since, unless it is one of the pages that a frame drawn
\* in the back buffer runs into (which the code does not prevent: of two buffers side by
\* side the second is torn whenever a frame is longer than a page and the first is drawn
\* in).
NoTearing ==
    buffer_initialized /\ mode # "single" /\ front \notin Extent(back) => content[front] = swapped
=============================================================================
