----------------------------- MODULE HeapDevices -----------------------------
(***************************************************************************)
(* The two drivers that own blocks of the kernel heap.                     *)
(***************************************************************************)
EXTENDS Sequences, KernelHeap, Integers

(***************************************************************************)
(* kernel/virtio_gpu.c: 2D resources, each a record and a backing store    *)
(* from the heap, and the cursor.  The driver never finds a device         *)
(* (virtio_initialized stays 0): no request is sent, the operations that   *)
(* need one return -1 and change nothing, and a flush copies the backing   *)
(* store of the newest resource to the framebuffer.                        *)
(***************************************************************************)
CONSTANTS MaxResources, \* bound on the resources made (the code has none)
          CursorPlaces

VARIABLES resources, \* list, newest first: [id, block, backing]
          next_resource_id,
          presented, \* block last copied to the framebuffer
          cursor     \* [visible, at]

gpuResVars == <<resources, next_resource_id, presented, cursor>>

\* Mutant of HeapAfterCreate: the record is not freed when there is no backing store.
HeapAfterCreateKept(r, b) == heap_free \ {r, b}

HeapAfterCreate(r, b) == IF b = NoBlock THEN heap_free ELSE heap_free \ {r, b}

VirtioGpuResourceCreate2d ==
    /\ next_resource_id <= MaxResources
    /\ \E r \in KmallocBlock(heap_free) :
       \E b \in IF r = NoBlock THEN {NoBlock} ELSE KmallocBlock(heap_free \ {r}) :
          /\ heap_free' = HeapAfterCreate(r, b)
          /\ next_resource_id' = IF r = NoBlock THEN next_resource_id ELSE next_resource_id + 1
          /\ resources' = IF b = NoBlock THEN resources
                          ELSE <<[id |-> next_resource_id, block |-> r, backing |-> b]>> \o resources
    /\ UNCHANGED <<presented, cursor>>

\* Of a resource in the list; attach, detach, transfer and set_scanout return -1.
VirtioGpuResourceUnref(i) ==
    /\ i \in 1 .. Len(resources)
    /\ resources' = SubSeq(resources, 1, i - 1) \o SubSeq(resources, i + 1, Len(resources))
    /\ heap_free' = Kfree({resources[i].block, resources[i].backing})
    /\ UNCHANGED <<next_resource_id, presented, cursor>>

\* gpu_flush_scanout and gpu_flush_rect.
VirtioGpuResourceFlush ==
    /\ resources # <<>>
    /\ presented' = Head(resources).backing
    /\ UNCHANGED <<heap_free, resources, next_resource_id, cursor>>

HwCursorShow(visible) ==
    /\ cursor' = [cursor EXCEPT !.visible = visible]
    /\ UNCHANGED <<heap_free, resources, next_resource_id, presented>>

HwCursorMove(at) ==
    /\ cursor' = [cursor EXCEPT !.at = at]
    /\ UNCHANGED <<heap_free, resources, next_resource_id, presented>>

GpuResourcesInit ==
    /\ resources = <<>> /\ next_resource_id = 1
    /\ presented = NoBlock
    /\ \E at \in CursorPlaces : cursor = [visible |-> TRUE, at |-> at]

GpuResourcesNext ==
    \/ VirtioGpuResourceCreate2d
    \/ \E i \in 1 .. MaxResources : VirtioGpuResourceUnref(i)
    \/ VirtioGpuResourceFlush
    \/ \E visible \in BOOLEAN : HwCursorShow(visible)
    \/ \E at \in CursorPlaces : HwCursorMove(at)
-----------------------------------------------------------------------------
ResourceBlocks == UNION {{resources[i].block, resources[i].backing} : i \in DOMAIN resources}

(***************************************************************************)
(* kernel/audio.c: the device's DMA buffer, clips loaded from torFS, and   *)
(* audio_resample.  A clip points into the file's block; freeing the   *)
(* clip frees its record only, and a second audio_init forgets the DMA     *)
(* buffer of the first: those blocks are kept in "lost".                   *)
(***************************************************************************)
CONSTANTS MaxSamples, Rates, \* inputs of audio_resample
          SigBits            \* significant bits of a float: 24

ASSUME AudioAssumption == {MaxSamples, SigBits} \subseteq Nat \ {0} /\ Rates \subseteq Nat \ {0}

VARIABLES audio_dev, \* [initialized, dma_buffer]
          playing,   \* whether the DMA buffer holds what was written last
          clips,     \* [block, data] of the clips that are loaded
          lost,      \* blocks nobody points to (history)
          resample   \* last input of audio_resample: [samples, dst_rate, src_rate], or 0s

audioVars == <<audio_dev, playing, clips, lost, resample>>

DmaBlock == {audio_dev.dma_buffer} \ {NoBlock}

\* audio_init, with or without a device (and a heap that has a block for it).
AudioInit ==
    /\ playing' = FALSE
    /\ lost' = lost \cup DmaBlock
    /\ \/ /\ audio_dev' = [initialized |-> FALSE, dma_buffer |-> NoBlock]
          /\ UNCHANGED heap_free
       \/ \E b \in heap_free :
             /\ audio_dev' = [initialized |-> TRUE, dma_buffer |-> b]
             /\ heap_free' = heap_free \ {b}
    /\ UNCHANGED <<clips, resample>>

AudioShutdown ==
    /\ heap_free' = Kfree(DmaBlock)
    /\ audio_dev' = [initialized |-> FALSE, dma_buffer |-> NoBlock]
    /\ playing' = FALSE
    /\ UNCHANGED <<clips, lost, resample>>

\* audio_write and audio_play_clip.
AudioWrite ==
    /\ playing' = audio_dev.initialized
    /\ UNCHANGED <<heap_free, audio_dev, clips, lost, resample>>

\* audio_beep: its buffer is back on the heap when it returns.
AudioBeep ==
    /\ audio_dev.initialized /\ heap_free # {}
    /\ playing' = TRUE
    /\ UNCHANGED <<heap_free, audio_dev, clips, lost, resample>>

\* Mutant of OnBadFile: the file's block is not freed when the file cannot be used.
OnBadFileKept(data) == heap_free \ {data}

OnBadFile(data) == heap_free

\* audio_load_wav: the file is read into a block; reading or parsing it, or the clip's
\* record, may fail.
AudioLoadWav ==
    /\ \E data \in heap_free :
          \/ heap_free' = OnBadFile(data) /\ UNCHANGED clips
          \/ \E block \in heap_free \ {data} :
                /\ clips' = clips \cup {[block |-> block, data |-> data]}
                /\ heap_free' = heap_free \ {data, block}
    /\ UNCHANGED <<audio_dev, playing, lost, resample>>

AudioClipFree(clip) ==
    /\ clips' = clips \ {clip}
    /\ heap_free' = Kfree({clip.block})
    /\ lost' = lost \cup {clip.data}
    /\ UNCHANGED <<audio_dev, playing, resample>>

(***************************************************************************)
(* audio_resample of mono or stereo 16-bit samples.  The code computes in  *)
(* float: each conversion and operation rounds to SigBits significant      *)
(* bits, ties to even.  A float is a fraction <<n, d>>, d a power of two.  *)
(* Equal rates, which are copied, and the samples themselves are left out. *)
(***************************************************************************)
RoundedDiv(n, d) ==
    LET q == n \div d
        r == n % d
    IN IF 2 * r > d \/ (2 * r = d /\ q % 2 = 1) THEN q + 1 ELSE q

\* The float nearest to n / d: its unit is the power of two that gives SigBits bits.
Float(n, d) ==
    LET Fits(e) == IF e >= 0 THEN n < d * 2 ^ (SigBits + e) ELSE n * 2 ^ (-e) < d * 2 ^ SigBits
        unit == CHOOSE e \in -2 * SigBits .. 2 * SigBits : Fits(e) /\ (e = -2 * SigBits \/ ~Fits(e - 1))
    IN IF unit >= 0 THEN <<RoundedDiv(n, d * 2 ^ unit) * 2 ^ unit, 1>>
       ELSE <<RoundedDiv(n * 2 ^ (-unit), d), 2 ^ (-unit)>>

Times(a, b) == Float(a[1] * b[1], a[2] * b[2])
Over(a, b)  == Float(a[1] * b[2], a[2] * b[1])
ToInt(a)    == a[1] \div a[2]

\* Mutant of OutSamples: the rates are swapped.
OutSamplesSwapped(in) ==
    ToInt(Over(Times(Float(in.samples, 1), Float(in.src_rate, 1)), Float(in.dst_rate, 1)))

OutSamples(in) == ToInt(Over(Times(Float(in.samples, 1), Float(in.dst_rate, 1)), Float(in.src_rate, 1)))

Pos0(in, i) == ToInt(Times(Float(i, 1), Over(Float(in.src_rate, 1), Float(in.dst_rate, 1))))

\* Mutant of Pos1: the sample behind the last one is read.
Pos1Open(in, i) == Pos0(in, i) + 1

Pos1(in, i) == IF Pos0(in, i) + 1 >= in.samples THEN in.samples - 1 ELSE Pos0(in, i) + 1

AudioResample(in) ==
    /\ resample' = in
    /\ UNCHANGED <<heap_free, audio_dev, playing, clips, lost>>

Resamples == {in \in [samples : 1 .. MaxSamples, dst_rate : Rates, src_rate : Rates] :
                 in.dst_rate # in.src_rate}

AudioDevInit ==
    /\ audio_dev = [initialized |-> FALSE, dma_buffer |-> NoBlock]
    /\ playing = FALSE /\ clips = {} /\ lost = {}
    /\ resample = [samples |-> 0, dst_rate |-> 0, src_rate |-> 0]

AudioNext ==
    \/ AudioInit \/ AudioShutdown \/ AudioWrite \/ AudioBeep \/ AudioLoadWav
    \/ \E clip \in clips : AudioClipFree(clip)
-----------------------------------------------------------------------------
ClipBlocks == UNION {{clip.block, clip.data} : clip \in clips}

\* As long as the rounding errors stay below one step of the source, every output sample
\* lies between two samples of the clip, and the positions never go back.  A longer clip
\* may be read one sample behind its end: the last position rounds up to it.
ResampledInside ==
    LET in == resample
    IN in.samples > 0 /\ 4 * in.samples * in.dst_rate <= in.src_rate * 2 ^ SigBits =>
         \A i \in 0 .. OutSamples(in) - 1 :
            /\ Pos0(in, i) \in 0 .. in.samples - 1
            /\ Pos1(in, i) \in Pos0(in, i) .. in.samples - 1
            /\ i > 0 => Pos0(in, i) >= Pos0(in, i - 1)
=============================================================================
