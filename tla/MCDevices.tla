------------------------------ MODULE MCDevices ------------------------------
(***************************************************************************)
(* Shared buffers (DmaBuf) and the devices below the services: input, USB, *)
(* GPU buffers, and the heap blocks of GPU resources and audio.  part,     *)
(* chosen at the start, says which takes the steps: only the last two      *)
(* share state.                                                            *)
(*                                                                         *)
(* Two CPUs that contend for the lock and share two buffers, and two       *)
(* pages: handles and pages run out in either order.                       *)
(***************************************************************************)
EXTENDS DmaBuf, InputDevices, UsbHotplug, GpuBuffers, HeapDevices, TLC

CONSTANT Blocks \* blocks of the heap

ASSUME BlocksAssumption == NoBlock \notin Blocks

VARIABLE part

deviceVars == <<inputVars, usbVars, virtioVars, gpuVars, heap_free, gpuResVars, audioVars>>
allVars    == <<vars, deviceVars, part>>

Parts == {"keyboard", "mouse", "usb", "rings", "buffers", "heap", "resample"}

PartsInit ==
        /\ InputInit /\ UsbInit /\ VirtioInputInit /\ GpuBuffersInit
        /\ heap_free = Blocks /\ GpuResourcesInit /\ AudioDevInit
        /\ part # "mouse" => mouse.screen = 5
        /\ part # "buffers" => free_pages = GpuPages
        /\ part # "heap" => cursor.at = 0

Input   == /\ \/ part = "keyboard" /\ (ClientCalls \/ KeyboardCalls)
              \/ part = "mouse" /\ (ClientCalls \/ MouseCalls)
           /\ UNCHANGED <<usbVars, virtioVars, gpuVars, heap_free, gpuResVars, audioVars>>
Usb     == /\ part = "usb" /\ UsbNext
           /\ UNCHANGED <<inputVars, virtioVars, gpuVars, heap_free, gpuResVars, audioVars>>
Rings   == /\ part = "rings" /\ VirtioInputNext
           /\ UNCHANGED <<inputVars, usbVars, gpuVars, heap_free, gpuResVars, audioVars>>
Buffers == /\ part = "buffers" /\ GpuBuffersNext
           /\ UNCHANGED <<inputVars, usbVars, virtioVars, heap_free, gpuResVars, audioVars>>
Heap    == /\ part = "heap"
           /\ \/ GpuResourcesNext /\ UNCHANGED audioVars
              \/ AudioNext /\ UNCHANGED gpuResVars
           /\ UNCHANGED <<inputVars, usbVars, virtioVars, gpuVars>>
Resampler == /\ part = "resample" /\ \E in \in Resamples : AudioResample(in)
             /\ UNCHANGED <<inputVars, usbVars, virtioVars, gpuVars, gpuResVars>>

PartsNext == Input \/ Usb \/ Rings \/ Buffers \/ Heap \/ Resampler

(***************************************************************************)
(* What holds of several of them                                           *)
(***************************************************************************)
\* Events arrive once and in order, from the rings to the readers.
EventsQueued    == BufferIsQueue /\ EventsInOrder /\ DescsOnce
\* The input state is what the devices reported, and the pointer is on the screen.
InputFollowed   == ReportsFollowKeys /\ PointerOnScreen
\* Devices that come and go are noticed and in the list once.
HotplugFollowed == ChangesPending /\ ListedOnce
\* A heap block has one owner, or was lost by audio, and is not free: no failing
\* call keeps a block.
HeapOwned       == heap_free = Blocks \ (ResourceBlocks \cup DmaBlock \cup ClipBlocks \cup lost)

DevicesInit == /\ part \in Parts \cup {"dmabuf"}
               /\ Init /\ PartsInit
               /\ part # "dmabuf" => event = {} /\ InitBitmap({})
DevicesNext == /\ \/ part = "dmabuf" /\ Next /\ UNCHANGED deviceVars
                  \/ PartsNext /\ UNCHANGED vars
               /\ UNCHANGED part
DevicesSpec == DevicesInit /\ [][DevicesNext]_allVars

Symmetric == Permutations(CPUs)

Interest(h) == {"key", "rel", "syn"}
Hid         == <<"usb_keyboard", "usb_mouse">>
Distances   == {-3, 1}

\* The input state is what devices reported, and devices that come and go are
\* noticed and listed once.
DevicesFollowed == InputFollowed /\ HotplugFollowed
\* A page of the GPU buffers and a heap block have one owner.
DeviceMemoryOwned == GpuPagesOwned /\ HeapOwned
=============================================================================
