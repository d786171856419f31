----------------------------- MODULE UsbHotplug -----------------------------
(***************************************************************************)
(* Hot-plug of kernel/usb_xhci.c and the device list of                    *)
(* kernel/input_event.c.  The driver knows no devices: whatever is plugged *)
(* in, it registers one keyboard and one mouse, and takes both out when    *)
(* something is unplugged.  The list is linked through the devices, so a   *)
(* device that is put into it twice closes a circle.                       *)
(***************************************************************************)
EXTENDS Naturals, FiniteSets

CONSTANTS MaxPorts,  \* xhci.max_ports
          HidDevs,   \* devices registered on every connection, in their order
          BootDevs   \* devices of other drivers in the list at boot

ASSUME UsbAssumption ==
    /\ MaxPorts \in Nat \ {0}
    /\ DOMAIN HidDevs = {1, 2} /\ HidDevs[1] # HidDevs[2]
    /\ IsFiniteSet(BootDevs)
    /\ "NULL" \notin BootDevs \cup {HidDevs[1], HidDevs[2]}

VARIABLES dev_head, dev_next, \* the list; next of every device
          connected,          \* ports with a device (CCS)
          changed,            \* ports whose change is not cleared (CSC)
          reset_done,         \* ports whose reset change is not cleared (PRC)
          port_change,        \* the controller's port change bit (PCD)
          port,               \* the port the driver looks at, 0 outside the loop
          step,               \* what the driver does next with it
          portsc, again,      \* its register as xhci_handle_port_change and xhci_port_reset read it
          newer,              \* whether that port changed since the driver read it (history)
          heard,              \* ports the driver took for connected at their last change (history)
          missed,             \* ports whose latest change was cleared unseen (history)
          listed,             \* devices that were registered and not taken out (history)
          twice               \* whether one was registered while listed (history)

listVars == <<dev_head, dev_next, listed, twice>>
portVars == <<connected, changed, reset_done, port_change, newer, heard, missed>>
loopVars == <<port, step, portsc, again>>
usbVars  == <<listVars, portVars, loopVars>>

Nil     == "NULL"
Devices == {HidDevs[i] : i \in DOMAIN HidDevs} \cup BootDevs
Ports   == 1 .. MaxPorts

(***************************************************************************)
(* The list                                                                *)
(***************************************************************************)
\* The n-th device met from the head, Nil behind the end.
Met(l, n) == LET at[i \in 1 .. n] ==
                    IF i = 1 THEN l.head ELSE IF at[i - 1] = Nil THEN Nil ELSE l.next[at[i - 1]]
             IN at[n]

Steps == 1 .. Cardinality(Devices) + 1

Pushed(l, d) == [head |-> d, next |-> [l.next EXCEPT ![d] = l.head]]

\* The walk for d ends: it meets d or the end of the list.
Found(l, d) == \E i \in Steps : Met(l, i) \in {d, Nil}

\* input_unregister_device: the first link to the device is set to what is behind it.
TakenOut(l, d) ==
    LET links == {i \in Steps : Met(l, i) # Nil /\ l.next[Met(l, i)] = d}
    IN IF l.head = d THEN [l EXCEPT !.head = l.next[d]]
       ELSE IF links = {} THEN l
       ELSE [l EXCEPT !.next[Met(l, CHOOSE i \in links : \A j \in links : i <= j)] = l.next[d]]

List == [head |-> dev_head, next |-> dev_next]

SetList(l) == dev_head' = l.head /\ dev_next' = l.next

HidAdded(l) == Pushed(Pushed(l, HidDevs[1]), HidDevs[2])

\* Mutant of HidRemoved: the second device is not taken out.
HidRemovedOne(l) == TakenOut(l, HidDevs[1])

HidRemoved(l) == TakenOut(TakenOut(l, HidDevs[1]), HidDevs[2])

\* A removal in a circle that does not have the device never returns.
Removable(l) == Found(l, HidDevs[1]) /\ Found(TakenOut(l, HidDevs[1]), HidDevs[2])
Hids == {HidDevs[1], HidDevs[2]}

(***************************************************************************)
(* The controller                                                          *)
(***************************************************************************)
\* The change bit is set with the first change of a port that is not cleared.
Flagged(p) == /\ changed' = changed \cup {p}
              /\ port_change' = (port_change \/ p \notin changed)
              /\ newer' = (newer \/ p = port) /\ missed' = missed \ {p}

Plug(p)   == p \notin connected /\ connected' = connected \cup {p} /\ Flagged(p)
Unplug(p) == p \in connected /\ connected' = connected \ {p} /\ Flagged(p)

PortEvent(p) == /\ (Plug(p) \/ Unplug(p))
                /\ UNCHANGED <<reset_done, heard, listVars, loopVars>>

\* The reset the driver waits for ends; one that ends after the driver gave up is left out.
ResetDone == /\ step = "wait" /\ step' = "done"
             /\ reset_done' = reset_done \cup {port}
             /\ port_change' = (port_change \/ port \notin reset_done)
             /\ UNCHANGED <<connected, changed, newer, heard, missed, port, portsc, again, listVars>>

\* What a read of a port finds.
PortRead(p) == [ccs |-> p \in connected, csc |-> p \in changed, prc |-> p \in reset_done]

NoCopy == [ccs |-> FALSE, csc |-> FALSE, prc |-> FALSE]

\* A write clears the change bits that are set in what is written: a bit that was read
\* as set is cleared again, with the change that came in between.
PortWritten(v) ==
    /\ changed' = IF v.csc THEN changed \ {port} ELSE changed
    /\ reset_done' = IF v.prc THEN reset_done \ {port} ELSE reset_done
    /\ missed' = IF v.csc /\ newer THEN missed \cup {port} ELSE missed

(***************************************************************************)
(* xhci_handle_events: the change bit is cleared before the ports are      *)
(* looked at, one after the other.  Every access to a port's register is a *)
(* step of its own.                                                        *)
(***************************************************************************)
\* Mutant of AtEnd: the change bit is cleared when all ports have been looked at.
AtEndCleared(bit) == FALSE

\* The change bit when the loop ends: it was cleared before.
AtEnd(bit) == bit

HandleEvents == /\ port = 0 /\ port_change
                /\ port_change' = FALSE
                /\ port' = 1 /\ step' = "read"
                /\ UNCHANGED <<connected, changed, reset_done, newer, heard, missed, portsc, again,
                               listVars>>

NextPort(p) == IF p < MaxPorts THEN p + 1 ELSE 0

\* xhci_handle_port_change reads a port ...
ReadPort ==
    /\ port # 0 /\ step = "read"
    /\ portsc' = PortRead(port)
    /\ step' = IF port \in changed THEN "clear" ELSE "ack"
    /\ newer' = FALSE
    /\ heard' = IF port \notin changed THEN heard
                ELSE IF port \in connected THEN heard \cup {port} ELSE heard \ {port}
    /\ UNCHANGED <<connected, changed, reset_done, port_change, missed, port, again, listVars>>

\* Mutant of Cleared: the change bit of the port stays set in the copy only.
ClearedNot(v) == [v EXCEPT !.csc = FALSE]

\* The value that clears the change of a port.
Cleared(v) == [v EXCEPT !.csc = TRUE]

\* ... clears its change ...
ClearChange ==
    /\ step = "clear"
    /\ PortWritten(Cleared(portsc))
    /\ step' = IF portsc.ccs THEN "reset" ELSE "remove"
    /\ UNCHANGED <<connected, port_change, newer, heard, port, portsc, again, listVars>>

\* ... takes the devices out ...
HandleDisconnect ==
    /\ step = "remove" /\ step' = "ack"
    /\ Removable(List)
    /\ SetList(HidRemoved(List))
    /\ listed' = listed \ Hids
    /\ UNCHANGED <<twice, portVars, port, portsc, again>>

\* ... or has xhci_port_reset read the port, which gives up when nothing is there ...
ResetRead ==
    /\ step = "reset"
    /\ again' = IF port \in connected THEN PortRead(port) ELSE NoCopy
    /\ step' = IF port \in connected THEN "start" ELSE "ack"
    /\ UNCHANGED <<portVars, port, portsc, listVars>>

\* ... and write it back with the reset bit ...
ResetWrite ==
    /\ step = "start" /\ step' = "wait"
    /\ PortWritten(again)
    /\ UNCHANGED <<connected, port_change, newer, heard, port, portsc, again, listVars>>

\* ... until it is done and the port enabled, and the devices are put in; it gives up when
\* the port is not enabled and after 1000 reads.
HandleConnect ==
    /\ step \in {"wait", "done"} /\ step' = "ack" /\ again' = NoCopy
    /\ \/ /\ step = "done" /\ port \in connected
          /\ SetList(HidAdded(List))
          /\ listed' = listed \cup Hids
          /\ twice' = (twice \/ Hids \cap listed # {})
       \/ UNCHANGED listVars
    /\ UNCHANGED <<portVars, port, portsc>>

\* ... and at last clears a reset change, with the copy of its first read.
AckReset ==
    /\ step = "ack"
    /\ IF portsc.prc THEN PortWritten(portsc) ELSE UNCHANGED <<changed, reset_done, missed>>
    /\ port' = NextPort(port) /\ portsc' = NoCopy /\ newer' = FALSE
    /\ step' = IF NextPort(port) = 0 THEN "out" ELSE "read"
    /\ port_change' = IF NextPort(port) = 0 THEN AtEnd(port_change) ELSE port_change
    /\ UNCHANGED <<connected, heard, again, listVars>>

\* usb_hid_disconnect, for a driver that gives up its interface.
UsbHidDisconnect ==
    /\ port = 0
    /\ Removable(List)
    /\ SetList(HidRemoved(List))
    /\ listed' = listed \ Hids
    /\ UNCHANGED <<twice, portVars, loopVars>>

\* usb_hid_probe registers the device of the interface's protocol.
UsbHidProbe(d) ==
    /\ port = 0 /\ d \in Hids
    /\ SetList(Pushed(List, d))
    /\ listed' = listed \cup {d}
    /\ twice' = (twice \/ d \in listed)
    /\ UNCHANGED <<portVars, loopVars>>

UsbInit ==
    /\ \E order \in {f \in [1 .. Cardinality(BootDevs) -> BootDevs] : \A d \in BootDevs : \E i \in DOMAIN f : f[i] = d} :
          /\ dev_head = IF BootDevs = {} THEN Nil ELSE order[1]
          /\ dev_next = [d \in Devices |->
                IF \E i \in DOMAIN order : order[i] = d /\ i < Cardinality(BootDevs)
                THEN order[1 + CHOOSE i \in DOMAIN order : order[i] = d] ELSE Nil]
    /\ connected = {} /\ changed = {} /\ reset_done = {} /\ port_change = FALSE
    /\ port = 0 /\ step = "out" /\ portsc = NoCopy /\ again = NoCopy
    /\ newer = FALSE /\ heard = {} /\ missed = {}
    /\ listed = BootDevs /\ twice = FALSE

UsbNext ==
    \/ \E p \in Ports : PortEvent(p)
    \/ HandleEvents \/ ReadPort \/ ClearChange \/ HandleDisconnect \/ ResetRead \/ ResetWrite
    \/ ResetDone \/ HandleConnect \/ AckReset
    \/ UsbHidDisconnect
    \/ \E d \in Hids : UsbHidProbe(d)
-----------------------------------------------------------------------------
\* No change of a port is left behind: outside the loop, a port whose change is not
\* cleared has the change bit set, so the next poll looks at it; and a port whose change
\* is cleared is, or is not, connected as the driver took it the last time, unless a write
\* of the driver cleared a change that came after its read of the port (which the code
\* does not prevent: a device plugged in then stays unnoticed until the port changes again).
ChangesPending ==
    /\ port = 0 /\ changed # {} => port_change
    /\ \A p \in Ports \ (changed \cup missed) : p \in heard <=> p \in connected

\* The list has exactly the registered devices, each once, until one is registered
\* while it is in the list: with a second port connected the circle is closed.
ListedOnce ==
    ~twice => LET n == Cardinality(listed)
              IN {Met(List, i) : i \in 1 .. n} = listed /\ Met(List, n + 1) = Nil
=============================================================================
