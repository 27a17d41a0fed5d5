-------------------------------- MODULE Xhci --------------------------------
(***************************************************************************)
(* The USB host controller, src/kernel/xhci.c: how xhci_initialize finds a *)
(* keyboard, then a mouse, then a storage device on the ports, and how     *)
(* their events are taken from the one event ring afterwards.  A wait for  *)
(* a command or a control transfer takes the next event of its type from   *)
(* whatever device and throws away the others; xhci_poll_devices leaves an *)
(* event that is not its own where it is.  The driver goes through the     *)
(* event ring once: its index never returns to the start.                  *)
(***************************************************************************)
EXTENDS Naturals, Sequences, FiniteSets

CONSTANTS
    UsbPorts,        \* max_ports
    UsbSlots,        \* max_slots
    UsbKinds,        \* what may be plugged in, "none" for nothing
    UsbRing,         \* 256: the TRBs of the event ring and of an interrupt ring
    MaxUsbFaults,    \* bound on the port resets that fail, the waits for an event
                     \* given up and the port changes after the initialization
    MaxUsbTransfers  \* bound on the storage transfers after it

ASSUME XhciAssumption ==
    /\ {UsbPorts, UsbSlots, UsbRing} \subseteq Nat \ {0} /\ "none" \in UsbKinds
    /\ {MaxUsbFaults, MaxUsbTransfers} \subseteq Nat

VARIABLES
    x_ports,     \* what is on each port
    x_slots,     \* the slots of the controller
    x_role,      \* per role: its port and slot (addressed_port, enabled_slot ...)
    x_at,        \* where xhci_initialize is: role, port and step
    x_read,      \* what the configuration descriptor says that was read last
    x_commands,  \* the commands the controller has not carried out
    x_transfers, \* the transfers it has not carried out
    x_events,    \* the events the driver has not taken
    x_taken,     \* event_dequeue_index: the events it has taken
    x_asked,     \* per role: the enqueue index of its interrupt ring
    x_io,        \* a storage transfer is waited for
    x_lost,      \* per role: reports thrown away by a wait
    x_counts     \* so far: resets failed, waits given up (late: those for commands
                 \* among them), port changes and transfers

xhciVars == <<x_ports, x_slots, x_role, x_at, x_read, x_commands, x_transfers, x_events, x_taken,
              x_asked, x_io, x_lost, x_counts>>

Roles == {"keyboard", "mouse", "storage"}
InputRoles == {"keyboard", "mouse"}
PortNumbers == 1 .. UsbPorts
SlotNumbers == 1 .. UsbSlots
NoSlot == [on |-> FALSE, port |-> 0, queued |-> 0]

(* A TRB for a report is put at an index of the interrupt ring of a role.  *)
(* The index only grows: the last entry is the ring's link, and from there *)
(* on nothing put into it is asked for.  UsbRingsLast says this is never   *)
(* reached.                                                                *)
AskForReport(role, index) ==
    /\ x_asked' = [x_asked EXCEPT ![role] = index + 1]
    /\ x_slots' = [x_slots EXCEPT ![x_role[role].slot].queued =
                      IF x_slots[x_role[role].slot].on /\ index < UsbRing - 1 THEN @ + 1 ELSE @]

ConnectedPorts == Cardinality({p \in PortNumbers : x_ports[p] # "none"})

FaultsLeft == x_counts.resets + x_counts.timeouts + x_counts.plugs < MaxUsbFaults

Event(type, slot, ok) == [type |-> type, slot |-> slot, ok |-> ok]
Tell(event) == x_events' = Append(x_events, event)

(* What the driver finds at event_dequeue_index.  After its last entry the *)
(* controller begins the ring again with the other cycle bit, and the      *)
(* driver reads behind the array, where no event is: the waits run out and *)
(* the polls take nothing.  (A build that has something there which looks  *)
(* like a completion is followed up to where it is read.)                  *)
EventFound == x_events # << >> /\ x_taken < UsbRing
TakeEvent == x_events' = Tail(x_events) /\ x_taken' = x_taken + 1

-----------------------------------------------------------------------------
(* xhci_initialize                                                         *)

(* The steps for each role, after the port has been reset                  *)
KeyboardSteps == <<"enable", "address", "device", "config", "set", "configure">>
MouseSteps == KeyboardSteps
StorageSteps == <<"enable", "address", "device", "config", "configure", "set", "scsi">>

Steps(role) ==
    CASE role = "keyboard" -> KeyboardSteps
      [] role = "mouse" -> MouseSteps
      [] role = "storage" -> StorageSteps

CommandSteps == {"enable", "address", "configure", "disable"}
ControlSteps == {"device", "config", "set"}

(* The step goes to the command ring, to endpoint zero or to a bulk ring.  *)
PostCommand(step, slot) ==
    /\ x_commands' = Append(x_commands, [step |-> step, slot |-> slot, port |-> x_at.port])
    /\ UNCHANGED x_transfers

PostTransfer(step, slot) ==
    /\ x_transfers' = x_transfers \union {[step |-> step, slot |-> slot]}
    /\ UNCHANGED x_commands

(* The configuration descriptor is cleared before it is read.              *)
DescriptorBefore(step) == IF step = "config" THEN "none" ELSE x_read

Post(step, slot) ==
    /\ x_at' = [x_at EXCEPT !.step = step]
    /\ IF step \in CommandSteps THEN PostCommand(step, slot) ELSE PostTransfer(step, slot)
    /\ x_read' = DescriptorBefore(step)

TakenPorts == {x_role[r].port : r \in Roles \ {x_at.role}} \ {0}

Missing == [port |-> 0, slot |-> 0]

(* reset_port_number: it has no effect without a device; one that is reset *)
(* forgets its address, and the port tells of a change.  A reset that      *)
(* fails or takes too long may still have done both.                       *)
ResetPort(port, event, ready) ==
    /\ event \/ ready => x_ports[port] # "none"
    /\ \/ /\ x_ports[port] # "none"
          /\ x_slots' = [s \in SlotNumbers |-> IF x_slots[s].port = port THEN NoSlot ELSE x_slots[s]]
       \/ ~ready /\ UNCHANGED x_slots
    /\ IF event THEN Tell(Event("port", 0, TRUE)) ELSE UNCHANGED x_events
    /\ IF ready \/ x_ports[port] = "none" THEN UNCHANGED x_counts
       ELSE FaultsLeft /\ x_counts' = [x_counts EXCEPT !.resets = @ + 1]

(* The loops over the ports: one that holds an earlier role is left out,   *)
(* and so is one that cannot be reset.                                     *)
TryPort(event, ready) ==
    LET port == x_at.port + 1 IN
    /\ x_at.step = "port" /\ port <= UsbPorts
    /\ IF port \in TakenPorts
       THEN ~event /\ ~ready /\ UNCHANGED <<x_slots, x_events, x_counts>>
       ELSE ResetPort(port, event, ready)
    /\ IF ready
       THEN /\ x_at' = [x_at EXCEPT !.port = port, !.step = "enable"]
            /\ x_role' = [x_role EXCEPT ![x_at.role] = [port |-> port, slot |-> 0]]
            /\ x_commands' = Append(x_commands, [step |-> "enable", slot |-> 0, port |-> port])
       ELSE /\ x_at' = [x_at EXCEPT !.port = port]
            /\ UNCHANGED <<x_role, x_commands>>
    /\ UNCHANGED <<x_ports, x_read, x_transfers, x_taken, x_asked, x_io, x_lost>>

(* No port is left: the initialization has failed.                         *)
NoPortLeft ==
    /\ x_at.step = "port" /\ x_at.port = UsbPorts
    /\ x_at' = [x_at EXCEPT !.step = "failed"]
    /\ x_role' = [x_role EXCEPT ![x_at.role] = Missing]
    /\ UNCHANGED <<x_ports, x_slots, x_read, x_commands, x_transfers, x_events, x_taken, x_asked, x_io,
                   x_lost, x_counts>>

(* The role after this one is looked for when there are more devices.      *)
NextRole ==
    CASE x_at.role = "keyboard" /\ ConnectedPorts > 1 -> "mouse"
      [] x_at.role = "mouse" /\ ConnectedPorts > 2 -> "storage"
      [] OTHER -> "none"

(* The role is filled: for keyboard and mouse a first report is asked for. *)
RoleFilled ==
    /\ x_at' = [role |-> NextRole, port |-> 0, step |-> IF NextRole = "none" THEN "up" ELSE "port"]
    /\ IF x_at.role \in InputRoles THEN AskForReport(x_at.role, 0) ELSE UNCHANGED <<x_slots, x_asked>>
    /\ UNCHANGED <<x_read, x_commands, x_transfers>>

(* Faulty variant: any HID interface will do for a mouse.                  *)
MouseDetectedAnyHid == x_read \in InputRoles

(* What the configuration descriptor must say: class, subclass, protocol   *)
(* and an interrupt endpoint, or the two bulk endpoints                    *)
KeyboardDetected == x_read = "keyboard"
MouseDetected == x_read = "mouse"
StorageDetected == x_read = "storage"

Detects(role) ==
    CASE role = "keyboard" -> KeyboardDetected
      [] role = "mouse" -> MouseDetected
      [] role = "storage" -> StorageDetected

(* The completion of Address Device and Configure Endpoint must name the   *)
(* slot.                                                                   *)
OwnSlot(slot, mine) == slot = mine

(* A step has ended: the slot it is about, and whether it went well        *)
StepEnds(ok, slot) ==
    LET role == x_at.role
        steps == Steps(role)
        here == CHOOSE i \in DOMAIN steps : steps[i] = x_at.step
        mine == IF x_at.step = "enable" /\ ok THEN slot ELSE x_role[role].slot
        good == /\ ok
                /\ x_at.step \in {"address", "configure"} => OwnSlot(slot, mine)
                /\ x_at.step = "config" => Detects(role)
    IN /\ x_role' = [x_role EXCEPT ![role].slot = mine]
       /\ CASE x_at.step = "disable" ->
                 /\ x_at' = [x_at EXCEPT !.step = "port"]
                 /\ UNCHANGED <<x_slots, x_asked, x_read, x_commands, x_transfers>>
            [] x_at.step # "disable" /\ good /\ here = Len(steps) -> RoleFilled
            [] x_at.step # "disable" /\ good /\ here < Len(steps) ->
                 Post(steps[here + 1], mine) /\ UNCHANGED <<x_slots, x_asked>>
            [] x_at.step # "disable" /\ ~good /\ mine # 0 ->
                 Post("disable", mine) /\ UNCHANGED <<x_slots, x_asked>>
            [] OTHER ->
                 /\ x_at' = [x_at EXCEPT !.step = "port"]
                 /\ UNCHANGED <<x_slots, x_asked, x_read, x_commands, x_transfers>>

InSteps(steps) == x_at.step \in steps

RoleOf(event) ==
    {r \in InputRoles : event.type = "transfer" /\ x_role[r].slot = event.slot /\ event.slot # 0
                        /\ r # x_at.role}
Drop(event) ==
    x_lost' = [r \in InputRoles |-> IF r \in RoleOf(event) THEN x_lost[r] + 1 ELSE x_lost[r]]

(* wait_for_command_completion                                             *)
WaitCommand ==
    /\ InSteps(CommandSteps) /\ EventFound
    /\ TakeEvent
    /\ Drop(Head(x_events))
    /\ IF Head(x_events).type = "command" THEN StepEnds(Head(x_events).ok, Head(x_events).slot)
       ELSE UNCHANGED <<x_role, x_at, x_slots, x_asked, x_read, x_commands, x_transfers>>
    /\ UNCHANGED <<x_ports, x_io, x_counts>>

(* wait_for_transfer_completion: of whatever slot                          *)
WaitTransfer ==
    /\ InSteps(ControlSteps) /\ EventFound
    /\ TakeEvent
    /\ Drop(Head(x_events))
    /\ IF Head(x_events).type = "transfer" THEN StepEnds(Head(x_events).ok, Head(x_events).slot)
       ELSE UNCHANGED <<x_role, x_at, x_slots, x_asked, x_read, x_commands, x_transfers>>
    /\ UNCHANGED <<x_ports, x_io, x_counts>>

(* The wait of a step runs out.                                            *)
StepTimeout ==
    /\ InSteps(CommandSteps \union ControlSteps \union {"scsi"})
    /\ FaultsLeft
    /\ x_counts' = [x_counts EXCEPT !.timeouts = @ + 1,
                                    !.late = @ + (IF InSteps(CommandSteps) THEN 1 ELSE 0)]
    /\ StepEnds(FALSE, 0)
    /\ UNCHANGED <<x_ports, x_events, x_taken, x_io, x_lost>>

-----------------------------------------------------------------------------
(* Keyboard and mouse                                                      *)

Pollable == /\ EventFound /\ Head(x_events).type = "transfer"
            /\ \E r \in InputRoles : x_role[r].slot = Head(x_events).slot

PolledRole == IF Head(x_events).slot = x_role["keyboard"].slot THEN "keyboard" ELSE "mouse"

(* Faulty variant: the next report is not asked for.                       *)
TakeReportOnly == TakeEvent /\ UNCHANGED <<x_slots, x_asked>>

(* xhci_poll_devices with an event of the keyboard or the mouse: the       *)
(* report is passed on and the next one asked for.                         *)
TakeReport == TakeEvent /\ AskForReport(PolledRole, x_asked[PolledRole])

(* xhci_poll_devices from the main loop and the shell                      *)
PollDevices ==
    /\ x_at.step = "up" /\ ~x_io /\ Pollable
    /\ TakeReport
    /\ UNCHANGED <<x_ports, x_role, x_at, x_read, x_commands, x_transfers, x_io, x_lost, x_counts>>

(* storage_bulk_transfer after the initialization                          *)
BeginBulk ==
    /\ x_at.step = "up" /\ ~x_io /\ x_role["storage"].port # 0
    /\ x_counts.transfers < MaxUsbTransfers
    /\ x_counts' = [x_counts EXCEPT !.transfers = @ + 1]
    /\ x_io' = TRUE
    /\ x_transfers' = x_transfers \union {[step |-> "bulk", slot |-> x_role["storage"].slot]}
    /\ UNCHANGED <<x_ports, x_slots, x_role, x_at, x_read, x_commands, x_events, x_taken, x_asked,
                   x_lost>>

(* wait_for_storage_transfer_completion: reports are passed on, events of  *)
(* no known slot thrown away, the first of its own slot is the answer.     *)
WaitStorage ==
    LET event == Head(x_events)
        mine == event.type = "transfer" /\ event.slot = x_role["storage"].slot
    IN /\ (x_io \/ x_at.step = "scsi") /\ EventFound
       /\ IF Pollable /\ ~mine
          THEN TakeReport /\ UNCHANGED <<x_io, x_role, x_at, x_read, x_commands, x_transfers>>
          ELSE /\ TakeEvent
               /\ IF ~mine
                  THEN UNCHANGED <<x_slots, x_asked, x_io, x_role, x_at, x_read, x_commands, x_transfers>>
                  ELSE IF x_io
                  THEN /\ x_io' = FALSE
                       /\ UNCHANGED <<x_slots, x_asked, x_role, x_at, x_read, x_commands, x_transfers>>
                  ELSE StepEnds(event.ok, event.slot) /\ UNCHANGED x_io
       /\ UNCHANGED <<x_ports, x_lost, x_counts>>

BulkTimeout ==
    /\ x_io /\ FaultsLeft
    /\ x_counts' = [x_counts EXCEPT !.timeouts = @ + 1]
    /\ x_io' = FALSE
    /\ UNCHANGED <<x_ports, x_slots, x_role, x_at, x_read, x_commands, x_transfers, x_events, x_taken,
                   x_asked, x_lost>>

-----------------------------------------------------------------------------
(* The controller and the devices                                          *)

FreeSlots == {s \in SlotNumbers : ~x_slots[s].on}

CompleteCommand ==
    LET command == Head(x_commands) IN
    /\ x_commands # << >>
    /\ x_commands' = Tail(x_commands)
    /\ CASE command.step = "enable" /\ FreeSlots # {} ->
              \E s \in FreeSlots :
                 /\ \A t \in FreeSlots : s <= t
                 /\ x_slots' = [x_slots EXCEPT ![s] = [NoSlot EXCEPT !.on = TRUE]]
                 /\ Tell(Event("command", s, TRUE))
                 /\ UNCHANGED x_transfers
         [] command.step = "enable" /\ FreeSlots = {} ->
              Tell(Event("command", 0, FALSE)) /\ UNCHANGED <<x_slots, x_transfers>>
         [] command.step = "address" ->
              /\ x_slots' = [x_slots EXCEPT ![command.slot].port = IF x_slots[command.slot].on
                                                                  THEN command.port ELSE @]
              /\ Tell(Event("command", command.slot, x_slots[command.slot].on))
              /\ UNCHANGED x_transfers
         [] command.step = "disable" ->
              /\ x_slots' = [x_slots EXCEPT ![command.slot] = NoSlot]
              /\ x_transfers' = {t \in x_transfers : t.slot # command.slot}
              /\ Tell(Event("command", command.slot, TRUE))
         [] OTHER ->
              /\ Tell(Event("command", command.slot, x_slots[command.slot].on))
              /\ UNCHANGED <<x_slots, x_transfers>>
    /\ UNCHANGED <<x_ports, x_role, x_at, x_read, x_taken, x_asked, x_io, x_lost, x_counts>>

(* A transfer is carried out.  The kind of a device is in its              *)
(* configuration descriptor; a device that is none of the three stalls.    *)
CompleteTransfer(t) ==
    LET port == x_slots[t.slot].port IN
    /\ x_slots[t.slot].on /\ port # 0
    /\ x_transfers' = x_transfers \ {t}
    /\ x_read' = IF t.step = "config" THEN x_ports[port] ELSE x_read
    /\ Tell(Event("transfer", t.slot, x_ports[port] \in Roles))
    /\ UNCHANGED <<x_ports, x_slots, x_role, x_at, x_commands, x_taken, x_asked, x_io, x_lost, x_counts>>

(* A key is pressed or the mouse is moved.                                 *)
Report(s) ==
    /\ x_slots[s].on /\ x_slots[s].queued > 0
    /\ x_slots' = [x_slots EXCEPT ![s].queued = @ - 1]
    /\ Tell(Event("transfer", s, TRUE))
    /\ UNCHANGED <<x_ports, x_role, x_at, x_read, x_commands, x_transfers, x_taken, x_asked, x_io, x_lost,
                   x_counts>>

(* Something is plugged into a free port or taken out of one in no role.   *)
Plug ==
    /\ x_at.step = "up" /\ FaultsLeft
    /\ x_counts' = [x_counts EXCEPT !.plugs = @ + 1]
    /\ Tell(Event("port", 0, TRUE))
    /\ UNCHANGED <<x_ports, x_slots, x_role, x_at, x_read, x_commands, x_transfers, x_taken, x_asked,
                   x_io, x_lost>>

-----------------------------------------------------------------------------
XhciInit ==
    /\ x_ports \in [PortNumbers -> UsbKinds]
    /\ x_slots = [s \in SlotNumbers |-> NoSlot]
    /\ x_role = [r \in Roles |-> Missing]
    /\ x_at = [role |-> "keyboard", port |-> 0, step |-> "port"]
    /\ x_read = "none"
    /\ x_commands = << >> /\ x_transfers = {} /\ x_events = << >>
    /\ x_taken = 0 /\ x_asked = [r \in InputRoles |-> 0]
    /\ x_io = FALSE
    /\ x_lost = [r \in InputRoles |-> 0]
    /\ x_counts = [resets |-> 0, timeouts |-> 0, late |-> 0, plugs |-> 0, transfers |-> 0]

XhciNext ==
    \/ \E event, ready \in BOOLEAN : TryPort(event, ready)
    \/ NoPortLeft \/ WaitCommand \/ WaitTransfer \/ StepTimeout
    \/ PollDevices \/ BeginBulk \/ WaitStorage \/ BulkTimeout
    \/ CompleteCommand
    \/ \E t \in x_transfers : CompleteTransfer(t)
    \/ \E s \in SlotNumbers : Report(s)
    \/ Plug

XhciSpec == XhciInit /\ [][XhciNext]_xhciVars

-----------------------------------------------------------------------------
(* Every role that was looked for is filled by a device of that kind, on a *)
(* port and a slot of its own.                                             *)
RolesFilled ==
    /\ x_role["keyboard"].port # 0
    /\ ConnectedPorts > 1 => x_role["mouse"].port # 0
    /\ ConnectedPorts > 2 => x_role["storage"].port # 0
    /\ \A r \in Roles : x_role[r].port # 0 =>
          /\ x_ports[x_role[r].port] = r
          /\ x_slots[x_role[r].slot].on /\ x_slots[x_role[r].slot].port = x_role[r].port
    /\ \A r, q \in Roles : x_role[r].slot = x_role[q].slot /\ x_role[r].slot # 0 => r = q

(* Once the controller is up the roles are filled, whatever was typed      *)
(* meanwhile and whatever waits for transfers ran out, as long as no wait  *)
(* for a command has.                                                      *)
UsbRolesRight == x_at.step = "up" /\ x_counts.late = 0 => RolesFilled

(* Nor do two such waits do harm, though the answer of a command is then   *)
(* taken for that of the next, and so on.  More of them can: if the        *)
(* answers that come late are all about one slot, which is freed and given *)
(* out again meanwhile, a role can end with a slot that serves the port of *)
(* another.                                                                *)
UsbLateAnswer == x_at.step = "up" /\ x_counts.timeouts <= 2 => RolesFilled

(* A keyboard or mouse in use always has one report asked for or waiting   *)
(* to be taken.  Only a report that a wait of the initialization took for  *)
(* something else ends this, and the keyboard is then never heard again.   *)
UsbInputKept ==
    x_at.step = "up" /\ x_counts.timeouts = 0 =>
        LET kept(r) == x_slots[x_role[r].slot].queued
                       + Cardinality({i \in DOMAIN x_events : x_events[i].type = "transfer"
                                                              /\ x_events[i].slot = x_role[r].slot})
        IN /\ \A r \in InputRoles : x_role[r].port # 0 /\ (\A q \in InputRoles : x_lost[q] = 0)
                                    => kept(r) = 1
           /\ x_lost["keyboard"] + kept("keyboard") = 1

(* The next event is one the poll takes, unless a port has changed since   *)
(* the initialization, a wait has run out or a report was taken for        *)
(* something else: what is in front then stays there, before every report, *)
(* until a storage transfer throws it away.  And it holds up to the end of *)
(* the event ring only: with UsbRing events taken, for whatever device,    *)
(* input and storage have stopped for good.                                *)
UsbInputFlows ==
    x_at.step = "up" /\ ~x_io /\ x_events # << >> /\ x_counts.plugs = 0 /\ x_counts.timeouts = 0
        /\ (\A r \in InputRoles : x_lost[r] = 0) /\ x_taken < UsbRing
        => Pollable

(* It is always the event ring that ends first: whatever was lost or gave  *)
(* up, the events spent on finding a keyboard or mouse leave no more than  *)
(* room for its interrupt ring, whose link is never written over.          *)
UsbRingsLast ==
    \A r \in InputRoles : x_asked[r] > 0 => x_asked[r] + Len(Steps(r)) <= UsbRing + 1

(* The devices that were found can be used: after two late answers they    *)
(* are still the right ones, and but for the cases above input goes on     *)
(* until the event ring is used up: it is asked for, in an interrupt ring  *)
(* that has room, and what comes is taken.                                 *)
UsbDevicesServe == UsbLateAnswer /\ UsbInputKept /\ UsbInputFlows /\ UsbRingsLast

=============================================================================
