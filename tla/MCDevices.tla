----------------------------- MODULE MCDevices -----------------------------
(* The device drivers, one at a time.                                      *)
(*                                                                         *)
(* VirtIO: two blocks of two sectors.  NVMe: two blocks of a page each,    *)
(* rings of three entries that wrap in four calls.  AHCI: two sectors and  *)
(* a buffer for one.  StorVSC: three targets, one of them not there, and   *)
(* two errors of the provider.  Each gives up on one request at most.      *)
(* VMBus: every set of channels a host can have, in every order of offers. *)
(* Rings: a ring of eleven words and four packets of four to seven.        *)
(* Network: a gateway, a DNS server and a host elsewhere, two DHCP         *)
(* servers, two ports, connections and receive buffers, a call after the   *)
(* self test, and one fault: a repeated or an empty frame, a transmission  *)
(* given up.  USB storage: two blocks, transfers of one, rings of three    *)
(* entries and a link.  Keyboard: three keys and a queue with room for two *)
(* characters.                                                             *)
EXTENDS VirtioBlock, Nvme, Ahci, StorVsc, Vmbus, VmbusRing, VirtioNet, UsbStorage, Keyboard

VARIABLE device

MCCapacity == [t \in Targets |-> CASE t = 0 -> 2 [] t = 1 -> 0 [] OTHER -> 1]
MCVersions == << "win10", "win8.1" >>
MCPacketShapes == {[prefix |-> p, payload |-> n] : p \in 0 .. 1, n \in 0 .. 3}

DevicesInit ==
    /\ device \in {"virtio", "nvme", "ahci", "storvsc", "vmbus", "ring", "net", "usb", "keyboard"}
    /\ StorInit /\ (device # "storvsc" => s_accepts = {})
    /\ VmbusInit
    /\ device # "vmbus" => b_host.has = {} /\ b_host.version /\ b_host.refuses = {}
                           /\ b_host.rejects = {}
    /\ VirtioInit /\ NvmeInit /\ AhciInit /\ RingInit /\ NetInit /\ UsbInit /\ KeyboardInit

DevicesNext ==
    /\ UNCHANGED device
    /\ \/ /\ device = "virtio" /\ VirtioNext
          /\ UNCHANGED <<nvmeVars, ahciVars, storVars, vmbusVars, ringVars, netVars, usbVars, keyboardVars>>
       \/ /\ device = "nvme" /\ NvmeNext
          /\ UNCHANGED <<virtioVars, ahciVars, storVars, vmbusVars, ringVars, netVars, usbVars, keyboardVars>>
       \/ /\ device = "ahci" /\ AhciNext
          /\ UNCHANGED <<virtioVars, nvmeVars, storVars, vmbusVars, ringVars, netVars, usbVars, keyboardVars>>
       \/ /\ device = "storvsc" /\ StorNext
          /\ UNCHANGED <<virtioVars, nvmeVars, ahciVars, vmbusVars, ringVars, netVars, usbVars, keyboardVars>>
       \/ /\ device = "vmbus" /\ VmbusNext
          /\ UNCHANGED <<virtioVars, nvmeVars, ahciVars, storVars, ringVars, netVars, usbVars, keyboardVars>>
       \/ /\ device = "ring" /\ RingNext
          /\ UNCHANGED <<virtioVars, nvmeVars, ahciVars, storVars, vmbusVars, netVars, usbVars, keyboardVars>>
       \/ /\ device = "net" /\ NetNext
          /\ UNCHANGED <<virtioVars, nvmeVars, ahciVars, storVars, vmbusVars, ringVars, usbVars, keyboardVars>>
       \/ /\ device = "usb" /\ UsbNext
          /\ UNCHANGED <<virtioVars, nvmeVars, ahciVars, storVars, vmbusVars, ringVars, netVars, keyboardVars>>
       \/ /\ device = "keyboard" /\ KeyboardNext
          /\ UNCHANGED <<virtioVars, nvmeVars, ahciVars, storVars, vmbusVars, ringVars, netVars, usbVars>>

DevicesSpec ==
    DevicesInit /\ [][DevicesNext]_<<device, virtioVars, nvmeVars, ahciVars, storVars, vmbusVars,
                                     ringVars, netVars, usbVars, keyboardVars>>

(* Whichever driver serves a call: as long as no request has been given    *)
(* up, the medium holds what the calls that returned say, a read that      *)
(* reported success has returned it, and a ping or an HTTP server that     *)
(* did has been answered or has answered.                                  *)
AnswersTrue ==
    CASE device = "virtio" -> VirtioAnswersTrue
      [] device = "nvme" -> NvmeAnswersTrue
      [] device = "ahci" -> AhciWritesTrue /\ AhciReadsTrue
      [] device = "storvsc" -> StorAnswersTrue
      [] device = "net" -> NetAnswersTrue
      [] device = "usb" -> UsbAnswersTrue
      [] OTHER -> TRUE

(* A driver with a queue of completions that gave up waits is behind by as *)
(* many completions, no more and no fewer, from then on.                   *)
StaysBehind ==
    /\ device = "nvme" => NvmeBehind
    /\ device = "storvsc" => StorBehind

(* The rings between a driver and a host or a controller hold for each     *)
(* what the other has put there, wherever they begin again; and the queue  *)
(* of the keyboards gives the characters as they were typed.               *)
RingsInStep ==
    CASE device = "ring" -> RingDelivers
      [] device = "usb" -> UsbRingsInStep
      [] device = "keyboard" -> KeysInOrder
      [] OTHER -> TRUE

(* Nothing of the network driver's own is used up by a call: connections   *)
(* and receive buffers are there for the next one.                         *)
NetResourcesKept == device = "net" => ConnectionsReleased /\ BuffersKept

=============================================================================
