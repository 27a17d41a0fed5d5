------------------------------- MODULE MCVfs -------------------------------
(***************************************************************************)
(* The volumes and the virtual disks, one at a time.                       *)
(* Volumes: a disk with a partition table, which no driver takes for a     *)
(* filesystem, a partition on it, a USB disk and a CD; a mount point the   *)
(* automatic ones collide with, and /system.                               *)
(* Images: a raw one that two spellings of its path lead to, a fixed VHD,  *)
(* and one of a format that is refused.                                    *)
(***************************************************************************)
EXTENDS Vfs, VirtualDisk

VARIABLE part

MCDevices == <<"disk0", "disk0p1", "usb", "cd">>
MCParent == [disk0 |-> "none", disk0p1 |-> "disk0", usb |-> "none", cd |-> "none"]
MCKind == [disk0 |-> "fixed", disk0p1 |-> "fixed", usb |-> "removable", cd |-> "optical"]
MCAnswers == [disk0 |-> {"unknown"}, disk0p1 |-> {"mounts"}, usb |-> {"fails", "mounts"},
              cd |-> {"read_only"}]
MCAutoNames ==
    [optical |-> << <<"media", "cdrom0">>, <<"media", "cdrom1">>, <<"media", "cdrom2">> >>,
     removable |-> << <<"media", "usb0">>, <<"media", "usb1">>, <<"media", "usb2">> >>,
     fixed |-> << <<"data">>, <<"media", "disk1">>, <<"media", "disk2">> >>]
MCPolicies == {[read_only |-> TRUE, no_exec |-> FALSE], [read_only |-> FALSE, no_exec |-> TRUE]}
MCUserPoints == {<<"media", "usb0">>, <<"system">>}
MCUnplugged == {"disk0", "usb"}
MCFiles == {<<"media", "usb0", "f">>}

MCFileOf == [p \in {"/A", "/a", "/V", "/Q"} |->
                CASE p = "/V" -> "vhd" [] p = "/Q" -> "qcow2" [] OTHER -> "raw"]
MCImageFiles == [f \in {"raw", "vhd", "qcow2"} |->
                    CASE f = "raw" -> << Sector(0) >>
                      [] f = "vhd" -> << Sector(0), Footer(1) >>
                      [] OTHER -> << SparseHeader >>]

VolumesInit ==
    /\ part \in {"vfs", "virtual"}
    /\ Init /\ VdiskInit
    /\ part = "virtual" => \A s \in Slots : mounts[s].active => mounts[s].device # "usb"

VolumesNext ==
    /\ UNCHANGED part
    /\ \/ part = "vfs" /\ Next /\ UNCHANGED vdiskVars
       \/ part = "virtual" /\ VdiskNext /\ UNCHANGED vars

VolumesSpec == VolumesInit /\ [][VolumesNext]_<<part, vars, vdiskVars>>

(* The tables of mounts and volumes are one, and what is read from a       *)
(* virtual disk or written to it is in the image it was attached for.      *)
StorageSound == IF part = "vfs" THEN VolumesSound ELSE ImagesKept

=============================================================================
