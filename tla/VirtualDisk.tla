---------------------------- MODULE VirtualDisk ----------------------------
(***************************************************************************)
(* Image files as block devices, src/kernel/virtual_disk.c, with the part  *)
(* of src/kernel/block_device.c that stands before them.  A slot ties an   *)
(* image to a registered device.  Devices are never unregistered: one that *)
(* has been detached keeps its slot, and the slot may get another image    *)
(* and another device of the same name.                                    *)
(*                                                                         *)
(* A file is a sequence of sectors.  The last sector of a fixed VHD is a   *)
(* footer, with its checksum and the number of the sectors before it.      *)
(***************************************************************************)
EXTENDS Naturals, Sequences, SequencesExt

CONSTANTS
    FileOf,          \* FileOf[p]: the file that the path p leads to
    SparsePaths,     \* paths with the suffix of a format that is refused
    ImageFiles,      \* the contents of the files to begin with, by file
    VdiskSlots,      \* VDISK_MAX_COUNT
    MaxVdiskDevices, \* room for more devices in the table of block_device.c
    SectorValues,    \* what is written to a sector
    MaxVdiskCalls    \* bound on the calls

Footer(n) == [k |-> "footer", sectors |-> n]
SparseHeader == [k |-> "sparse"]
Sector(v) == [k |-> "data", value |-> v]

ASSUME VirtualDiskAssumption ==
    /\ SparsePaths \subseteq DOMAIN FileOf
    /\ \A p \in DOMAIN FileOf : FileOf[p] \in DOMAIN ImageFiles
    /\ ImageFiles \in [DOMAIN ImageFiles ->
                           Seq(UNION {Range(ImageFiles[f]) : f \in DOMAIN ImageFiles})]
    /\ VdiskSlots \in Nat \ {0} /\ MaxVdiskDevices \in Nat /\ MaxVdiskCalls \in Nat

VARIABLES
    d_files,    \* the contents of the files; an empty one is not there
    d_slots,    \* vdisks
    d_devices,  \* the registered devices, the file each was registered for,
                \* and its blocks in the cache
    d_mounted,  \* devices with a mounted volume
    d_answer,   \* the last transfer
    d_touched,  \* files that others have written, that have two devices, or whose
                \* last write failed
    d_calls     \* calls so far

vdiskVars == <<d_files, d_slots, d_devices, d_mounted, d_answer, d_touched, d_calls>>

NoSlot == [active |-> FALSE, path |-> "", format |-> "raw", size |-> 0, file_size |-> 0,
           read_only |-> FALSE, device |-> 0]
NoTransfer == [op |-> "none"]

-----------------------------------------------------------------------------
(* Images                                                                  *)

(* validate_fixed_vhd_footer                                               *)
FixedVhd(image) == Len(image) > 1 /\ Last(image) = Footer(Len(image) - 1)

(* validate_qcow2_image, validate_vhdx_image                               *)
SparseImage(image) == image # << >> /\ Head(image) = SparseHeader

ActiveSlots == {s \in DOMAIN d_slots : d_slots[s].active}
LowestFree == CHOOSE s \in DOMAIN d_slots \ ActiveSlots :
                 \A r \in DOMAIN d_slots \ ActiveSlots : s <= r

(* attach_virtual_disk.  A slot that gets no device is given back.         *)
AttachVirtualDisk(path, read_only, format, size) ==
    /\ size # 0
    /\ \A s \in ActiveSlots : d_slots[s].path # path
    /\ ActiveSlots # DOMAIN d_slots
    /\ \E file \in {FileOf[path]}, registered \in {Len(d_devices) < MaxVdiskDevices} :
          /\ d_slots' = [d_slots EXCEPT ![LowestFree] =
                           [active |-> registered, path |-> path, format |-> format, size |-> size,
                            file_size |-> Len(d_files[file]), read_only |-> read_only,
                            device |-> IF registered THEN Len(d_devices) + 1 ELSE 0]]
          /\ d_devices' = IF ~registered THEN d_devices
                          ELSE Append(d_devices, [slot |-> LowestFree, file |-> file, blocks |-> size,
                                                  read_only |-> read_only, cache |-> {}])
          /\ d_touched' = IF \E s \in ActiveSlots : FileOf[d_slots[s].path] = file
                          THEN d_touched \union {file} ELSE d_touched
    /\ UNCHANGED <<d_files, d_mounted, d_answer>>

VirtualDiskAttachRaw(path, read_only) ==
    AttachVirtualDisk(path, read_only, "raw", Len(d_files[FileOf[path]]))

VirtualDiskAttachFixedVhd(path, read_only) ==
    LET image == d_files[FileOf[path]] IN
    FixedVhd(image) /\ AttachVirtualDisk(path, read_only, "vhd-fixed", Len(image) - 1)

VirtualDiskAttachAuto(path, read_only) ==
    LET image == d_files[FileOf[path]] IN
    \/ FixedVhd(image) /\ VirtualDiskAttachFixedVhd(path, read_only)
    \/ /\ ~FixedVhd(image) /\ ~SparseImage(image) /\ path \notin SparsePaths
       /\ VirtualDiskAttachRaw(path, read_only)

(* virtual_disk_detach looks at the device of the slot only, and leaves it *)
(* in the table, marked read-only.                                         *)
VirtualDiskDetach(slot) ==
    /\ slot \in ActiveSlots /\ d_slots[slot].device \notin d_mounted
    /\ d_slots' = [d_slots EXCEPT ![slot].active = FALSE]
    /\ d_devices' = [d_devices EXCEPT ![d_slots[slot].device].read_only = TRUE]
    /\ UNCHANGED <<d_files, d_mounted, d_answer, d_touched>>

-----------------------------------------------------------------------------
(* Transfers of one block                                                  *)

SlotOf(d) == d_slots[d_devices[d].slot]
ImageOf(d) == FileOf[SlotOf(d).path]

(* raw_read_blocks, raw_write_blocks: the image must be as long as it was  *)
RawInBounds(d, lba) ==
    /\ SlotOf(d).active
    /\ d_files[ImageOf(d)] # << >> /\ Len(d_files[ImageOf(d)]) = SlotOf(d).file_size
    /\ lba <= SlotOf(d).size

(* Blocks of a device in the cache.  An entry may have been displaced by   *)
(* those of other devices, or dropped by a barrier, by the time it is      *)
(* asked for.                                                              *)
Cached(d, lba) == {e \in d_devices[d].cache : e.lba = lba}
CacheBlocks(d, blocks) ==
    [d_devices EXCEPT ![d].cache =
        {e \in @ : \A b \in blocks : e.lba # b.lba} \union blocks]

FromImage(d, lba) ==
    IF RawInBounds(d, lba) THEN {[lba |-> lba, value |-> d_files[ImageOf(d)][lba]]} ELSE {}

Ahead(d, lba) ==
    IF lba <= d_devices[d].blocks /\ Cached(d, lba) = {} THEN FromImage(d, lba) ELSE {}

(* block_device_read, with one block of read-ahead                         *)
ReadSector(d, lba) ==
    /\ lba <= d_devices[d].blocks
    /\ \E block \in Cached(d, lba) \union FromImage(d, lba) :
          /\ d_answer' = [op |-> "read", device |-> d, lba |-> lba, value |-> block.value]
          /\ d_devices' = CacheBlocks(d, {block} \union Ahead(d, lba + 1))
    /\ UNCHANGED <<d_files, d_slots, d_mounted, d_touched>>

(* block_device_write: the whole image is read and written.  When that     *)
(* fails the cache stays as it was; the file may have been written.        *)
WriteSector(d, lba, value) ==
    LET done == RawInBounds(d, lba) /\ ~SlotOf(d).read_only
        written == [d_files EXCEPT ![ImageOf(d)][lba] = value]
    IN
    /\ lba <= d_devices[d].blocks /\ ~d_devices[d].read_only
    /\ \/ /\ done
          /\ d_files' = written
          /\ d_answer' = [op |-> "write", device |-> d, file |-> ImageOf(d)]
          /\ d_devices' = CacheBlocks(d, {[lba |-> lba, value |-> value]})
          /\ UNCHANGED d_touched
       \/ /\ \/ UNCHANGED <<d_files, d_touched>>
             \/ done /\ d_files' = written /\ d_touched' = d_touched \union {ImageOf(d)}
          /\ d_answer' = NoTransfer
          /\ UNCHANGED d_devices
    /\ UNCHANGED <<d_slots, d_mounted>>

(* raw_flush, rewrite_fixed_vhd_footer: a footer that is not valid is left *)
(* as it is, and the checksum of a valid one is right already.             *)
FlushDevice(d) ==
    /\ SlotOf(d).active
    /\ SlotOf(d).format = "vhd-fixed" /\ ~SlotOf(d).read_only => FixedVhd(d_files[ImageOf(d)])
    /\ d_answer' = [op |-> "flush", device |-> d]
    /\ UNCHANGED <<d_files, d_slots, d_devices, d_mounted, d_touched>>

(* virtual_disk_check                                                      *)
VirtualDiskCheck(slot) ==
    LET s == d_slots[slot]  image == d_files[FileOf[s.path]] IN
    /\ slot \in ActiveSlots
    /\ image # << >> /\ Len(image) = s.file_size
    /\ s.format = "vhd-fixed" => FixedVhd(image) /\ Len(image) - 1 = s.size

-----------------------------------------------------------------------------
(* The others                                                              *)

(* block_device_find gives the first device of a name: a volume is mounted *)
(* on it, whichever device the slot has now.                               *)
FirstOfName(d) == \A e \in 1 .. d - 1 : d_devices[e].slot # d_devices[d].slot

MountVirtual(d) ==
    /\ FirstOfName(d) /\ d \notin d_mounted /\ SlotOf(d).active
    /\ d_mounted' = d_mounted \union {d}
    /\ UNCHANGED <<d_files, d_slots, d_devices, d_answer, d_touched>>

UnmountVirtual(d) ==
    /\ d \in d_mounted
    /\ d_mounted' = d_mounted \ {d}
    /\ UNCHANGED <<d_files, d_slots, d_devices, d_answer, d_touched>>

(* The image is written or deleted as a file.                              *)
ReplaceFile(file, image) ==
    /\ d_files' = [d_files EXCEPT ![file] = image]
    /\ d_touched' = d_touched \union {file}
    /\ d_answer' = NoTransfer
    /\ UNCHANGED <<d_slots, d_devices, d_mounted>>

(* virtual_disk_initialize                                                 *)
VdiskInit ==
    /\ d_files = ImageFiles
    /\ d_slots = [s \in 1 .. VdiskSlots |-> NoSlot]
    /\ d_devices = << >> /\ d_mounted = {} /\ d_answer = NoTransfer /\ d_touched = {}
    /\ d_calls = 0

VdiskNext ==
    /\ d_calls < MaxVdiskCalls /\ d_calls' = d_calls + 1
    /\ \/ \E path \in DOMAIN FileOf, read_only \in BOOLEAN :
             \/ VirtualDiskAttachRaw(path, read_only)
             \/ VirtualDiskAttachFixedVhd(path, read_only)
             \/ VirtualDiskAttachAuto(path, read_only)
       \/ \E slot \in DOMAIN d_slots : VirtualDiskDetach(slot)
       \/ \E d \in DOMAIN d_devices :
             \/ \E lba \in 1 .. d_devices[d].blocks :
                   \/ ReadSector(d, lba)
                   \/ \E v \in SectorValues : WriteSector(d, lba, Sector(v))
             \/ FlushDevice(d) \/ MountVirtual(d) \/ UnmountVirtual(d)
       \/ \E file \in DOMAIN d_files :
             ReplaceFile(file, << >>) \/ \E v \in SectorValues : ReplaceFile(file, << Sector(v) >>)

VdiskSpec == VdiskInit /\ [][VdiskNext]_vdiskVars

-----------------------------------------------------------------------------
(* However slots are used again: what is written through a device goes to  *)
(* the image it was registered for; what is read through the device that   *)
(* its slot has now is what the image holds, and a VHD can be checked and  *)
(* attached again, as long as nobody else has written the file, no write   *)
(* has failed, and it is not attached a second time under another spelling *)
(* of its path.                                                            *)
ImagesKept ==
    /\ d_answer.op = "write" => d_answer.file = d_devices[d_answer.device].file
    /\ d_answer.op = "read" =>
          LET d == d_answer.device IN
          SlotOf(d).active /\ SlotOf(d).device = d /\ ImageOf(d) \notin d_touched =>
             d_answer.value = d_files[ImageOf(d)][d_answer.lba]
    /\ \A s \in ActiveSlots :
          FileOf[d_slots[s].path] \notin d_touched /\ d_slots[s].format = "vhd-fixed" =>
             VirtualDiskCheck(s)

=============================================================================
