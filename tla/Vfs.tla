-------------------------------- MODULE Vfs --------------------------------
(***************************************************************************)
(* The mount manager: the mount slots of src/kernel/filesystem.c and the   *)
(* volume table, path routing and file handles of src/kernel/vfs.c.  Every *)
(* call is one step: the kernel that uses them does not yield inside.      *)
(* Module MountRace looks at the steps inside the calls.                   *)
(*                                                                         *)
(* A path is the sequence of its components.  What a driver does is left   *)
(* open: it may fail to recognise or to mount a device at any time, may    *)
(* mount it read-only, may fail to sync, and may or may not know a file.   *)
(***************************************************************************)
EXTENDS Naturals, Sequences, SequencesExt, FiniteSets

CONSTANTS
    Devices,         \* the registered block devices, in registry order
    Parent,          \* Parent[d]: the disk a partition is on, or "none"
    Kind,            \* Kind[d]: "fixed", "removable" or "optical"
    MaxMounts,       \* FILESYSTEM_MAX_MOUNTS
    MaxVolumes,      \* VFS_MAX_VOLUMES
    HandleCount,     \* VFS_DISK_HANDLE_COUNT
    Generations,     \* 2 ^ 32, the modulus of next_generation
    UserPoints,      \* mount points callers ask for
    Files,           \* paths callers open
    Unplugged,       \* devices that may be reported removed
    AutoNames,       \* AutoNames[kind]: the names choose_auto_mount_point tries, in order
    Policies,        \* the flags callers mount with
    Answers          \* Answers[d]: what the drivers may answer for d

Registered == Range(Devices)
Kinds == {"fixed", "removable", "optical"}

(* The automatic names carry different numbers, so they are distinct.  The *)
(* code never runs out of them; one more than the table has entries is     *)
(* enough.                                                                 *)
ASSUME VfsAssumption ==
    /\ MaxMounts \in Nat /\ MaxVolumes \in Nat /\ HandleCount \in Nat
    /\ Generations \in Nat /\ Generations > 1
    /\ Devices \in Seq(Registered)
    /\ UserPoints \subseteq Seq(STRING) /\ Files \subseteq Seq(STRING)
    /\ Parent \in [Registered -> Registered \union {"none"}]
    /\ Kind \in [Registered -> Kinds]
    /\ AutoNames \in [Kinds -> [1 .. MaxVolumes + 1 -> Seq(STRING)]]
    /\ \A kind \in Kinds : \A j, k \in 1 .. MaxVolumes + 1 :
          AutoNames[kind][j] = AutoNames[kind][k] => j = k
    /\ Unplugged \subseteq Registered
    /\ Policies \subseteq [read_only : BOOLEAN, no_exec : BOOLEAN]
    /\ Answers \in [Registered -> SUBSET {"unknown", "fails", "mounts", "read_only"}]

VARIABLES
    mounts,            \* the mount slots
    next_generation,
    volumes,           \* vfs_volumes, with vfs_mounts as the field mount
    disk_handles,
    write_protected,   \* devices with BLOCK_DEVICE_FLAG_READ_ONLY
    result             \* what the last read or remount did

vars == <<mounts, next_generation, volumes, disk_handles, write_protected, result>>
tables == <<mounts, next_generation, volumes>>

Slots == 1 .. MaxMounts
Handles == 1 .. HandleCount
NoMount == [active |-> FALSE]
NoHandle == [used |-> FALSE]
NoResult == [op |-> "none"]
ReadWrite == [read_only |-> FALSE, no_exec |-> FALSE]

Root == << >>
System == <<"system">>
Media == <<"media">>

First(S) == CHOOSE s \in S : \A r \in S : s <= r

-----------------------------------------------------------------------------
(* filesystem.c.  The tables are passed around as one record; full is set  *)
(* when a volume found no entry.                                           *)

Tables == [mounts |-> mounts, next |-> next_generation, volumes |-> volumes,
           full |-> FALSE]

Becomes(t) ==
    /\ mounts' = t.mounts
    /\ next_generation' = t.next
    /\ volumes' = t.volumes

FreeSlots(t) == {s \in Slots : ~t.mounts[s].active}

NextGeneration(g) == IF (g + 1) % Generations = 0 THEN 1 ELSE (g + 1) % Generations

(* filesystem_device_is_mounted: the device, or a partition of it          *)
DeviceIsMounted(t, d) ==
    \E s \in Slots : /\ t.mounts[s].active
                     /\ t.mounts[s].device = d \/ Parent[t.mounts[s].device] = d

(* filesystem_mount, by a driver that answers outcome: "fails", "mounts",  *)
(* or "read_only", when it mounts but allows no writing.                   *)
FilesystemMount(t, d, flags, outcome) ==
    [t EXCEPT
        !.next = NextGeneration(@),
        !.mounts = IF outcome = "fails" THEN @
                   ELSE [@ EXCEPT ![First(FreeSlots(t))] =
                          [active |-> TRUE, device |-> d, generation |-> t.next,
                           references |-> 0,
                           read_only |-> flags.read_only \/ outcome = "read_only",
                           no_exec |-> flags.no_exec]]]

(* filesystem_unmount refuses a busy mount; otherwise the driver may fail  *)
(* to sync, and then nothing changes.                                      *)
(* Faulty variant: a busy mount is not refused.                            *)
CanUnmountBusy(t, s) == s # 0 /\ t.mounts[s].active

CanUnmount(t, s) == s # 0 /\ t.mounts[s].active /\ t.mounts[s].references = 0

FilesystemUnmount(t, s) == [t EXCEPT !.mounts[s] = NoMount]

-----------------------------------------------------------------------------
(* vfs.c: the volume table                                                 *)

ValidVolumes(t) == {v \in DOMAIN t.volumes : t.volumes[v].valid}

(* The first volume entry not in use, which may be the one after the last. *)
VolumeSlot(t) == First((1 .. Len(t.volumes) + 1) \ ValidVolumes(t))

SetVolume(t, v, volume) ==
    [t EXCEPT !.volumes = IF v <= Len(@) THEN [@ EXCEPT ![v] = volume]
                                         ELSE Append(@, volume)]

(* A volume entry that is given up keeps its mount point as a stale text.  *)
Released(volume) ==
    [valid |-> FALSE, mount |-> 0, mount_point |-> volume.mount_point]

Volume(t, s, point, protected) ==
    LET m == t.mounts[s] IN
    [valid |-> TRUE, mount |-> s, mount_point |-> point, device |-> m.device,
     read_only |-> m.read_only \/ protected, no_exec |-> m.no_exec]

(* The rest of a mount: the new mount, in slot s, gets a volume entry, or  *)
(* is undone when there is none left.                                      *)
AddVolume(t, s, Point(_), protected) ==
    LET v == VolumeSlot(t) IN
    IF v > MaxVolumes THEN [FilesystemUnmount(t, s) EXCEPT !.full = TRUE]
                      ELSE SetVolume(t, v, Volume(t, s, Point(v), protected))

PointInUse(t, point) ==
    \E v \in ValidVolumes(t) : t.volumes[v].mount_point = point

(* choose_auto_mount_point: the first name of the device's kind not in     *)
(* use.  The entry v of the new volume is valid already and still has the  *)
(* mount point of the volume that had it before, so that name counts as in *)
(* use.                                                                    *)
AutoPoint(t, d, v) ==
    LET names == AutoNames[Kind[d]]
        Stale(name) == v <= Len(t.volumes) /\ t.volumes[v].mount_point = name IN
    names[First({n \in DOMAIN names : ~PointInUse(t, names[n]) /\ ~Stale(names[n])})]

(* One device of vfs_mount_all_volumes.  outcome[d] is "unknown" when no   *)
(* driver recognises the device.  The loop over the devices ends with the  *)
(* first one that finds the volume table full.                             *)
MountAuto(t, d, outcome, protected) ==
    LET mounted == FilesystemMount(t, d, ReadWrite, outcome[d])
        Point(v) == IF v = 1 THEN System ELSE AutoPoint(t, d, v) IN
    IF \/ t.full
       \/ DeviceIsMounted(t, d)
       \/ Parent[d] = "none" /\ \E p \in Registered : Parent[p] = d
       \/ outcome[d] = "unknown"
       \/ FreeSlots(t) = {}
    THEN t
    ELSE IF outcome[d] = "fails" THEN mounted
    ELSE AddVolume(mounted, First(FreeSlots(t)), Point, d \in protected)

Outcomes ==
    {o \in [Registered -> UNION {Answers[d] : d \in Registered}] :
        \A d \in Registered : o[d] \in Answers[d]}

(* The tables after the first n devices, and after all of them             *)
MountedUpTo(t, outcome, protected) ==
    LET upTo[n \in 0 .. Len(Devices)] ==
            IF n = 0 THEN t ELSE MountAuto(upTo[n - 1], Devices[n], outcome, protected)
    IN upTo

MountAllVolumes(t, outcome, protected) ==
    MountedUpTo(t, outcome, protected)[Len(Devices)]

(* Neither mount point may be inside the other.                            *)
Overlaps(p, q) == IsPrefix(p, q) \/ IsPrefix(q, p)

CanMountAt(t, d, point) ==
    /\ point \notin {Root, Media}
    /\ \A v \in ValidVolumes(t) : ~Overlaps(point, t.volumes[v].mount_point)
    /\ ~DeviceIsMounted(t, d)
    /\ FreeSlots(t) # {}

(* vfs_mount_device, when its checks and the driver's let it through.      *)
MountDevice(t, d, point, flags, outcome) ==
    LET mounted == FilesystemMount(t, d, flags, outcome)
        Point(v) == point IN
    IF ~CanMountAt(t, d, point) \/ outcome = "unknown" THEN t
    ELSE IF outcome = "fails" THEN mounted
    ELSE AddVolume(mounted, First(FreeSlots(t)), Point, FALSE)

(* Faulty variant: the entry of an unmounted volume stays valid.           *)
UnmountVolumeStale(t, v) == FilesystemUnmount(t, t.volumes[v].mount)

UnmountVolume(t, v) ==
    SetVolume(FilesystemUnmount(t, t.volumes[v].mount), v, Released(t.volumes[v]))

-----------------------------------------------------------------------------
(* vfs.c: routing and handles                                              *)

DiskNames == <<"disk0", "disk1", "disk2", "disk3", "disk4", "disk5", "disk6", "disk7">>

(* vfs_mount_for_path: the longest mount point that is a prefix, then the  *)
(* name /diskN, then the system volume; 0 when that has no mount.          *)
MountForPath(path) ==
    LET matching == {v \in ValidVolumes(Tables) : IsPrefix(volumes[v].mount_point, path)}
        best == CHOOSE v \in matching : \A w \in matching :
                   \/ Len(volumes[v].mount_point) > Len(volumes[w].mount_point)
                   \/ /\ Len(volumes[v].mount_point) = Len(volumes[w].mount_point)
                      /\ v <= w
        alias == {v \in ValidVolumes(Tables) :
                    v <= Len(DiskNames) /\ path # Root /\ Head(path) = DiskNames[v]}
    IN  IF matching # {} THEN volumes[best].mount
        ELSE IF alias # {} THEN volumes[First(alias)].mount
        ELSE IF volumes = << >> THEN 0 ELSE volumes[1].mount

(* vfs_open: the mount that holds the file is acquired, and a free handle  *)
(* remembers it.  Without a mount one of the old single-volume drivers     *)
(* answers.  An open that fails leaves everything as it was.               *)
Open(path) ==
    LET s == MountForPath(path)
        free == {h \in Handles : ~disk_handles[h].used} IN
    /\ free # {}
    /\ s # 0 => mounts[s].active
    /\ mounts' = IF s = 0 THEN mounts ELSE [mounts EXCEPT ![s].references = @ + 1]
    /\ disk_handles' = [disk_handles EXCEPT ![First(free)] =
          [used |-> TRUE, path |-> path, mount |-> s,
           generation |-> IF s = 0 THEN 0 ELSE mounts[s].generation]]
    /\ result' = NoResult
    /\ UNCHANGED <<next_generation, volumes, write_protected>>

(* vfs_close, with filesystem_mount_release                                *)
Close(h) ==
    LET s == disk_handles[h].mount IN
    /\ disk_handles[h].used
    /\ disk_handles' = [disk_handles EXCEPT ![h] = NoHandle]
    /\ mounts' = IF s # 0 /\ mounts[s].active /\ mounts[s].references # 0
                 THEN [mounts EXCEPT ![s].references = @ - 1] ELSE mounts
    /\ result' = NoResult
    /\ UNCHANGED <<next_generation, volumes, write_protected>>

(* vfs_read routes the path of the handle again.                           *)
Read(h) ==
    LET s == MountForPath(disk_handles[h].path)
        opened == disk_handles[h].mount IN
    /\ disk_handles[h].used
    /\ opened # 0 => /\ mounts[opened].active
                     /\ mounts[opened].generation = disk_handles[h].generation
                     /\ s = opened
    /\ s # 0 => mounts[s].active
    /\ result' = [op |-> "read", handle |-> h, served |-> s]
    /\ UNCHANGED <<tables, disk_handles, write_protected>>

-----------------------------------------------------------------------------
(* vfs.c: mounting and unmounting                                          *)

Rescan(outcome) ==
    /\ Becomes(MountAllVolumes(Tables, outcome, write_protected))
    /\ result' = NoResult
    /\ UNCHANGED <<disk_handles, write_protected>>

Mount(d, point, flags, outcome) ==
    /\ Becomes(MountDevice(Tables, d, point, flags, outcome))
    /\ result' = NoResult
    /\ UNCHANGED <<disk_handles, write_protected>>

(* The first volume mounted there, for vfs_unmount and vfs_remount.        *)
VolumesAt(point) ==
    IF point \in {Root, System} THEN {}
    ELSE {v \in ValidVolumes(Tables) : volumes[v].mount_point = point}

Unmount(point) ==
    LET v == First(VolumesAt(point)) IN
    /\ VolumesAt(point) # {}
    /\ CanUnmount(Tables, volumes[v].mount)
    /\ Becomes(UnmountVolume(Tables, v))
    /\ result' = NoResult
    /\ UNCHANGED <<disk_handles, write_protected>>

(* Faulty variant: the second attempt forgets the old read-only flag.      *)
RemountWritable(point, flags, outcome, second) ==
    LET v == First(VolumesAt(point))
        old == volumes[v]
        gone == UnmountVolume(Tables, v)
        new == MountDevice(gone, old.device, point, flags, outcome)
        ok == new.volumes # gone.volumes IN
    /\ VolumesAt(point) # {}
    /\ CanUnmount(Tables, old.mount)
    /\ Becomes(IF ok THEN new
               ELSE MountDevice([new EXCEPT !.full = FALSE], old.device, point,
                                ReadWrite, second))
    /\ result' = [op |-> "remount", ok |-> ok]
    /\ UNCHANGED <<disk_handles, write_protected>>

(* vfs_remount: unmount, mount with the new policy, and if that fails try  *)
(* once more with the old read-only flag.                                  *)
Remount(point, flags, outcome, second) ==
    LET v == First(VolumesAt(point))
        old == volumes[v]
        gone == UnmountVolume(Tables, v)
        new == MountDevice(gone, old.device, point, flags, outcome)
        ok == new.volumes # gone.volumes IN
    /\ VolumesAt(point) # {}
    /\ CanUnmount(Tables, old.mount)
    /\ Becomes(IF ok THEN new
               ELSE MountDevice([new EXCEPT !.full = FALSE], old.device, point,
                                [ReadWrite EXCEPT !.read_only = old.read_only], second))
    /\ result' = [op |-> "remount", ok |-> ok]
    /\ UNCHANGED <<disk_handles, write_protected>>

(* vfs_handle_device_removed: the volumes on the device are locked down,   *)
(* and unmounted unless busy or their sync fails.                          *)
DeviceRemoved(d, synced) ==
    LET affected == {v \in ValidVolumes(Tables) :
                       \/ volumes[v].device = d \/ Parent[volumes[v].device] = d}
        unmounted == {v \in affected \intersect synced :
                         mounts[volumes[v].mount].references = 0}
        SlotsOf(V) == {volumes[v].mount : v \in V} IN
    /\ mounts' = [s \in Slots |->
          IF s \in SlotsOf(unmounted) THEN NoMount
          ELSE IF s \in SlotsOf(affected)
          THEN [mounts[s] EXCEPT !.read_only = TRUE, !.no_exec = TRUE]
          ELSE mounts[s]]
    /\ volumes' = [v \in DOMAIN volumes |->
          IF v \in unmounted THEN Released(volumes[v])
          ELSE IF v \in affected
          THEN [volumes[v] EXCEPT !.read_only = TRUE, !.no_exec = TRUE]
          ELSE volumes[v]]
    /\ write_protected' = write_protected \union {d}
    /\ result' = NoResult
    /\ UNCHANGED <<next_generation, disk_handles>>

-----------------------------------------------------------------------------
(* vfs_initialize: tables empty, handles reset, then everything that can   *)
(* be mounted is.                                                          *)
Init ==
    /\ write_protected = {d \in Registered : Kind[d] = "optical"}
    /\ \E outcome \in Outcomes :
          LET t == MountAllVolumes([mounts |-> [s \in Slots |-> NoMount], next |-> 1,
                                    volumes |-> << >>, full |-> FALSE],
                                   outcome, write_protected)
          IN  mounts = t.mounts /\ next_generation = t.next /\ volumes = t.volumes
    /\ disk_handles = [h \in Handles |-> NoHandle]
    /\ result = NoResult

Next ==
    \/ \E path \in Files : Open(path)
    \/ \E h \in Handles : Close(h) \/ Read(h)
    \/ \E outcome \in Outcomes : Rescan(outcome)
    \/ \E d \in Registered, point \in UserPoints, flags \in Policies : \E a \in Answers[d] :
          Mount(d, point, flags, a)
    \/ \E point \in UserPoints : Unmount(point)
    \/ \E point \in UserPoints, flags \in Policies :
        \E v \in VolumesAt(point) : \E a, b \in Answers[volumes[v].device] :
          Remount(point, flags, a, b)
    \/ \E d \in Unplugged, synced \in SUBSET (DOMAIN volumes) : DeviceRemoved(d, synced)

Spec == Init /\ [][Next]_vars

-----------------------------------------------------------------------------
(* Properties.                                                             *)

ActiveMounts == {s \in Slots : mounts[s].active}
OpenOn(s) == {h \in Handles : disk_handles[h].used /\ disk_handles[h].mount = s}
Valid == ValidVolumes(Tables)

(* Type correctness of the mount slots, the volume table and the handles.  *)
TypeOK ==
    /\ next_generation \in 1 .. Generations - 1
    /\ \A s \in ActiveMounts :
          mounts[s] \in [active : {TRUE}, device : Registered, generation : Nat,
                         references : Nat, read_only : BOOLEAN, no_exec : BOOLEAN]
    /\ Len(volumes) <= MaxVolumes
    /\ \A v \in Valid : volumes[v].mount \in Slots
    /\ \A h \in Handles : disk_handles[h].used => disk_handles[h].mount \in Slots \union {0}
    /\ write_protected \subseteq Registered

(* Busy-handle protection rests on this: a mount counts exactly the open   *)
(* handles on it, and an open handle's mount is still the mount it was     *)
(* opened on, with the same generation, whatever was unmounted, remounted, *)
(* removed or mounted again in between.                                    *)
HandlesCounted ==
    /\ \A s \in ActiveMounts : mounts[s].references = Cardinality(OpenOn(s))
    /\ \A s \in Slots : \A h \in OpenOn(s) :
          /\ mounts[s].active
          /\ mounts[s].generation = disk_handles[h].generation

(* The volume table and the mount slots, kept by two different files, tell *)
(* the same story: valid volumes and active mounts correspond one to one,  *)
(* no device is mounted twice, and a volume never shows a weaker policy    *)
(* than the one its mount enforces.                                        *)
VolumesMatchMounts ==
    /\ {volumes[v].mount : v \in Valid} = ActiveMounts
    /\ \A v, w \in Valid : v # w => /\ volumes[v].mount # volumes[w].mount
                                    /\ volumes[v].device # volumes[w].device
    /\ \A v \in Valid : LET m == mounts[volumes[v].mount] IN
          /\ m.device = volumes[v].device
          /\ m.no_exec = volumes[v].no_exec
          /\ m.read_only => volumes[v].read_only

(* Two volumes never share a mount point.  The exception is /system: when  *)
(* the system device has been removed, /system can be mounted by hand and  *)
(* given again to the next volume that takes the first table entry.        *)
PointsDistinct ==
    \A v, w \in Valid :
        volumes[v].mount_point = volumes[w].mount_point => v = w \/ volumes[v].mount_point = System

(* A read is served by the mount the handle was opened on, even when a     *)
(* volume mounted since has taken over the path; only a handle opened      *)
(* without any mount follows the path to wherever it leads now.            *)
ReadsOwnMount ==
    result.op = "read" /\ disk_handles[result.handle].mount # 0 =>
        result.served = disk_handles[result.handle].mount

(* The two tables agree for those who mount and unmount.                   *)
VolumesSound == VolumesMatchMounts /\ PointsDistinct

(* They agree for those who hold files: an open handle keeps its mount,    *)
(* and reads of nothing else.                                              *)
HandlesSound == HandlesCounted /\ ReadsOwnMount

(* A remount that fails never leaves a read-only volume writable: if the   *)
(* fallback mounted it again, it is read-only again.                       *)
FailedRemountStep ==
    result'.op = "remount" /\ ~result'.ok =>
        \A v \in Valid : \A w \in Valid' :
            volumes[v].device = volumes'[w].device /\ volumes[v].read_only
                => volumes'[w].read_only

FailedRemountKeepsReadOnly == [][FailedRemountStep]_vars
=============================================================================
