----------------------------- MODULE MountRace -----------------------------
(***************************************************************************)
(* Threads that open, close and unmount on one mount at the same time:     *)
(* the steps inside vfs_open, vfs_close and vfs_unmount of src/kernel/     *)
(* vfs.c and the functions of src/kernel/filesystem.c they call.  A        *)
(* section under the mount's lock is one step; what the code reads before  *)
(* it takes the lock is a step of its own.  The threads are preemptive, as *)
(* on the boot path that enables preemption and runs the desktop in two    *)
(* threads.                                                                *)
(***************************************************************************)
EXTENDS Naturals

CONSTANTS
    Threads,
    MaxGeneration    \* bound on the number of mounts

VARIABLES
    mount,       \* [active, references, generation] of the slot
    volume,      \* the volume table entry names the mount
    handle,      \* handle[t]: the generation of t's open handle, 0 if none
    pc           \* where each thread is

vars == <<mount, volume, handle, pc>>

Init ==
    /\ mount = [active |-> TRUE, references |-> 0, generation |-> 1]
    /\ volume = TRUE
    /\ handle = [t \in Threads |-> 0]
    /\ pc = [t \in Threads |-> "idle"]

Goto(t, from, to) == pc[t] = from /\ pc' = [pc EXCEPT ![t] = to]

-----------------------------------------------------------------------------
(* vfs_open: the path leads to the mount and the file is there, the mount  *)
(* is acquired, a handle is filled in.                                     *)

Find(t) ==
    /\ volume /\ mount.active /\ handle[t] = 0
    /\ Goto(t, "idle", "found")
    /\ UNCHANGED <<mount, volume, handle>>

(* filesystem_mount_acquire looks at active under the lock.                *)
Acquire(t) ==
    /\ Goto(t, "found", IF mount.active THEN "acquired" ELSE "idle")
    /\ mount' = IF mount.active THEN [mount EXCEPT !.references = @ + 1] ELSE mount
    /\ UNCHANGED <<volume, handle>>

Remember(t) ==
    /\ Goto(t, "acquired", "idle")
    /\ handle' = [handle EXCEPT ![t] = mount.generation]
    /\ UNCHANGED <<mount, volume>>

-----------------------------------------------------------------------------
(* vfs_close frees the handle, then releases the mount.                    *)

Forget(t) ==
    /\ handle[t] # 0
    /\ Goto(t, "idle", "release")
    /\ handle' = [handle EXCEPT ![t] = 0]
    /\ UNCHANGED <<mount, volume>>

Release(t) ==
    /\ Goto(t, "release", "idle")
    /\ mount' = IF mount.active /\ mount.references # 0
                THEN [mount EXCEPT !.references = @ - 1] ELSE mount
    /\ UNCHANGED <<volume, handle>>

-----------------------------------------------------------------------------
(* vfs_unmount.  filesystem_unmount looks at active and reference_count    *)
(* first and takes the lock afterwards.                                    *)

CheckIdle(t) ==
    /\ volume /\ mount.active /\ mount.references = 0
    /\ Goto(t, "idle", "destroy")
    /\ UNCHANGED <<mount, volume, handle>>

Destroy(t) ==
    /\ Goto(t, "destroy", "drop")
    /\ mount' = [mount EXCEPT !.active = FALSE]
    /\ UNCHANGED <<volume, handle>>

Drop(t) ==
    /\ Goto(t, "drop", "idle")
    /\ volume' = FALSE
    /\ UNCHANGED <<mount, handle>>

(* vfs_mount_device mounts the volume again, in the same slot.             *)
MountAgain(t) ==
    /\ Goto(t, "idle", "idle")
    /\ ~mount.active /\ ~volume
    /\ mount.generation < MaxGeneration
    /\ mount' = [active |-> TRUE, references |-> 0, generation |-> mount.generation + 1]
    /\ volume' = TRUE
    /\ UNCHANGED handle

Next ==
    \E t \in Threads :
        \/ Find(t) \/ Acquire(t) \/ Remember(t) \/ Forget(t) \/ Release(t)
        \/ CheckIdle(t) \/ Destroy(t) \/ Drop(t) \/ MountAgain(t)

Spec == Init /\ [][Next]_vars

-----------------------------------------------------------------------------
(* Unmounting is refused while handles are open: an open handle's mount is *)
(* active and still the mount the handle was opened on.                    *)
BusyProtected ==
    \A t \in Threads : handle[t] # 0 => mount.active /\ mount.generation = handle[t]
=============================================================================
