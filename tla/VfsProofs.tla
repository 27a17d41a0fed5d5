----------------------------- MODULE VfsProofs -----------------------------
(***************************************************************************)
(* What is proved of the mount manager: for any number of devices, mount   *)
(* slots and handles, and whatever the drivers answer, the mount slots and *)
(* the volume table correspond, an open handle keeps its mount, and a      *)
(* remount that fails leaves no read-only volume writable.                 *)
(*                                                                         *)
(* The calls work on one record of all tables and change it several times, *)
(* so the invariant is stated of the tables (m the mount slots, vs the     *)
(* volume table, hs the handles), not only of the variables.               *)
(*                                                                         *)
(* And of the virtual disks, in the last part: for any images, slots and   *)
(* devices, what is written through a device is in the image it was        *)
(* registered for, and what is read through one in use is what the image   *)
(* holds.                                                                  *)
(***************************************************************************)
EXTENDS MCVfs, FiniteSetTheorems, SequenceTheorems, WellFoundedInduction, TLAPS

(* A non-empty set of numbers has a least one.                             *)
LEMMA LeastNumber ==
    ASSUME NEW T, T \subseteq Nat, T # {}
    PROVE  \E n \in T : \A m \in T : n <= m
<1>1. PICK n \in T : \A m \in T : ~ (<<m, n>> \in OpToRel(<, Nat))
  BY NatLessThanWellFounded, WFMin
<1>2. \A m \in T : ~ (m < n)
  BY <1>1 DEF OpToRel
<1> QED BY <1>2

(* The searches for the first free entry find one if there is one.         *)
LEMMA FirstIn ==
    ASSUME NEW T, T \subseteq Nat, T # {}
    PROVE  First(T) \in T
  BY LeastNumber DEF First

-----------------------------------------------------------------------------
(* The invariant                                                           *)

MountSet == [active : {TRUE}, device : Registered, generation : Nat, references : Nat,
             read_only : BOOLEAN, no_exec : BOOLEAN]

IsVolume(x) ==
    x \in [valid : {TRUE}, mount : Slots, mount_point : {x.mount_point},
           device : Registered, read_only : BOOLEAN, no_exec : BOOLEAN]

IsReleased(x) == x.valid = FALSE /\ x.mount = 0

IsSeq(vs) == \E S : vs \in Seq(S)

Typed(m, vs, hs) ==
    /\ m \in [Slots -> MountSet \union {NoMount}]
    /\ IsSeq(vs)
    /\ \A v \in 1 .. Len(vs) : IsReleased(vs[v]) \/ IsVolume(vs[v])
    /\ hs = [h \in Handles |-> hs[h]]

(* A valid volume and its mount                                            *)
Fits(m, x) ==
    /\ m[x.mount].active
    /\ m[x.mount].device = x.device
    /\ m[x.mount].no_exec = x.no_exec
    /\ m[x.mount].read_only => x.read_only

Covered(m, vs) ==
    \A s \in Slots : m[s].active => \E v \in 1 .. Len(vs) : vs[v].valid /\ vs[v].mount = s

AllFit(m, vs) == \A v \in 1 .. Len(vs) : vs[v].valid => Fits(m, vs[v])

Distinct(vs) ==
    \A v, w \in 1 .. Len(vs) :
        vs[v].valid /\ vs[w].valid /\ v # w =>
            vs[v].mount # vs[w].mount /\ vs[v].device # vs[w].device

Matching(m, vs) == Covered(m, vs) /\ AllFit(m, vs) /\ Distinct(vs)

OpenAt(hs, s) == {h \in Handles : hs[h].used /\ hs[h].mount = s}

Counted(m, hs) ==
    /\ \A s \in Slots : m[s].active => m[s].references = Cardinality(OpenAt(hs, s))
    /\ \A s \in Slots : \A h \in OpenAt(hs, s) :
          m[s].active /\ m[s].generation = hs[h].generation

Good(m, vs, hs) == Typed(m, vs, hs) /\ Matching(m, vs) /\ Counted(m, hs)

(* Mount points: they fit into the table, and no two are the same but for  *)
(* /system.                                                                *)
Pointed(vs) ==
    /\ Len(vs) <= MaxVolumes
    /\ \A v \in 1 .. Len(vs) : vs[v].valid => Len(vs[v].mount_point) \in Nat
    /\ \A v, w \in 1 .. Len(vs) :
          vs[v].valid /\ vs[w].valid /\ v # w /\ vs[v].mount_point = vs[w].mount_point =>
              vs[v].mount_point = System

VfsInv ==
    /\ Good(mounts, volumes, disk_handles) /\ Pointed(volumes)
    /\ next_generation \in Nat
    /\ \A h \in Handles : disk_handles[h].used => disk_handles[h].mount \in Slots \union {0}
    /\ ReadsOwnMount

-----------------------------------------------------------------------------
(* The volume table with x in entry v, which may be the one after the last *)
Put(vs, v, x) == IF v <= Len(vs) THEN [vs EXCEPT ![v] = x] ELSE Append(vs, x)

(* The other entries stay as they are.                                     *)
LEMMA PutIs ==
    ASSUME NEW vs, IsSeq(vs), NEW n \in Nat, n = Len(vs), NEW v \in 1 .. n + 1, NEW x,
           NEW p, p = Put(vs, v, x)
    PROVE  /\ IsSeq(p)
           /\ Len(p) \in Nat /\ Len(p) = (IF v = n + 1 THEN n + 1 ELSE n)
           /\ p[v] = x
           /\ \A w \in 1 .. n : w # v => p[w] = vs[w]
<1>1. PICK S : vs \in Seq(S)
  BY DEF IsSeq
<1>2. PICK T : T = S \union {x}
  OBVIOUS
<1>3. vs \in Seq(T) /\ x \in T
  BY <1>1, <1>2
<1>4. CASE v <= n
  <2>1. p = [vs EXCEPT ![v] = x]
    BY <1>4 DEF Put
  <2>2. p \in Seq(T) /\ Len(p) = n /\ p[v] = x /\ \A w \in 1 .. n : w # v => p[w] = vs[w]
    <3>1. vs \in [1 .. n -> T]
      BY <1>3
    <3>2. p \in [1 .. n -> T] /\ p[v] = x /\ \A w \in 1 .. n : w # v => p[w] = vs[w]
      BY <1>3, <1>4, <2>1, <3>1
    <3> QED BY <3>2
  <2> QED BY <1>4, <2>2 DEF IsSeq
<1>5. CASE ~(v <= n)
  <2>1. p = Append(vs, x) /\ v = n + 1
    BY <1>5 DEF Put
  <2>2. p \in Seq(T) /\ Len(p) = n + 1 /\ p[n + 1] = x /\ \A w \in 1 .. n : p[w] = vs[w]
    BY <1>3, <2>1, AppendProperties
  <2> QED BY <2>1, <2>2 DEF IsSeq
<1> QED BY <1>4, <1>5

(* An open handle is on an active mount, so a slot that is free, or whose  *)
(* count is zero, has none.                                                *)
LEMMA NoneOpen ==
    ASSUME NEW m, NEW hs, Counted(m, hs), NEW s \in Slots,
           ~m[s].active \/ m[s].references = 0
    PROVE  OpenAt(hs, s) = {}
<1>1. CASE ~m[s].active
  BY <1>1 DEF Counted
<1>2. CASE m[s].active /\ m[s].references = 0
  <2>1. Cardinality(OpenAt(hs, s)) = 0
    BY <1>2 DEF Counted
  <2>2. IsFiniteSet(OpenAt(hs, s))
    <3>1. IsFiniteSet(Handles)
      BY FS_Interval, VfsAssumption DEF Handles
    <3> QED BY <3>1, FS_Subset DEF OpenAt
  <2> QED BY <2>1, <2>2, FS_EmptySet
<1> QED BY <1>1, <1>2

(* A new mount and its volume                                              *)
LEMMA MountedGood ==
    ASSUME NEW m, NEW vs, NEW hs, Good(m, vs, hs),
           NEW s \in Slots, ~m[s].active,
           NEW r \in MountSet, r.references = 0, r.active,
           \A q \in Slots : m[q].active => m[q].device # r.device,
           NEW v \in 1 .. Len(vs) + 1, v <= Len(vs) => ~vs[v].valid,
           NEW x, IsVolume(x), x.valid, x.mount = s, x.device = r.device, x.no_exec = r.no_exec,
           r.read_only => x.read_only,
           NEW mm, mm = [m EXCEPT ![s] = r], NEW p, p = Put(vs, v, x)
    PROVE  Good(mm, p, hs)
<1>1. PICK n \in Nat : n = Len(vs) /\ IsSeq(vs)
  <2>1. PICK S : vs \in Seq(S)
    BY DEF Good, Typed, IsSeq
  <2> QED BY <2>1 DEF Good, Typed
<1>2. PICK l \in Nat : l = Len(p) /\ (v = n + 1 => l = n + 1) /\ (v # n + 1 => l = n) /\ v \in 1 .. l
  <2>1. Len(p) \in Nat /\ Len(p) = (IF v = n + 1 THEN n + 1 ELSE n)
    BY <1>1, PutIs
  <2>2. PICK l \in Nat : l = Len(p)
    BY <2>1
  <2> QED BY <1>1, <2>1, <2>2
<1>3. /\ IsSeq(p) /\ p[v] = x
      /\ \A w \in 1 .. n : w # v => p[w] = vs[w]
  BY <1>1, PutIs, SMTT(30)
<1>4. \A w \in 1 .. l : w # v => w \in 1 .. n /\ p[w] = vs[w]
  BY <1>1, <1>2, <1>3
<1>5. /\ m \in [Slots -> MountSet \union {NoMount}]
      /\ \A w \in 1 .. n : IsReleased(vs[w]) \/ IsVolume(vs[w])
      /\ hs = [h \in Handles |-> hs[h]]
  BY <1>1 DEF Good, Typed
<1>6. /\ mm \in [Slots -> MountSet \union {NoMount}] /\ mm[s] = r
      /\ \A q \in Slots : q # s => mm[q] = m[q]
  BY <1>5
<1>7. Typed(mm, p, hs)
  <2>1. \A w \in 1 .. l : IsReleased(p[w]) \/ IsVolume(p[w])
    BY <1>3, <1>4, <1>5
  <2> QED BY <1>2, <1>3, <1>5, <1>6, <2>1 DEF Typed
<1>8. /\ \A q \in Slots : m[q].active => \E w \in 1 .. n : vs[w].valid /\ vs[w].mount = q
      /\ \A w \in 1 .. n : vs[w].valid => Fits(m, vs[w])
      /\ \A u, w \in 1 .. n : vs[u].valid /\ vs[w].valid /\ u # w =>
              vs[u].mount # vs[w].mount /\ vs[u].device # vs[w].device
  BY <1>1 DEF Good, Matching, Covered, AllFit, Distinct
<1>9. \A w \in 1 .. n : vs[w].valid =>
          vs[w].mount \in Slots /\ vs[w].mount # s /\ vs[w].device # r.device
  <2> SUFFICES ASSUME NEW w \in 1 .. n, vs[w].valid
               PROVE  vs[w].mount \in Slots /\ vs[w].mount # s /\ vs[w].device # r.device
    OBVIOUS
  <2>1. vs[w].mount \in Slots
    BY <1>5 DEF IsReleased, IsVolume
  <2>2. m[vs[w].mount].active /\ m[vs[w].mount].device = vs[w].device
    BY <1>8 DEF Fits
  <2> QED BY <2>1, <2>2
<1>10. Matching(mm, p)
  <2>1. ASSUME NEW q \in Slots, mm[q].active
        PROVE  \E w \in 1 .. l : p[w].valid /\ p[w].mount = q
    <3>1. CASE q = s
      BY <1>2, <1>3, <3>1
    <3>2. CASE q # s
      <4>1. PICK w \in 1 .. n : vs[w].valid /\ vs[w].mount = q
        BY <1>6, <1>8, <2>1, <3>2
      <4>2. w # v /\ w \in 1 .. l
        BY <1>1, <1>2, <4>1
      <4> QED BY <1>3, <4>1, <4>2
    <3> QED BY <3>1, <3>2
  <2>2. ASSUME NEW w \in 1 .. l, p[w].valid PROVE Fits(mm, p[w])
    <3>1. CASE w = v
      BY <1>3, <1>6, <3>1 DEF Fits
    <3>2. CASE w # v
      <4>1. w \in 1 .. n /\ p[w] = vs[w] /\ vs[w].valid
        BY <1>4, <2>2, <3>2
      <4>2. Fits(m, vs[w]) /\ mm[vs[w].mount] = m[vs[w].mount]
        BY <1>6, <1>8, <1>9, <4>1
      <4> QED BY <4>1, <4>2 DEF Fits
    <3> QED BY <3>1, <3>2
  <2>3. ASSUME NEW u \in 1 .. l, NEW w \in 1 .. l, p[u].valid, p[w].valid, u # w
        PROVE  p[u].mount # p[w].mount /\ p[u].device # p[w].device
    <3>1. CASE u = v
      <4>1. w \in 1 .. n /\ p[w] = vs[w] /\ vs[w].valid
        BY <1>4, <2>3, <3>1
      <4> QED BY <1>3, <1>9, <3>1, <4>1
    <3>2. CASE w = v
      <4>1. u \in 1 .. n /\ p[u] = vs[u] /\ vs[u].valid
        BY <1>4, <2>3, <3>2
      <4> QED BY <1>3, <1>9, <3>2, <4>1
    <3>3. CASE u # v /\ w # v
      <4>1. /\ u \in 1 .. n /\ p[u] = vs[u] /\ vs[u].valid
            /\ w \in 1 .. n /\ p[w] = vs[w] /\ vs[w].valid
        BY <1>4, <2>3, <3>3
      <4> QED BY <1>8, <2>3, <4>1
    <3> QED BY <3>1, <3>2, <3>3
  <2>4. Covered(mm, p)
    BY <1>2, <2>1 DEF Covered
  <2>5. AllFit(mm, p)
    BY <1>2, <2>2 DEF AllFit
  <2>6. Distinct(p)
    BY <1>2, <2>3 DEF Distinct
  <2> QED BY <2>4, <2>5, <2>6 DEF Matching
<1>11. Counted(mm, hs)
  <2>1. Counted(m, hs)
    BY DEF Good
  <2>2. OpenAt(hs, s) = {}
    BY <2>1, NoneOpen
  <2>3. Cardinality(OpenAt(hs, s)) = 0
    BY <2>2, FS_EmptySet
  <2> QED BY <1>6, <2>1, <2>2, <2>3, ZenonT(30) DEF Counted
<1> QED BY <1>7, <1>10, <1>11 DEF Good

(* A mount that nobody uses is given up, with its volume.                  *)
LEMMA UnmountedGood ==
    ASSUME NEW m, NEW vs, NEW hs, Good(m, vs, hs),
           NEW v \in 1 .. Len(vs), vs[v].valid, NEW s, s = vs[v].mount,
           m[s].references = 0,
           NEW mm, mm = [m EXCEPT ![s] = NoMount],
           NEW p, p = Put(vs, v, Released(vs[v]))
    PROVE  Good(mm, p, hs)
<1>1. PICK n \in Nat : n = Len(vs) /\ IsSeq(vs)
  <2>1. PICK S : vs \in Seq(S)
    BY DEF Good, Typed, IsSeq
  <2> QED BY <2>1 DEF Good, Typed
<1>2. /\ m \in [Slots -> MountSet \union {NoMount}]
      /\ \A w \in 1 .. n : IsReleased(vs[w]) \/ IsVolume(vs[w])
      /\ hs = [h \in Handles |-> hs[h]]
  BY <1>1 DEF Good, Typed
<1>3. s \in Slots
  BY <1>1, <1>2 DEF IsReleased, IsVolume
<1>4. Len(p) = n
  <2>1. Len(p) \in Nat /\ Len(p) = (IF v = n + 1 THEN n + 1 ELSE n)
    BY <1>1, PutIs
  <2> QED BY <1>1, <2>1
<1>5. /\ IsSeq(p) /\ p[v] = Released(vs[v])
      /\ \A w \in 1 .. n : w # v => p[w] = vs[w]
  BY <1>1, PutIs
<1>6. IsReleased(p[v]) /\ ~p[v].valid
  BY <1>5 DEF IsReleased, Released
<1>7. /\ mm \in [Slots -> MountSet \union {NoMount}] /\ mm[s] = NoMount
      /\ \A q \in Slots : q # s => mm[q] = m[q]
  BY <1>2, <1>3
<1>8. ~mm[s].active
  BY <1>7 DEF NoMount
<1>9. Typed(mm, p, hs)
  <2>1. \A w \in 1 .. n : IsReleased(p[w]) \/ IsVolume(p[w])
    BY <1>2, <1>5, <1>6
  <2> QED BY <1>2, <1>4, <1>5, <1>7, <2>1 DEF Typed
<1>10. /\ \A q \in Slots : m[q].active => \E w \in 1 .. n : vs[w].valid /\ vs[w].mount = q
       /\ \A w \in 1 .. n : vs[w].valid => Fits(m, vs[w])
       /\ \A u, w \in 1 .. n : vs[u].valid /\ vs[w].valid /\ u # w =>
              vs[u].mount # vs[w].mount /\ vs[u].device # vs[w].device
  BY <1>1 DEF Good, Matching, Covered, AllFit, Distinct
<1>11. ASSUME NEW w \in 1 .. n, p[w].valid
       PROVE  w # v /\ p[w] = vs[w] /\ vs[w].valid /\ vs[w].mount \in Slots /\ vs[w].mount # s
  <2>1. w # v /\ p[w] = vs[w] /\ vs[w].valid
    BY <1>5, <1>6, <1>11
  <2>2. vs[w].mount \in Slots
    BY <1>2, <2>1 DEF IsReleased, IsVolume
  <2>3. v \in 1 .. n
    BY <1>1
  <2>4. vs[w].mount # s
    BY <1>10, <2>1, <2>3
  <2> QED BY <2>1, <2>2, <2>4
<1>12. Covered(mm, p)
  <2>1. ASSUME NEW q \in Slots, mm[q].active
        PROVE  \E w \in 1 .. n : p[w].valid /\ p[w].mount = q
    <3>1. q # s
      BY <1>8, <2>1
    <3>2. PICK w \in 1 .. n : vs[w].valid /\ vs[w].mount = q
      BY <1>7, <1>10, <2>1, <3>1
    <3>3. w # v
      BY <3>1, <3>2
    <3> QED BY <1>5, <3>2, <3>3
  <2> QED BY <1>4, <2>1 DEF Covered
<1>13. AllFit(mm, p)
  <2>1. ASSUME NEW w \in 1 .. n, p[w].valid PROVE Fits(mm, p[w])
    <3>1. p[w] = vs[w] /\ vs[w].valid /\ vs[w].mount \in Slots /\ vs[w].mount # s
      BY <1>11, <2>1
    <3>2. Fits(m, vs[w]) /\ mm[vs[w].mount] = m[vs[w].mount]
      BY <1>7, <1>10, <3>1
    <3> QED BY <3>1, <3>2 DEF Fits
  <2> QED BY <1>4, <2>1 DEF AllFit
<1>14. Distinct(p)
  <2>1. ASSUME NEW u \in 1 .. n, NEW w \in 1 .. n, p[u].valid, p[w].valid, u # w
        PROVE  p[u].mount # p[w].mount /\ p[u].device # p[w].device
    <3>1. /\ p[u] = vs[u] /\ vs[u].valid /\ p[w] = vs[w] /\ vs[w].valid
      BY <1>11, <2>1
    <3> QED BY <1>10, <2>1, <3>1
  <2> QED BY <1>4, <2>1 DEF Distinct
<1>15. Counted(mm, hs)
  <2>1. Counted(m, hs)
    BY DEF Good
  <2>2. OpenAt(hs, s) = {}
    BY <1>3, <2>1, NoneOpen
  <2> QED BY <1>7, <1>8, <2>1, <2>2 DEF Counted
<1> QED BY <1>9, <1>12, <1>13, <1>14, <1>15 DEF Good, Matching

-----------------------------------------------------------------------------
(* The calls, on the record of all tables                                  *)

IsTables(t) ==
    t = [mounts |-> t.mounts, next |-> t.next, volumes |-> t.volumes, full |-> t.full]

GoodTables(t, hs) ==
    /\ IsTables(t) /\ t.next \in Nat
    /\ Good(t.mounts, t.volumes, hs) /\ Pointed(t.volumes)

(* A mount point the next volume may have                                  *)
PointFree(t, p) ==
    /\ Len(p) \in Nat
    /\ \A w \in 1 .. Len(t.volumes) :
          t.volumes[w].valid /\ t.volumes[w].mount_point = p => p = System

Policy == [read_only : BOOLEAN, no_exec : BOOLEAN]

NewMount(t, d, flags, outcome) ==
    [active |-> TRUE, device |-> d, generation |-> t.next, references |-> 0,
     read_only |-> flags.read_only \/ outcome = "read_only", no_exec |-> flags.no_exec]

(* filesystem_mount changes a free slot, or only uses up a generation.     *)
LEMMA FilesystemMountIs ==
    ASSUME NEW t, IsTables(t), t.next \in Nat, NEW d, NEW flags, NEW outcome,
           NEW r, r = FilesystemMount(t, d, flags, outcome)
    PROVE  /\ IsTables(r) /\ r.next \in Nat /\ r.volumes = t.volumes /\ r.full = t.full
           /\ outcome = "fails" => r.mounts = t.mounts
           /\ outcome # "fails" =>
                 r.mounts = [t.mounts EXCEPT ![First(FreeSlots(t))] =
                                                 NewMount(t, d, flags, outcome)]
<1>1. PICK g : g = NextGeneration(t.next)
  OBVIOUS
<1>2. g \in Nat
  BY <1>1, VfsAssumption DEF NextGeneration
<1>3. PICK mm : mm = [t.mounts EXCEPT ![First(FreeSlots(t))] =
                                          NewMount(t, d, flags, outcome)]
  OBVIOUS
<1>4. r = [t EXCEPT !.next = g, !.mounts = IF outcome = "fails" THEN t.mounts ELSE mm]
  BY <1>1, <1>3 DEF FilesystemMount, IsTables, NewMount
<1>5. /\ r.next = g /\ r.mounts = (IF outcome = "fails" THEN t.mounts ELSE mm)
      /\ r.volumes = t.volumes /\ r.full = t.full
  BY <1>4 DEF IsTables
<1>6. IsTables(r)
  BY <1>4 DEF IsTables
<1> QED BY <1>2, <1>3, <1>5, <1>6

(* AddVolume, for the mount point it comes to                              *)
Added(t, s, point, protected) ==
    IF VolumeSlot(t) > MaxVolumes THEN [FilesystemUnmount(t, s) EXCEPT !.full = TRUE]
    ELSE SetVolume(t, VolumeSlot(t), Volume(t, s, point, protected))

(* What a mount does to the tables: nothing but the generation, or a new   *)
(* volume on the device, read-only if asked for.                           *)
Adds(t, r, d, read_only) ==
    \/ r.mounts = t.mounts /\ r.volumes = t.volumes
    \/ \E v \in 1 .. Len(t.volumes) + 1 : \E x :
          /\ v <= Len(t.volumes) => ~t.volumes[v].valid
          /\ x.valid /\ x.device = d
          /\ read_only => x.read_only
          /\ r.volumes = Put(t.volumes, v, x)

(* The search for a volume entry finds one that is not valid.              *)
LEMMA VolumeSlotIs ==
    ASSUME NEW t, IsSeq(t.volumes), NEW v, v = VolumeSlot(t)
    PROVE  /\ v \in 1 .. Len(t.volumes) + 1
           /\ v <= Len(t.volumes) => ~t.volumes[v].valid
<1>1. PICK n \in Nat : n = Len(t.volumes) /\ DOMAIN t.volumes = 1 .. n
  BY DEF IsSeq
<1>2. PICK T : T = (1 .. Len(t.volumes) + 1) \ ValidVolumes(t)
  OBVIOUS
<1>3. T \subseteq Nat /\ n + 1 \in T
  BY <1>1, <1>2 DEF ValidVolumes
<1>4. v \in T
  BY <1>2, <1>3, FirstIn DEF VolumeSlot
<1> QED BY <1>1, <1>2, <1>4 DEF ValidVolumes

(* A volume with a mount point of its own, or with none                    *)
LEMMA PointedPut ==
    ASSUME NEW vs, IsSeq(vs), Pointed(vs), NEW v \in 1 .. Len(vs) + 1, v <= MaxVolumes, NEW x,
           x.valid => /\ Len(x.mount_point) \in Nat
                      /\ \A w \in 1 .. Len(vs) :
                            vs[w].valid /\ vs[w].mount_point = x.mount_point =>
                                x.mount_point = System,
           NEW p, p = Put(vs, v, x)
    PROVE  Pointed(p)
<1>1. PICK n \in Nat : n = Len(vs)
  BY DEF IsSeq
<1>2. PICK l \in Nat : l = Len(p) /\ l <= MaxVolumes /\ (v = n + 1 => l = n + 1) /\ (v # n + 1 => l = n)
  <2>1. Len(p) \in Nat /\ Len(p) = (IF v = n + 1 THEN n + 1 ELSE n)
    BY <1>1, PutIs
  <2>2. PICK l \in Nat : l = Len(p)
    BY <2>1
  <2>3. n <= MaxVolumes
    BY <1>1 DEF Pointed
  <2> QED BY <1>1, <2>1, <2>2, <2>3
<1>3. /\ p[v] = x
      /\ \A w \in 1 .. n : w # v => p[w] = vs[w]
  BY <1>1, PutIs
<1>4. \A w \in 1 .. l : w # v => w \in 1 .. n /\ p[w] = vs[w]
  BY <1>1, <1>2, <1>3
<1>5. /\ \A w \in 1 .. n : vs[w].valid => Len(vs[w].mount_point) \in Nat
      /\ \A u, w \in 1 .. n :
            vs[u].valid /\ vs[w].valid /\ u # w /\ vs[u].mount_point = vs[w].mount_point =>
                vs[u].mount_point = System
  BY <1>1 DEF Pointed
<1>6. ASSUME NEW w \in 1 .. l, p[w].valid PROVE Len(p[w].mount_point) \in Nat
  <2>1. CASE w = v
    BY <1>3, <1>6, <2>1
  <2>2. CASE w # v
    BY <1>4, <1>5, <1>6, <2>2
  <2> QED BY <2>1, <2>2
<1>7. ASSUME NEW u \in 1 .. l, NEW w \in 1 .. l, p[u].valid, p[w].valid, u # w,
             p[u].mount_point = p[w].mount_point
      PROVE  p[u].mount_point = System
  <2>1. CASE u = v
    <3>1. w \in 1 .. n /\ p[w] = vs[w] /\ p[u] = x
      BY <1>3, <1>4, <1>7, <2>1
    <3> QED BY <1>1, <1>7, <3>1
  <2>2. CASE w = v
    <3>1. u \in 1 .. n /\ p[u] = vs[u] /\ p[w] = x
      BY <1>3, <1>4, <1>7, <2>2
    <3> QED BY <1>1, <1>7, <3>1
  <2>3. CASE u # v /\ w # v
    <3>1. u \in 1 .. n /\ p[u] = vs[u] /\ w \in 1 .. n /\ p[w] = vs[w]
      BY <1>4, <2>3
    <3> QED BY <1>5, <1>7, <3>1
  <2> QED BY <2>1, <2>2, <2>3
<1> QED BY <1>2, <1>6, <1>7 DEF Pointed

(* The tables after the rest of a successful mount                         *)
LEMMA AddedGood ==
    ASSUME NEW t, NEW hs, GoodTables(t, hs), NEW d \in Registered, NEW flags \in Policy,
           NEW outcome, outcome # "fails", FreeSlots(t) # {}, ~DeviceIsMounted(t, d),
           NEW point, VolumeSlot(t) <= MaxVolumes => PointFree(t, point),
           NEW protected \in BOOLEAN,
           NEW r, r = Added(FilesystemMount(t, d, flags, outcome), First(FreeSlots(t)),
                            point, protected)
    PROVE  GoodTables(r, hs) /\ Adds(t, r, d, flags.read_only)
<1>1. PICK s : s = First(FreeSlots(t))
  OBVIOUS
<1>2. s \in Slots /\ ~t.mounts[s].active
  <2>1. FreeSlots(t) \subseteq Nat
    BY DEF FreeSlots, Slots
  <2>2. s \in FreeSlots(t)
    BY <1>1, <2>1, FirstIn
  <2> QED BY <2>2 DEF FreeSlots
<1>3. PICK u : u = FilesystemMount(t, d, flags, outcome)
  OBVIOUS
<1>4. PICK c : c = NewMount(t, d, flags, outcome)
  OBVIOUS
<1>5. /\ IsTables(t) /\ t.next \in Nat /\ Good(t.mounts, t.volumes, hs) /\ Pointed(t.volumes)
  BY DEF GoodTables
<1>6. /\ IsTables(u) /\ u.next \in Nat /\ u.volumes = t.volumes
      /\ u.mounts = [t.mounts EXCEPT ![s] = c]
  BY <1>1, <1>3, <1>4, <1>5, FilesystemMountIs
<1>7. /\ c \in MountSet /\ c.active /\ c.device = d /\ c.references = 0
      /\ flags.read_only => c.read_only
  BY <1>4, <1>5 DEF MountSet, Policy, NewMount
<1>8. /\ t.mounts \in [Slots -> MountSet \union {NoMount}] /\ IsSeq(t.volumes)
  BY <1>5 DEF Good, Typed
<1>9. u.mounts[s] = c
  BY <1>2, <1>6, <1>8
<1>10. PICK v : v = VolumeSlot(u)
  OBVIOUS
<1>11. /\ v \in 1 .. Len(t.volumes) + 1
       /\ v <= Len(t.volumes) => ~t.volumes[v].valid
  BY <1>6, <1>8, <1>10, VolumeSlotIs
<1>12. r = IF v > MaxVolumes THEN [FilesystemUnmount(u, s) EXCEPT !.full = TRUE]
           ELSE SetVolume(u, v, Volume(u, s, point, protected))
  BY <1>1, <1>3, <1>10 DEF Added
<1>13. CASE v > MaxVolumes
  <2>1. r = [[u EXCEPT !.mounts[s] = NoMount] EXCEPT !.full = TRUE]
    BY <1>12, <1>13 DEF FilesystemUnmount
  <2>2. PICK mm : mm = [u.mounts EXCEPT ![s] = NoMount]
    OBVIOUS
  <2>3. /\ r.mounts = mm /\ r.volumes = u.volumes /\ r.next = u.next /\ IsTables(r)
    BY <1>6, <2>1, <2>2 DEF IsTables
  <2>4. t.mounts[s] = NoMount
    BY <1>2, <1>8 DEF MountSet
  <2>5. mm = t.mounts
    BY <1>2, <1>6, <1>8, <2>2, <2>4
  <2> QED BY <1>5, <1>6, <2>3, <2>5 DEF GoodTables, Adds
<1>14. CASE ~(v > MaxVolumes)
  <2>1. PICK x : x = Volume(u, s, point, protected)
    OBVIOUS
  <2>2. x = [valid |-> TRUE, mount |-> s, mount_point |-> point, device |-> c.device,
             read_only |-> c.read_only \/ protected, no_exec |-> c.no_exec]
    BY <1>9, <2>1 DEF Volume
  <2>3. /\ IsVolume(x) /\ x.valid /\ x.mount = s /\ x.device = d /\ x.no_exec = c.no_exec
        /\ c.read_only => x.read_only
    <3>1. c.no_exec \in BOOLEAN /\ c.device \in Registered
      BY <1>7 DEF MountSet
    <3>2. (c.read_only \/ protected) \in BOOLEAN
      OBVIOUS
    <3> QED BY <1>2, <1>7, <2>2, <3>1, <3>2 DEF IsVolume
  <2>4. r = [u EXCEPT !.volumes = Put(u.volumes, v, x)]
    BY <1>6, <1>12, <1>14, <2>1 DEF SetVolume, Put, IsTables
  <2>5. PICK p : p = Put(t.volumes, v, x)
    OBVIOUS
  <2>6. r.mounts = u.mounts /\ r.volumes = p /\ r.next = u.next /\ IsTables(r)
    BY <1>6, <2>4, <2>5 DEF IsTables
  <2>7. \A q \in Slots : t.mounts[q].active => t.mounts[q].device # c.device
    BY <1>7 DEF DeviceIsMounted
  <2>8. Good(u.mounts, p, hs)
    BY <1>2, <1>5, <1>6, <1>7, <1>11, <2>3, <2>5, <2>7, MountedGood
  <2>9. Adds(t, r, d, flags.read_only)
    BY <1>7, <1>11, <2>3, <2>5, <2>6 DEF Adds
  <2>10. Pointed(p)
    <3>1. v = VolumeSlot(t)
      BY <1>6, <1>10 DEF VolumeSlot, ValidVolumes
    <3>2. v <= MaxVolumes
      <4>1. PICK n \in Nat : n = Len(t.volumes)
        BY <1>8 DEF IsSeq
      <4> QED BY <1>11, <1>14, <4>1, VfsAssumption
    <3>3. PointFree(t, point)
      BY <3>1, <3>2
    <3>4. x.mount_point = point
      BY <2>2
    <3>5. /\ Len(x.mount_point) \in Nat
          /\ \A w \in 1 .. Len(t.volumes) :
                t.volumes[w].valid /\ t.volumes[w].mount_point = x.mount_point =>
                    x.mount_point = System
      BY <3>3, <3>4 DEF PointFree
    <3> QED BY <1>5, <1>8, <1>11, <2>5, <3>2, <3>5, PointedPut
  <2> QED BY <1>6, <2>6, <2>8, <2>9, <2>10 DEF GoodTables
<1> QED BY <1>13, <1>14

(* A failed filesystem_mount only uses up a generation.                    *)
LEMMA FailedGood ==
    ASSUME NEW t, NEW hs, GoodTables(t, hs), NEW d, NEW flags,
           NEW o, o = "fails", NEW r, r = FilesystemMount(t, d, flags, o)
    PROVE  GoodTables(r, hs) /\ r.mounts = t.mounts /\ r.volumes = t.volumes
<1>1. IsTables(t) /\ t.next \in Nat /\ Good(t.mounts, t.volumes, hs) /\ Pointed(t.volumes)
  BY DEF GoodTables
<1>2. /\ IsTables(r) /\ r.next \in Nat /\ r.volumes = t.volumes /\ r.mounts = t.mounts
  <2>1. PICK g : g = NextGeneration(t.next)
    OBVIOUS
  <2>2. g \in Nat
    BY <1>1, <2>1, VfsAssumption DEF NextGeneration
  <2>3. r = [t EXCEPT !.next = g, !.mounts = t.mounts]
    BY <1>1, <2>1 DEF FilesystemMount, IsTables
  <2> QED BY <1>1, <2>2, <2>3 DEF IsTables
<1> QED BY <1>1, <1>2 DEF GoodTables

(* vfs_mount_device                                                        *)
LEMMA MountDeviceGood ==
    ASSUME NEW t, NEW hs, GoodTables(t, hs), NEW d \in Registered, NEW flags \in Policy,
           NEW outcome, NEW point, Len(point) \in Nat,
           NEW r, r = MountDevice(t, d, point, flags, outcome)
    PROVE  GoodTables(r, hs) /\ Adds(t, r, d, flags.read_only)
<1>1. CASE ~CanMountAt(t, d, point) \/ outcome = "unknown"
  <2>1. r = t
    BY <1>1 DEF MountDevice
  <2> QED BY <2>1 DEF Adds
<1>2. CASE ~(~CanMountAt(t, d, point) \/ outcome = "unknown") /\ outcome = "fails"
  <2>1. outcome = "fails" /\ r = FilesystemMount(t, d, flags, outcome)
    BY <1>2 DEF MountDevice
  <2>2. GoodTables(r, hs) /\ r.mounts = t.mounts /\ r.volumes = t.volumes
    BY <2>1, FailedGood
  <2> QED BY <2>2 DEF Adds
<1>3. CASE ~(~CanMountAt(t, d, point) \/ outcome = "unknown") /\ outcome # "fails"
  <2>1. FreeSlots(t) # {} /\ ~DeviceIsMounted(t, d)
    BY <1>3 DEF CanMountAt
  <2>2. r = Added(FilesystemMount(t, d, flags, outcome), First(FreeSlots(t)), point, FALSE)
    BY <1>3 DEF MountDevice, AddVolume, Added
  <2>3. PointFree(t, point)
    <3>1. ASSUME NEW w \in 1 .. Len(t.volumes), t.volumes[w].valid,
                 t.volumes[w].mount_point = point
          PROVE  FALSE
      <4>1. w \in ValidVolumes(t)
        BY <3>1 DEF ValidVolumes, GoodTables, Good, Typed, IsSeq
      <4>2. ~Overlaps(point, point)
        BY <1>3, <3>1, <4>1 DEF CanMountAt
      <4> QED BY <4>2 DEF Overlaps, IsPrefix
    <3> QED BY <3>1 DEF PointFree
  <2> QED BY <1>3, <2>1, <2>2, <2>3, AddedGood
<1> QED BY <1>1, <1>2, <1>3

(* The names choose_auto_mount_point tries are distinct texts.             *)
LEMMA NamesAre ==
    ASSUME NEW d \in Registered
    PROVE  /\ DOMAIN AutoNames[Kind[d]] = 1 .. MaxVolumes + 1
           /\ \A k \in 1 .. MaxVolumes + 1 : Len(AutoNames[Kind[d]][k]) \in Nat
           /\ \A j, k \in 1 .. MaxVolumes + 1 :
                 AutoNames[Kind[d]][j] = AutoNames[Kind[d]][k] => j = k
<1>1. PICK kind \in Kinds : kind = Kind[d]
  BY VfsAssumption
<1>2. AutoNames[kind] \in [1 .. MaxVolumes + 1 -> Seq(STRING)]
  BY VfsAssumption
<1>3. \A k \in 1 .. MaxVolumes + 1 : Len(AutoNames[kind][k]) \in Nat
  BY <1>2
<1>4. \A j, k \in 1 .. MaxVolumes + 1 : AutoNames[kind][j] = AutoNames[kind][k] => j = k
  BY VfsAssumption
<1> QED BY <1>1, <1>2, <1>3, <1>4

Different(names, l) == \A j, k \in 1 .. l : names[j] = names[k] => j = k

OneLeft(names, l, point, n) == \E k \in 1 .. l : \A w \in 1 .. n : point[w] # names[k]

(* A table of n entries, taken names included, cannot have all of more     *)
(* than n names.                                                           *)
LEMMA OneNameLeft ==
    ASSUME NEW n \in Nat, NEW l \in Nat, n < l, NEW point, NEW names, Different(names, l)
    PROVE  OneLeft(names, l, point, n)
<1> SUFFICES ASSUME \A k \in 1 .. l : \E w \in 1 .. n : point[w] = names[k]
             PROVE  FALSE
  BY DEF OneLeft
<1> DEFINE f == [k \in 1 .. l |-> CHOOSE w \in 1 .. n : point[w] = names[k]]
<1>1. \A k \in 1 .. l : f[k] \in 1 .. n /\ point[f[k]] = names[k]
  OBVIOUS
<1>2. f \in [1 .. l -> 1 .. n]
  BY <1>1
<1>3. PICK S, T : S = 1 .. l /\ T = 1 .. n
  OBVIOUS
<1>4. IsFiniteSet(S) /\ IsFiniteSet(T) /\ Cardinality(T) < Cardinality(S)
  <2>1. /\ IsFiniteSet(1 .. l) /\ Cardinality(1 .. l) = l - 1 + 1
        /\ IsFiniteSet(1 .. n) /\ Cardinality(1 .. n) = n - 1 + 1
    BY FS_Interval
  <2>2. n - 1 + 1 < l - 1 + 1
    OBVIOUS
  <2> QED BY <1>3, <2>1, <2>2
<1>5. f \in [S -> T]
  BY <1>2, <1>3
<1> HIDE DEF f
<1>6. \E j, k \in S : j # k /\ f[j] = f[k]
  BY <1>4, <1>5, FS_PigeonHole
<1>7. PICK j \in 1 .. l, k \in 1 .. l : j # k /\ f[j] = f[k]
  BY <1>3, <1>6
<1>8. names[j] = names[k]
  BY <1>1, <1>7
<1> QED BY <1>7, <1>8 DEF Different

(* choose_auto_mount_point: there are more names than entries, so that one *)
(* is neither that of a valid volume nor the stale one of the new entry.   *)
LEMMA AutoPointFree ==
    ASSUME NEW t, NEW hs, GoodTables(t, hs), NEW d \in Registered,
           NEW v, v = VolumeSlot(t), v # 1, v <= MaxVolumes
    PROVE  PointFree(t, AutoPoint(t, d, v))
<1>1. PICK vs : vs = t.volumes
  OBVIOUS
<1>2. PICK n \in Nat : n = Len(vs) /\ DOMAIN vs = 1 .. n
  BY <1>1 DEF GoodTables, Good, Typed, IsSeq
<1>3. v \in 1 .. n + 1 /\ n <= MaxVolumes
  <2>1. IsSeq(t.volumes)
    BY DEF GoodTables, Good, Typed
  <2> QED BY <1>1, <1>2, <2>1, VolumeSlotIs DEF GoodTables, Pointed
<1>4. PICK l \in Nat : l = MaxVolumes + 1 /\ n < l
  BY <1>3, VfsAssumption
<1>5. PICK names : names = AutoNames[Kind[d]]
  OBVIOUS
<1>6. /\ DOMAIN names = 1 .. l
      /\ \A k \in 1 .. l : Len(names[k]) \in Nat
      /\ Different(names, l)
  BY <1>4, <1>5, NamesAre DEF Different
<1>7. PICK T : T = {k \in DOMAIN names : /\ ~PointInUse(t, names[k])
                                         /\ ~(v <= Len(t.volumes) /\ t.volumes[v].mount_point = names[k])}
  OBVIOUS
<1>8. AutoPoint(t, d, v) = names[First(T)]
  BY <1>5, <1>7 DEF AutoPoint
<1>9. PICK point : point = [w \in 1 .. n |-> vs[w].mount_point]
  OBVIOUS
<1>10. OneLeft(names, l, point, n)
  <2>1. n < l /\ Different(names, l)
    BY <1>4, <1>6
  <2> QED BY ONLY <2>1, <1>2, <1>4, OneNameLeft, n \in Nat, l \in Nat
<1>11. PICK k \in 1 .. l : \A w \in 1 .. n : vs[w].mount_point # names[k]
  BY <1>9, <1>10 DEF OneLeft
<1>12. ~PointInUse(t, names[k])
  BY <1>1, <1>2, <1>11 DEF PointInUse, ValidVolumes
<1>13. ~(v <= Len(t.volumes) /\ t.volumes[v].mount_point = names[k])
  BY <1>1, <1>2, <1>3, <1>11
<1>14. T # {} /\ T \subseteq Nat
  BY <1>6, <1>7, <1>12, <1>13
<1>15. First(T) \in T
  BY <1>14, FirstIn
<1>16. PICK j \in 1 .. l : j = First(T) /\ ~PointInUse(t, names[j])
  BY <1>6, <1>7, <1>15
<1>17. \A w \in 1 .. Len(t.volumes) : ~(t.volumes[w].valid /\ t.volumes[w].mount_point = names[j])
  BY <1>1, <1>2, <1>16 DEF PointInUse, ValidVolumes
<1> QED BY <1>6, <1>8, <1>16, <1>17 DEF PointFree

(* One device of vfs_mount_all_volumes                                     *)
LEMMA MountAutoGood ==
    ASSUME NEW t, NEW hs, GoodTables(t, hs), NEW d \in Registered, NEW outcome, NEW protected,
           NEW r, r = MountAuto(t, d, outcome, protected)
    PROVE  GoodTables(r, hs)
<1> DEFINE skip == \/ t.full
                   \/ DeviceIsMounted(t, d)
                   \/ Parent[d] = "none" /\ \E p \in Registered : Parent[p] = d
                   \/ outcome[d] = "unknown"
                   \/ FreeSlots(t) = {}
<1>1. ReadWrite \in Policy
  BY DEF ReadWrite, Policy
<1>2. CASE skip
  <2>1. r = t
    BY <1>2 DEF MountAuto
  <2> QED BY <2>1
<1>3. CASE ~skip /\ outcome[d] = "fails"
  <2>1. PICK o : o = outcome[d]
    OBVIOUS
  <2>2. o = "fails" /\ r = FilesystemMount(t, d, ReadWrite, o)
    BY <1>3, <2>1 DEF MountAuto
  <2> QED BY <2>2, FailedGood
<1>4. CASE ~skip /\ outcome[d] # "fails"
  <2>1. FreeSlots(t) # {} /\ ~DeviceIsMounted(t, d)
    BY <1>4
  <2>2. PICK u : u = FilesystemMount(t, d, ReadWrite, outcome[d])
    OBVIOUS
  <2>3. PICK v : v = VolumeSlot(u)
    OBVIOUS
  <2>4. PICK point : point = IF v = 1 THEN System ELSE AutoPoint(t, d, v)
    OBVIOUS
  <2>5. r = Added(u, First(FreeSlots(t)), point, d \in protected)
    BY <1>4, <2>2, <2>3, <2>4 DEF MountAuto, AddVolume, Added
  <2>6. (d \in protected) \in BOOLEAN
    OBVIOUS
  <2>7. PICK b \in BOOLEAN : b = (d \in protected)
    BY <2>6
  <2>8. r = Added(FilesystemMount(t, d, ReadWrite, outcome[d]), First(FreeSlots(t)), point, b)
    BY <2>2, <2>5, <2>7
  <2>9. PICK o : o = outcome[d]
    OBVIOUS
  <2>10. o # "fails" /\ r = Added(FilesystemMount(t, d, ReadWrite, o), First(FreeSlots(t)), point, b)
    BY <1>4, <2>8, <2>9
  <2>11. VolumeSlot(t) <= MaxVolumes => PointFree(t, point)
    <3>1. v = VolumeSlot(t)
      <4>1. u.volumes = t.volumes
        <5>1. IsTables(t)
          BY DEF GoodTables
        <5> QED BY <2>2, <5>1 DEF FilesystemMount, IsTables
      <4> QED BY <2>3, <4>1 DEF VolumeSlot, ValidVolumes
    <3>2. CASE v = 1
      <4>1. point = System /\ Len(System) \in Nat
        BY <2>4, <3>2 DEF System
      <4> QED BY <4>1 DEF PointFree
    <3>3. CASE v # 1
      <4>1. point = AutoPoint(t, d, v)
        BY <2>4, <3>3
      <4> QED BY <3>1, <3>3, <4>1, AutoPointFree
    <3> QED BY <3>2, <3>3
  <2> HIDE DEF skip
  <2> QED BY <1>1, <2>1, <2>10, <2>11, AddedGood
<1> QED BY <1>2, <1>3, <1>4

(* The loop over the devices exists.                                       *)
LEMMA MountLoop ==
    ASSUME NEW t, NEW outcome, NEW protected, NEW len \in Nat, len = Len(Devices)
    PROVE  LET upTo == MountedUpTo(t, outcome, protected)
           IN  /\ upTo[0] = t
               /\ \A n \in 1 .. len :
                     upTo[n] = MountAuto(upTo[n - 1], Devices[n], outcome, protected)
<1> DEFINE G(u, n) == MountAuto(u, Devices[n], outcome, protected)
           Loop(g, n) == g = [k \in 0 .. n |-> IF k = 0 THEN t ELSE G(g[k - 1], k)]
           Stuck == {n \in Nat : ~\E g : Loop(g, n)}
<1>0. MountedUpTo(t, outcome, protected) = CHOOSE g : Loop(g, len)
  BY DEF MountedUpTo
<1>e. \A u, n : G(u, n) = MountAuto(u, Devices[n], outcome, protected)
  OBVIOUS
<1> HIDE DEF G
<1>1. Stuck = {}
  <2> SUFFICES ASSUME Stuck # {} PROVE FALSE
    OBVIOUS
  <2>1. PICK n \in Stuck : \A m \in Stuck : n <= m
    <3>1. Stuck \subseteq Nat
      OBVIOUS
    <3> HIDE DEF Stuck
    <3> QED BY <3>1, LeastNumber
  <2>2. CASE n = 0
    <3> DEFINE g == [k \in 0 .. 0 |-> t]
    <3>1. Loop(g, 0)
      BY SMT
    <3> QED BY <2>2, <3>1
  <2>3. CASE n # 0
    <3>1. n \in Nat /\ n - 1 \in Nat /\ n - 1 \notin Stuck
      <4>1. n \in Nat
        OBVIOUS
      <4> HIDE DEF Stuck
      <4> QED BY <2>1, <2>3, <4>1
    <3>2. PICK g : Loop(g, n - 1)
      BY <3>1
    <3> DEFINE h == [k \in 0 .. n |-> IF k = n THEN G(g[n - 1], n) ELSE g[k]]
    <3>3. ASSUME NEW k \in 0 .. n
          PROVE  h[k] = IF k = 0 THEN t ELSE G(h[k - 1], k)
      BY <2>3, <3>1, <3>2
    <3>4. Loop(h, n)
      <4>1. h = [k \in 0 .. n |-> h[k]]
        OBVIOUS
      <4> HIDE DEF h
      <4> QED BY <3>3, <4>1
    <3> QED BY <3>4
  <2> QED BY <2>2, <2>3
<1>2. \E g : Loop(g, len)
  BY <1>1
<1>3. PICK upTo : upTo = MountedUpTo(t, outcome, protected)
  OBVIOUS
<1>4. Loop(upTo, len)
  <2> HIDE DEF Loop
  <2> QED BY <1>0, <1>2, <1>3
<1>5. upTo[0] = t /\ \A n \in 1 .. len : upTo[n] = G(upTo[n - 1], n)
  BY <1>4
<1> QED BY <1>3, <1>5, <1>e

(* vfs_mount_all_volumes, by the least device after which the tables would *)
(* not be right                                                            *)
LEMMA MountAllGood ==
    ASSUME NEW t, NEW hs, GoodTables(t, hs), NEW outcome, NEW protected
    PROVE  GoodTables(MountAllVolumes(t, outcome, protected), hs)
<1>1. PICK len \in Nat : len = Len(Devices) /\ \A n \in 1 .. len : Devices[n] \in Registered
  BY VfsAssumption
<1>2. PICK upTo : upTo = MountedUpTo(t, outcome, protected)
  OBVIOUS
<1>3. /\ upTo[0] = t
      /\ \A n \in 1 .. len : upTo[n] = MountAuto(upTo[n - 1], Devices[n], outcome, protected)
  BY <1>1, <1>2, MountLoop
<1> DEFINE Wrong == {n \in 0 .. len : ~GoodTables(upTo[n], hs)}
<1>4. Wrong = {}
  <2> SUFFICES ASSUME Wrong # {} PROVE FALSE
    OBVIOUS
  <2>1. PICK n \in Wrong : \A m \in Wrong : n <= m
    <3>1. Wrong \subseteq Nat
      OBVIOUS
    <3> HIDE DEF Wrong
    <3> QED BY <3>1, LeastNumber
  <2>2. n # 0
    BY <1>3
  <2>3. n \in 1 .. len /\ n - 1 \in 0 .. len /\ n - 1 \notin Wrong
    BY <2>1, <2>2
  <2>4. GoodTables(upTo[n - 1], hs)
    BY <2>3
  <2>5. GoodTables(upTo[n], hs)
    BY <1>1, <1>3, <2>3, <2>4, MountAutoGood
  <2> QED BY <2>5
<1>5. GoodTables(upTo[len], hs)
  BY <1>4
<1> QED BY <1>1, <1>2, <1>5 DEF MountAllVolumes

(* Unmounting a volume that nobody uses                                    *)
LEMMA UnmountVolumeGood ==
    ASSUME NEW t, NEW hs, GoodTables(t, hs), NEW v \in 1 .. Len(t.volumes), t.volumes[v].valid,
           CanUnmount(t, t.volumes[v].mount), NEW r, r = UnmountVolume(t, v)
    PROVE  /\ GoodTables(r, hs)
           /\ r.volumes = Put(t.volumes, v, Released(t.volumes[v]))
<1>1. IsTables(t) /\ t.next \in Nat /\ Good(t.mounts, t.volumes, hs)
  BY DEF GoodTables
<1>2. PICK s : s = t.volumes[v].mount
  OBVIOUS
<1>3. PICK mm : mm = [t.mounts EXCEPT ![s] = NoMount]
  OBVIOUS
<1>4. PICK p : p = Put(t.volumes, v, Released(t.volumes[v]))
  OBVIOUS
<1>5. PICK u : u = FilesystemUnmount(t, s)
  OBVIOUS
<1>6. u.mounts = mm /\ u.volumes = t.volumes /\ u.next = t.next /\ IsTables(u)
  BY <1>1, <1>3, <1>5 DEF FilesystemUnmount, IsTables
<1>7. r = [u EXCEPT !.volumes = p]
  BY <1>2, <1>4, <1>5, <1>6 DEF UnmountVolume, SetVolume, Put, IsTables
<1>8. r.mounts = mm /\ r.volumes = p /\ r.next = t.next /\ IsTables(r)
  BY <1>6, <1>7 DEF IsTables
<1>9. Good(mm, p, hs)
  BY <1>1, <1>2, <1>3, <1>4, UnmountedGood DEF CanUnmount
<1>10. Pointed(p)
  <2>1. PICK x : x = Released(t.volumes[v])
    OBVIOUS
  <2>2. ~x.valid
    BY <2>1 DEF Released
  <2>3. IsSeq(t.volumes) /\ Pointed(t.volumes)
    BY DEF GoodTables, Good, Typed
  <2>4. v \in 1 .. Len(t.volumes) + 1 /\ v <= MaxVolumes
    <3>1. PICK n \in Nat : n = Len(t.volumes)
      BY <2>3 DEF IsSeq
    <3> QED BY <2>3, <3>1, VfsAssumption DEF Pointed
  <2> QED BY <1>4, <2>1, <2>2, <2>3, <2>4, PointedPut
<1> QED BY <1>1, <1>4, <1>8, <1>9, <1>10 DEF GoodTables

-----------------------------------------------------------------------------
(* The actions                                                             *)

(* The record of the tables is right when the variables are.               *)
LEMMA TablesGood ==
    ASSUME VfsInv
    PROVE  /\ GoodTables(Tables, disk_handles)
           /\ Tables.volumes = volumes /\ Tables.mounts = mounts
  BY DEF VfsInv, GoodTables, Tables, IsTables

(* What becomes of the variables                                           *)
LEMMA BecomesGood ==
    ASSUME VfsInv, NEW t, GoodTables(t, disk_handles), Becomes(t),
           UNCHANGED disk_handles, ReadsOwnMount'
    PROVE  VfsInv'
<1>1. Good(t.mounts, t.volumes, disk_handles) /\ t.next \in Nat /\ Pointed(t.volumes)
  BY DEF GoodTables
<1>2. /\ mounts' = t.mounts /\ next_generation' = t.next /\ volumes' = t.volumes
      /\ disk_handles' = disk_handles
  BY DEF Becomes
<1>3. Good(mounts', volumes', disk_handles') /\ Pointed(volumes') /\ next_generation' \in Nat
  BY <1>1, <1>2
<1>4. \A h \in Handles : disk_handles'[h].used => disk_handles'[h].mount \in Slots \union {0}
  BY <1>2 DEF VfsInv
<1> QED BY <1>3, <1>4 DEF VfsInv

(* The volume table, entry by entry                                        *)
LEMMA EntriesTyped ==
    ASSUME VfsInv
    PROVE  /\ Len(volumes) \in Nat /\ DOMAIN volumes = 1 .. Len(volumes)
           /\ \A v \in 1 .. Len(volumes) : volumes[v].mount \in Slots \union {0}
           /\ \A v \in 1 .. Len(volumes) : volumes[v].valid =>
                 volumes[v].mount \in Slots /\ IsVolume(volumes[v])
<1>1. IsSeq(volumes) /\ \A v \in 1 .. Len(volumes) : IsReleased(volumes[v]) \/ IsVolume(volumes[v])
  BY DEF VfsInv, Good, Typed
<1>2. Len(volumes) \in Nat /\ DOMAIN volumes = 1 .. Len(volumes)
  BY <1>1 DEF IsSeq
<1>3. ASSUME NEW v \in 1 .. Len(volumes)
      PROVE  /\ volumes[v].mount \in Slots \union {0}
             /\ volumes[v].valid => volumes[v].mount \in Slots /\ IsVolume(volumes[v])
  <2>1. CASE IsReleased(volumes[v])
    BY <2>1 DEF IsReleased
  <2>2. CASE IsVolume(volumes[v])
    BY <2>2 DEF IsVolume
  <2> QED BY <1>1, <2>1, <2>2
<1> QED BY <1>2, <1>3

(* vfs_mount_for_path leads to a mount slot or to none.                    *)
LEMMA RouteIs ==
    ASSUME VfsInv, NEW path, Len(path) \in Nat
    PROVE  MountForPath(path) \in Slots \union {0}
<1>1. PICK n \in Nat : n = Len(volumes) /\ DOMAIN volumes = 1 .. n
  BY EntriesTyped
<1>2. ValidVolumes(Tables) = {v \in 1 .. n : volumes[v].valid}
  BY <1>1, TablesGood DEF ValidVolumes
<1> DEFINE L(v) == Len(volumes[v].mount_point)
           matching == {v \in ValidVolumes(Tables) : IsPrefix(volumes[v].mount_point, path)}
           Best(v) == \A w \in matching : L(v) > L(w) \/ (L(v) = L(w) /\ v <= w)
           alias == {v \in ValidVolumes(Tables) :
                       v <= Len(DiskNames) /\ path # Root /\ Head(path) = DiskNames[v]}
<1>3. MountForPath(path) =
        IF matching # {} THEN volumes[CHOOSE v \in matching : Best(v)].mount
        ELSE IF alias # {} THEN volumes[First(alias)].mount
        ELSE IF volumes = << >> THEN 0 ELSE volumes[1].mount
  BY DEF MountForPath
<1>4. CASE matching # {}
  <2>1. \A v \in matching : v \in 1 .. n /\ volumes[v].valid /\ L(v) \in Nat /\ L(v) <= Len(path)
    BY <1>1, <1>2 DEF VfsInv, Pointed, IsPrefix
  <2> HIDE DEF matching, L
  <2> DEFINE T == {k \in Nat : \E v \in matching : L(v) + k = Len(path)}
  <2>2. \A v \in matching : Len(path) - L(v) \in T
    BY <2>1
  <2>3. PICK k \in T : \A j \in T : k <= j
    <3>1. T \subseteq Nat /\ T # {}
      BY <1>4, <2>2
    <3> HIDE DEF T
    <3> QED BY <3>1, LeastNumber
  <2> DEFINE U == {v \in matching : L(v) + k = Len(path)}
  <2>4. PICK v \in U : \A w \in U : v <= w
    <3>1. U \subseteq Nat /\ U # {}
      BY <2>1, <2>3
    <3> HIDE DEF U
    <3> QED BY <3>1, LeastNumber
  <2>5. k \in Nat /\ v \in matching /\ L(v) + k = Len(path) /\ L(v) \in Nat
    BY <2>1
  <2>6. ASSUME NEW w \in matching PROVE L(v) > L(w) \/ (L(v) = L(w) /\ v <= w)
    <3>1. L(w) \in Nat /\ L(w) <= Len(path) /\ Len(path) - L(w) \in T
      BY <2>1, <2>2
    <3>2. k <= Len(path) - L(w)
      BY <2>3, <3>1
    <3>3. CASE L(v) = L(w)
      <4>1. w \in U
        BY <2>5, <3>3
      <4> QED BY <2>4, <3>3, <4>1
    <3>4. CASE L(v) # L(w)
      <4> HIDE DEF T, U
      <4> QED BY <2>5, <3>1, <3>2, <3>4
    <3> QED BY <3>3, <3>4
  <2>7. Best(v)
    BY <2>6
  <2>8. PICK best : best = CHOOSE u \in matching : Best(u)
    OBVIOUS
  <2>9. best \in matching
    <3> HIDE DEF Best
    <3> QED BY <2>5, <2>7, <2>8
  <2>10. volumes[best].mount \in Slots
    BY <1>1, <2>1, <2>9, EntriesTyped
  <2> QED BY <1>3, <1>4, <2>8, <2>10
<1>5. CASE matching = {} /\ alias # {}
  <2>1. alias \subseteq Nat
    BY <1>1, <1>2
  <2>2. First(alias) \in alias
    <3> HIDE DEF alias
    <3> QED BY <1>5, <2>1, FirstIn
  <2>3. First(alias) \in 1 .. n /\ volumes[First(alias)].valid
    BY <1>2, <2>2
  <2>4. MountForPath(path) = volumes[First(alias)].mount
    BY <1>3, <1>5
  <2> QED BY <1>1, <2>3, <2>4, EntriesTyped
<1>6. CASE matching = {} /\ alias = {}
  <2>1. MountForPath(path) = IF volumes = << >> THEN 0 ELSE volumes[1].mount
    BY <1>3, <1>6
  <2>2. CASE volumes = << >>
    BY <2>1, <2>2
  <2>3. CASE volumes # << >>
    <3>1. 1 \in 1 .. n
      BY <1>1, <2>3, EmptySeq DEF VfsInv, Good, Typed, IsSeq
    <3> QED BY <1>1, <2>1, <2>3, <3>1, EntriesTyped
  <2> QED BY <2>2, <2>3
<1> QED BY <1>4, <1>5, <1>6

(* Reads are not touched by calls that leave another result.               *)
LEMMA OtherResult ==
    ASSUME result'.op # "read"
    PROVE  ReadsOwnMount'
  BY DEF ReadsOwnMount

(* The handles on all slots but s are the same.                            *)
Elsewhere(hs, hh, s) ==
    \A q \in Slots : q # s =>
        /\ OpenAt(hh, q) = OpenAt(hs, q)
        /\ \A h \in OpenAt(hs, q) : hh[h].generation = hs[h].generation

(* The handles on s are of the given generation.                           *)
OfGeneration(hh, s, g) == \A h \in OpenAt(hh, s) : hh[h].generation = g

(* Another count of handles on a mount changes nothing for its volume.     *)
LEMMA RecountGood ==
    ASSUME NEW m, NEW vs, NEW hs, Good(m, vs, hs), NEW s \in Slots, m[s].active, NEW k \in Nat,
           NEW mm, mm = [m EXCEPT ![s].references = k],
           NEW hh, hh = [h \in Handles |-> hh[h]],
           k = Cardinality(OpenAt(hh, s)),
           OfGeneration(hh, s, m[s].generation), Elsewhere(hs, hh, s)
    PROVE  Good(mm, vs, hh)
<1>1. /\ m \in [Slots -> MountSet \union {NoMount}] /\ IsSeq(vs)
      /\ \A v \in 1 .. Len(vs) : IsReleased(vs[v]) \/ IsVolume(vs[v])
  BY DEF Good, Typed
<1>2. m[s] \in MountSet
  BY <1>1 DEF NoMount
<1>3. PICK c \in MountSet : c = m[s]
  BY <1>2
<1>4. PICK d : d = [c EXCEPT !.references = k]
  OBVIOUS
<1>5. /\ d \in MountSet /\ d.active = c.active /\ d.device = c.device
      /\ d.generation = c.generation
      /\ d.no_exec = c.no_exec /\ d.read_only = c.read_only /\ d.references = k
  BY <1>4 DEF MountSet
<1>6. mm = [m EXCEPT ![s] = d]
  BY <1>1, <1>3, <1>4
<1>7. /\ mm \in [Slots -> MountSet \union {NoMount}] /\ mm[s] = d
      /\ \A q \in Slots : q # s => mm[q] = m[q]
  BY <1>1, <1>5, <1>6
<1>8. Typed(mm, vs, hh)
  BY <1>1, <1>7 DEF Typed
<1>9. d.active /\ c.active
  BY <1>3, <1>5
<1>10. Covered(mm, vs)
  BY <1>3, <1>7, <1>9 DEF Covered, Good, Matching
<1>11. AllFit(mm, vs)
  <2>1. ASSUME NEW v \in 1 .. Len(vs), vs[v].valid PROVE Fits(mm, vs[v])
    <3>1. Fits(m, vs[v])
      BY <2>1 DEF Good, Matching, AllFit
    <3>2. vs[v].mount \in Slots
      BY <1>1, <2>1 DEF IsReleased, IsVolume
    <3>3. CASE vs[v].mount = s
      BY <1>3, <1>5, <1>7, <1>9, <3>1, <3>3 DEF Fits
    <3>4. CASE vs[v].mount # s
      BY <1>7, <3>1, <3>2, <3>4 DEF Fits
    <3> QED BY <3>3, <3>4
  <2> QED BY <2>1 DEF AllFit
<1>12. Counted(mm, hh)
  <2>1. Counted(m, hs)
    BY DEF Good
  <2>2. ASSUME NEW q \in Slots
        PROVE  /\ mm[q].active => mm[q].references = Cardinality(OpenAt(hh, q))
               /\ \A h \in OpenAt(hh, q) : mm[q].active /\ mm[q].generation = hh[h].generation
    <3>1. CASE q = s
      BY <1>3, <1>5, <1>7, <1>9, <3>1 DEF OfGeneration
    <3>2. CASE q # s
      BY <1>7, <2>1, <3>2, SMTT(30) DEF Counted, Elsewhere
    <3> QED BY <3>1, <3>2
  <2> QED BY <2>2 DEF Counted
<1>13. Distinct(vs)
  BY DEF Good, Matching
<1> QED BY <1>8, <1>10, <1>11, <1>12, <1>13 DEF Good, Matching

(* The handles on the slots that a call does not touch                     *)
LEMMA SameHandles ==
    ASSUME NEW m, NEW vs, NEW hs, Good(m, vs, hs), NEW hh, hh = [h \in Handles |-> hh[h]],
           Elsewhere(hs, hh, 0)
    PROVE  Good(m, vs, hh)
<1>1. Typed(m, vs, hh) /\ Matching(m, vs)
  BY DEF Good, Typed
<1>2. Counted(m, hh)
  <2>1. \A q \in Slots : q # 0
    BY DEF Slots
  <2> QED BY <2>1 DEF Good, Counted, Elsewhere
<1> QED BY <1>1, <1>2 DEF Good

(* The handles on a slot are finitely many.                                *)
LEMMA OpenFinite ==
    ASSUME NEW hs, NEW s
    PROVE  IsFiniteSet(OpenAt(hs, s)) /\ Cardinality(OpenAt(hs, s)) \in Nat
<1>1. IsFiniteSet(Handles)
  BY FS_Interval, VfsAssumption DEF Handles
<1>2. IsFiniteSet(OpenAt(hs, s))
  BY <1>1, FS_Subset DEF OpenAt
<1> QED BY <1>2, FS_CardinalityType

(* vfs_open                                                                *)
LEMMA OpenKeepsInv ==
    ASSUME VfsInv, NEW path, Len(path) \in Nat, Open(path)
    PROVE  VfsInv'
<1>1. PICK s \in Slots \union {0} : s = MountForPath(path)
  BY RouteIs
<1>2. PICK free : free = {h \in Handles : ~disk_handles[h].used}
  OBVIOUS
<1>3. PICK h : h = First(free)
  OBVIOUS
<1>4. h \in Handles /\ ~disk_handles[h].used
  <2>1. free \subseteq Nat /\ free # {}
    BY <1>2 DEF Open, Handles
  <2>2. h \in free
    BY <1>3, <2>1, FirstIn
  <2> QED BY <1>2, <2>2
<1>5. PICK c : c = [used |-> TRUE, path |-> path, mount |-> s,
                    generation |-> IF s = 0 THEN 0 ELSE mounts[s].generation]
  OBVIOUS
<1>6. /\ s # 0 => mounts[s].active
      /\ mounts' = IF s = 0 THEN mounts ELSE [mounts EXCEPT ![s].references = @ + 1]
      /\ disk_handles' = [disk_handles EXCEPT ![h] = c]
      /\ result' = NoResult
      /\ next_generation' = next_generation /\ volumes' = volumes
  BY <1>1, <1>2, <1>3, <1>5 DEF Open
<1>7. Good(mounts, volumes, disk_handles) /\ disk_handles = [g \in Handles |-> disk_handles[g]]
  BY DEF VfsInv, Good, Typed
<1>8. PICK hh : hh = disk_handles'
  OBVIOUS
<1>9. /\ hh = [g \in Handles |-> hh[g]] /\ hh[h] = c
      /\ \A g \in Handles : g # h => hh[g] = disk_handles[g]
  BY <1>4, <1>6, <1>7, <1>8
<1>10. c.used /\ c.mount = s /\ c.generation = IF s = 0 THEN 0 ELSE mounts[s].generation
  BY <1>5
<1>11. Elsewhere(disk_handles, hh, s)
  BY <1>4, <1>9, <1>10 DEF OpenAt, Elsewhere
<1>12. Good(mounts', volumes, hh)
  <2>1. CASE s = 0
    BY <1>6, <1>7, <1>9, <1>11, <2>1, SameHandles
  <2>2. CASE s # 0
    <3>1. s \in Slots /\ mounts[s].active
      BY <1>6, <2>2
    <3>2. OpenAt(hh, s) = OpenAt(disk_handles, s) \union {h} /\ h \notin OpenAt(disk_handles, s)
      BY <1>4, <1>9, <1>10 DEF OpenAt
    <3>3. mounts[s].references = Cardinality(OpenAt(disk_handles, s))
      BY <1>7, <3>1 DEF Good, Counted
    <3>4. PICK k \in Nat : k = mounts[s].references + 1
      BY <3>3, OpenFinite
    <3>5. k = Cardinality(OpenAt(hh, s))
      <4>1. PICK O : O = OpenAt(disk_handles, s)
        OBVIOUS
      <4>2. IsFiniteSet(O)
        BY <4>1, OpenFinite
      <4>3. Cardinality(O \union {h}) = Cardinality(O) + 1
        BY <3>2, <4>1, <4>2, FS_AddElement
      <4> QED BY <3>2, <3>3, <3>4, <4>1, <4>3
    <3>6. OfGeneration(hh, s, mounts[s].generation)
      <4>1. \A g \in OpenAt(disk_handles, s) : mounts[s].generation = disk_handles[g].generation
        BY <1>7, <3>1 DEF Good, Counted
      <4>2. \A g \in OpenAt(disk_handles, s) : hh[g] = disk_handles[g]
        BY <1>9, <3>2 DEF OpenAt
      <4> QED BY <1>9, <1>10, <2>2, <3>2, <4>1, <4>2 DEF OfGeneration
    <3>7. mounts' = [mounts EXCEPT ![s].references = k]
      BY <1>6, <2>2, <3>4
    <3> QED BY <1>7, <1>9, <1>11, <3>1, <3>5, <3>6, <3>7, RecountGood
  <2> QED BY <2>1, <2>2
<1>13. \A g \in Handles : hh[g].used => hh[g].mount \in Slots \union {0}
  BY <1>1, <1>9, <1>10 DEF VfsInv
<1>14. ReadsOwnMount'
  BY <1>6, OtherResult DEF NoResult
<1> QED BY <1>6, <1>8, <1>12, <1>13, <1>14 DEF VfsInv

(* vfs_close                                                               *)
LEMMA CloseKeepsInv ==
    ASSUME VfsInv, NEW h \in Handles, Close(h)
    PROVE  VfsInv'
<1>1. PICK s : s = disk_handles[h].mount
  OBVIOUS
<1>2. /\ disk_handles[h].used
      /\ disk_handles' = [disk_handles EXCEPT ![h] = NoHandle]
      /\ mounts' = IF s # 0 /\ mounts[s].active /\ mounts[s].references # 0
                   THEN [mounts EXCEPT ![s].references = @ - 1] ELSE mounts
      /\ result' = NoResult
      /\ next_generation' = next_generation /\ volumes' = volumes
  BY <1>1 DEF Close
<1>3. s \in Slots \union {0}
  BY <1>1, <1>2 DEF VfsInv
<1>4. Good(mounts, volumes, disk_handles) /\ disk_handles = [g \in Handles |-> disk_handles[g]]
  BY DEF VfsInv, Good, Typed
<1>5. PICK hh : hh = disk_handles'
  OBVIOUS
<1>6. /\ hh = [g \in Handles |-> hh[g]] /\ hh[h] = NoHandle
      /\ \A g \in Handles : g # h => hh[g] = disk_handles[g]
  BY <1>2, <1>4, <1>5
<1>7. ~hh[h].used
  BY <1>6 DEF NoHandle
<1>8. Elsewhere(disk_handles, hh, s)
  BY <1>1, <1>6, <1>7 DEF OpenAt, Elsewhere
<1>9. Good(mounts', volumes, hh)
  <2>1. CASE s = 0
    BY <1>2, <1>4, <1>6, <1>8, <2>1, SameHandles
  <2>2. CASE s # 0
    <3>1. s \in Slots
      BY <1>3, <2>2
    <3>2. h \in OpenAt(disk_handles, s) /\ OpenAt(hh, s) = OpenAt(disk_handles, s) \ {h}
      BY <1>1, <1>2, <1>6, <1>7 DEF OpenAt
    <3>3. /\ mounts[s].active /\ mounts[s].references = Cardinality(OpenAt(disk_handles, s))
          /\ \A g \in OpenAt(disk_handles, s) : mounts[s].generation = disk_handles[g].generation
      BY <1>4, <3>1, <3>2 DEF Good, Counted
    <3>4. Cardinality(OpenAt(hh, s)) = Cardinality(OpenAt(disk_handles, s)) - 1
      BY <3>2, OpenFinite, FS_RemoveElement
    <3>5. PICK k \in Nat : k = Cardinality(OpenAt(hh, s))
      BY OpenFinite
    <3>6. mounts[s].references # 0 /\ k = mounts[s].references - 1
      BY <3>3, <3>4, <3>5, OpenFinite
    <3>7. mounts' = [mounts EXCEPT ![s].references = k]
      BY <1>2, <2>2, <3>3, <3>6
    <3>8. OfGeneration(hh, s, mounts[s].generation)
      <4>1. \A g \in OpenAt(hh, s) : g \in OpenAt(disk_handles, s) /\ hh[g] = disk_handles[g]
        BY <1>6, <3>2 DEF OpenAt
      <4> QED BY <3>3, <4>1 DEF OfGeneration
    <3> QED BY <1>4, <1>6, <1>8, <3>1, <3>3, <3>5, <3>7, <3>8, RecountGood
  <2> QED BY <2>1, <2>2
<1>10. \A g \in Handles : hh[g].used => hh[g].mount \in Slots \union {0}
  BY <1>6, <1>7 DEF VfsInv
<1>11. ReadsOwnMount'
  BY <1>2, OtherResult DEF NoResult
<1> QED BY <1>2, <1>5, <1>9, <1>10, <1>11 DEF VfsInv

(* A mount, or a volume, that is locked down                               *)
Locked(x) == [x EXCEPT !.read_only = TRUE, !.no_exec = TRUE]

(* Locking a mount down changes nothing else about it.                     *)
LEMMA LockedMount ==
    ASSUME NEW c \in MountSet
    PROVE  /\ Locked(c) \in MountSet
           /\ Locked(c).device = c.device /\ Locked(c).generation = c.generation
           /\ Locked(c).references = c.references
           /\ Locked(c).no_exec = TRUE /\ Locked(c).active = TRUE
<1>1. PICK d : d = [c EXCEPT !.read_only = TRUE]
  OBVIOUS
<1>2. /\ d \in MountSet /\ d.device = c.device /\ d.generation = c.generation
      /\ d.references = c.references
  BY <1>1 DEF MountSet
<1>3. PICK e : e = [d EXCEPT !.no_exec = TRUE]
  OBVIOUS
<1>4. /\ e \in MountSet /\ e.device = d.device /\ e.generation = d.generation
      /\ e.references = d.references /\ e.no_exec = TRUE /\ e.active = TRUE
  BY <1>2, <1>3 DEF MountSet
<1>5. Locked(c) = e
  BY <1>1, <1>3 DEF Locked
<1> QED BY <1>2, <1>4, <1>5

(* And so for a volume                                                     *)
LEMMA LockedVolume ==
    ASSUME NEW x, IsVolume(x)
    PROVE  /\ IsVolume(Locked(x))
           /\ Locked(x).device = x.device /\ Locked(x).mount = x.mount
           /\ Locked(x).mount_point = x.mount_point
           /\ Locked(x).no_exec = TRUE /\ Locked(x).read_only = TRUE /\ Locked(x).valid = TRUE
<1>1. PICK V : V = [valid : {TRUE}, mount : Slots, mount_point : {x.mount_point},
                    device : Registered, read_only : BOOLEAN, no_exec : BOOLEAN]
  OBVIOUS
<1>2. x \in V
  BY <1>1 DEF IsVolume
<1>3. PICK y : y = [x EXCEPT !.read_only = TRUE]
  OBVIOUS
<1>4. /\ y \in V /\ y.device = x.device /\ y.mount = x.mount /\ y.read_only = TRUE
  BY <1>1, <1>2, <1>3
<1>5. PICK z : z = [y EXCEPT !.no_exec = TRUE]
  OBVIOUS
<1>6. /\ z \in V /\ z.device = y.device /\ z.mount = y.mount /\ z.read_only = y.read_only
      /\ z.no_exec = TRUE
  BY <1>1, <1>4, <1>5
<1>7. z.valid = TRUE /\ z.mount_point = x.mount_point /\ IsVolume(z)
  BY <1>1, <1>6 DEF IsVolume
<1>8. Locked(x) = z
  BY <1>3, <1>5 DEF Locked
<1> QED BY <1>4, <1>6, <1>7, <1>8

(* vfs_handle_device_removed                                               *)
LEMMA DeviceRemovedKeepsInv ==
    ASSUME VfsInv, NEW d, NEW synced, DeviceRemoved(d, synced)
    PROVE  VfsInv'
<1>1. PICK n \in Nat : n = Len(volumes) /\ DOMAIN volumes = 1 .. n
  BY EntriesTyped
<1>2. ValidVolumes(Tables) = {v \in 1 .. n : volumes[v].valid}
  BY <1>1, TablesGood DEF ValidVolumes
<1>3. PICK A : A = {v \in ValidVolumes(Tables) :
                       \/ volumes[v].device = d \/ Parent[volumes[v].device] = d}
  OBVIOUS
<1>4. PICK U : U = {v \in A \intersect synced : mounts[volumes[v].mount].references = 0}
  OBVIOUS
<1>5. PICK SU, SA : SU = {volumes[v].mount : v \in U} /\ SA = {volumes[v].mount : v \in A}
  OBVIOUS
<1>6. /\ mounts' = [s \in Slots |-> IF s \in SU THEN NoMount
                                    ELSE IF s \in SA THEN Locked(mounts[s]) ELSE mounts[s]]
      /\ volumes' = [v \in DOMAIN volumes |-> IF v \in U THEN Released(volumes[v])
                                    ELSE IF v \in A THEN Locked(volumes[v]) ELSE volumes[v]]
      /\ result' = NoResult
      /\ next_generation' = next_generation /\ disk_handles' = disk_handles
  BY <1>3, <1>4, <1>5 DEF DeviceRemoved, Locked
<1>7. /\ mounts \in [Slots -> MountSet \union {NoMount}]
      /\ Matching(mounts, volumes) /\ Counted(mounts, disk_handles)
      /\ disk_handles = [h \in Handles |-> disk_handles[h]]
  BY DEF VfsInv, Good, Typed
<1>8. \A v \in 1 .. n : volumes[v].valid =>
         volumes[v].mount \in Slots /\ IsVolume(volumes[v]) /\ Fits(mounts, volumes[v])
  BY <1>1, <1>7, EntriesTyped DEF Matching, AllFit
<1>9. \A v, w \in 1 .. n : volumes[v].valid /\ volumes[w].valid /\ v # w =>
          volumes[v].mount # volumes[w].mount /\ volumes[v].device # volumes[w].device
  BY <1>1, <1>7 DEF Matching, Distinct
<1>10. /\ U \subseteq A /\ A \subseteq 1 .. n
       /\ \A v \in A : volumes[v].valid
       /\ \A v \in U : mounts[volumes[v].mount].references = 0
  BY <1>2, <1>3, <1>4
<1>11. \A v \in 1 .. n : volumes[v].valid =>
          /\ volumes[v].mount \in SU <=> v \in U
          /\ volumes[v].mount \in SA <=> v \in A
  BY <1>5, <1>9, <1>10
<1>12. ASSUME NEW s \in Slots, mounts[s].active PROVE mounts[s] \in MountSet
  BY <1>7, <1>12 DEF NoMount
<1>13. PICK mm, vs : mm = mounts' /\ vs = volumes'
  OBVIOUS
<1>14. ASSUME NEW s \in SA
       PROVE  s \in Slots /\ mounts[s].active /\ mounts[s] \in MountSet
  <2>1. PICK v \in A : s = volumes[v].mount
    BY <1>5
  <2> QED BY <1>8, <1>10, <1>12, <2>1 DEF Fits
<1>15. SU \subseteq SA
  BY <1>5, <1>10
<1>16. ASSUME NEW s \in Slots
       PROVE  /\ s \in SU => mm[s] = NoMount
              /\ s \notin SU /\ s \in SA => mm[s] = Locked(mounts[s])
              /\ s \notin SA => mm[s] = mounts[s]
  BY <1>6, <1>13, <1>15
<1>17. ASSUME NEW v \in 1 .. n
       PROVE  /\ v \in U => vs[v] = Released(volumes[v])
              /\ v \notin U /\ v \in A => vs[v] = Locked(volumes[v])
              /\ v \notin A => vs[v] = volumes[v]
  BY <1>1, <1>6, <1>10, <1>13
<1>18. IsSeq(vs) /\ Len(vs) = n
  <2>1. PICK T : T = {vs[v] : v \in 1 .. n}
    OBVIOUS
  <2>2. vs \in [1 .. n -> T]
    <3>1. vs = [v \in 1 .. n |-> vs[v]]
      BY <1>1, <1>6, <1>13
    <3> QED BY <2>1, <3>1
  <2> QED BY <2>2 DEF IsSeq
<1>19. ASSUME NEW v \in 1 .. n, vs[v].valid
       PROVE  /\ v \notin U /\ volumes[v].valid /\ IsVolume(vs[v])
              /\ vs[v].mount = volumes[v].mount /\ vs[v].device = volumes[v].device
              /\ vs[v].mount_point = volumes[v].mount_point
  <2>1. v \notin U
    <3> SUFFICES ASSUME v \in U PROVE FALSE
      OBVIOUS
    <3>1. vs[v] = Released(volumes[v])
      BY <1>17
    <3> QED BY <1>19, <3>1 DEF Released
  <2>2. CASE v \in A
    <3>1. vs[v] = Locked(volumes[v]) /\ volumes[v].valid /\ IsVolume(volumes[v])
      BY <1>8, <1>10, <1>17, <2>1, <2>2
    <3> QED BY <2>1, <3>1, LockedVolume
  <2>3. CASE v \notin A
    BY <1>8, <1>17, <1>19, <2>1, <2>3
  <2> QED BY <2>2, <2>3
<1>20. mm \in [Slots -> MountSet \union {NoMount}]
  <2>1. ASSUME NEW s \in Slots PROVE mm[s] \in MountSet \union {NoMount}
    <3>1. CASE s \in SU
      BY <1>16, <3>1
    <3>2. CASE s \notin SU /\ s \in SA
      BY <1>14, <1>16, <3>2, LockedMount
    <3>3. CASE s \notin SA
      BY <1>7, <1>16, <3>3
    <3> QED BY <3>1, <3>2, <3>3
  <2>2. mm = [s \in Slots |-> mm[s]]
    BY <1>6, <1>13
  <2> QED BY <2>1, <2>2
<1>21. Typed(mm, vs, disk_handles)
  <2>1. ASSUME NEW v \in 1 .. n PROVE IsReleased(vs[v]) \/ IsVolume(vs[v])
    <3>1. CASE v \in U
      <4>1. vs[v] = Released(volumes[v])
        BY <1>17, <3>1
      <4>2. IsReleased(vs[v])
        BY <4>1 DEF IsReleased, Released
      <4> QED BY <4>2
    <3>2. CASE v \notin U /\ v \in A
      BY <1>8, <1>10, <1>17, <3>2, LockedVolume
    <3>3. CASE v \notin A
      BY <1>1, <1>17, <3>3 DEF VfsInv, Good, Typed
    <3> QED BY <3>1, <3>2, <3>3
  <2> QED BY <1>7, <1>18, <1>20, <2>1 DEF Typed
<1>22. Covered(mm, vs)
  <2>1. ASSUME NEW s \in Slots, mm[s].active
        PROVE  \E v \in 1 .. n : vs[v].valid /\ vs[v].mount = s
    <3>1. s \notin SU
      BY <1>16, <2>1 DEF NoMount
    <3>2. mounts[s].active
      BY <1>14, <1>16, <2>1, <3>1
    <3>3. PICK v \in 1 .. n : volumes[v].valid /\ volumes[v].mount = s
      BY <1>1, <1>7, <3>2 DEF Matching, Covered
    <3>4. v \notin U
      BY <1>11, <3>1, <3>3
    <3>5. CASE v \in A
      <4>1. vs[v] = Locked(volumes[v]) /\ IsVolume(volumes[v])
        BY <1>8, <1>17, <3>3, <3>4, <3>5
      <4>2. vs[v].valid = TRUE /\ vs[v].mount = s
        BY <3>3, <4>1, LockedVolume
      <4> QED BY <4>2
    <3>6. CASE v \notin A
      BY <1>17, <3>3, <3>6
    <3> QED BY <3>5, <3>6
  <2> QED BY <1>18, <2>1 DEF Covered
<1>23. AllFit(mm, vs)
  <2>1. ASSUME NEW v \in 1 .. n, vs[v].valid PROVE Fits(mm, vs[v])
    <3>1. /\ v \notin U /\ volumes[v].valid /\ vs[v].mount = volumes[v].mount
          /\ vs[v].device = volumes[v].device
      BY <1>19, <2>1
    <3>2. PICK s \in Slots : s = volumes[v].mount /\ Fits(mounts, volumes[v])
      BY <1>8, <3>1
    <3>3. mounts[s].active /\ mounts[s].device = volumes[v].device /\ s \notin SU
      BY <1>11, <3>1, <3>2 DEF Fits
    <3>4. CASE v \in A
      <4>1. mm[s] = Locked(mounts[s]) /\ mounts[s] \in MountSet
        BY <1>11, <1>12, <1>16, <3>1, <3>2, <3>3, <3>4
      <4>2. mm[s].active = TRUE /\ mm[s].device = mounts[s].device /\ mm[s].no_exec = TRUE
        BY <4>1, LockedMount
      <4>3. vs[v] = Locked(volumes[v]) /\ IsVolume(volumes[v])
        BY <1>8, <1>17, <3>1, <3>4
      <4>4. vs[v].no_exec = TRUE /\ vs[v].read_only = TRUE
        BY <4>3, LockedVolume
      <4> QED BY <3>1, <3>2, <3>3, <4>2, <4>4 DEF Fits
    <3>5. CASE v \notin A
      <4>1. mm[s] = mounts[s] /\ vs[v] = volumes[v]
        BY <1>11, <1>16, <1>17, <3>1, <3>2, <3>5
      <4> QED BY <3>2, <4>1 DEF Fits
    <3> QED BY <3>4, <3>5
  <2> QED BY <1>18, <2>1 DEF AllFit
<1>24. Distinct(vs)
  <2>1. ASSUME NEW v \in 1 .. n, NEW w \in 1 .. n, vs[v].valid, vs[w].valid, v # w
        PROVE  vs[v].mount # vs[w].mount /\ vs[v].device # vs[w].device
    <3>1. /\ volumes[v].valid /\ vs[v].mount = volumes[v].mount
          /\ vs[v].device = volumes[v].device
      BY <1>19, <2>1
    <3>2. /\ volumes[w].valid /\ vs[w].mount = volumes[w].mount
          /\ vs[w].device = volumes[w].device
      BY <1>19, <2>1
    <3> QED BY <1>9, <2>1, <3>1, <3>2
  <2> QED BY <1>18, <2>1 DEF Distinct
<1>25. Counted(mm, disk_handles)
  <2>1. ASSUME NEW s \in Slots
        PROVE  /\ mm[s].active => mm[s].references = Cardinality(OpenAt(disk_handles, s))
               /\ \A h \in OpenAt(disk_handles, s) :
                     mm[s].active /\ mm[s].generation = disk_handles[h].generation
    <3>1. CASE s \in SU
      <4>1. PICK v \in U : s = volumes[v].mount
        BY <1>5, <3>1
      <4>2. mounts[s].references = 0
        BY <1>10, <4>1
      <4>3. OpenAt(disk_handles, s) = {}
        BY <1>7, <4>2, NoneOpen
      <4>4. ~mm[s].active
        BY <1>16, <3>1 DEF NoMount
      <4> QED BY <4>3, <4>4
    <3>2. CASE s \notin SU /\ s \in SA
      <4>1. mm[s] = Locked(mounts[s]) /\ mounts[s] \in MountSet /\ mounts[s].active
        BY <1>14, <1>16, <3>2
      <4>2. /\ mm[s].references = mounts[s].references
            /\ mm[s].generation = mounts[s].generation /\ mm[s].active = TRUE
        BY <4>1, LockedMount
      <4> QED BY <1>7, <4>1, <4>2 DEF Counted
    <3>3. CASE s \notin SA
      <4>1. mm[s] = mounts[s]
        BY <1>16, <3>3
      <4> QED BY <1>7, <4>1 DEF Counted
    <3> QED BY <3>1, <3>2, <3>3
  <2> QED BY <2>1 DEF Counted
<1>26. Good(mm, vs, disk_handles)
  BY <1>21, <1>22, <1>23, <1>24, <1>25 DEF Good, Matching
<1>27. Pointed(vs)
  <2>1. /\ n <= MaxVolumes
        /\ \A v \in 1 .. n : volumes[v].valid => Len(volumes[v].mount_point) \in Nat
        /\ \A v, w \in 1 .. n :
             volumes[v].valid /\ volumes[w].valid /\ v # w
                /\ volumes[v].mount_point = volumes[w].mount_point => volumes[v].mount_point = System
    BY <1>1 DEF VfsInv, Pointed
  <2>2. ASSUME NEW v \in 1 .. n, vs[v].valid PROVE Len(vs[v].mount_point) \in Nat
    BY <1>19, <2>1, <2>2
  <2>3. ASSUME NEW v \in 1 .. n, NEW w \in 1 .. n, vs[v].valid, vs[w].valid, v # w,
               vs[v].mount_point = vs[w].mount_point
        PROVE  vs[v].mount_point = System
    <3>1. volumes[v].valid /\ vs[v].mount_point = volumes[v].mount_point
      BY <1>19, <2>3
    <3>2. volumes[w].valid /\ vs[w].mount_point = volumes[w].mount_point
      BY <1>19, <2>3
    <3> QED BY <2>1, <2>3, <3>1, <3>2
  <2> QED BY <1>18, <2>1, <2>2, <2>3 DEF Pointed
<1>28. ReadsOwnMount'
  BY <1>6, OtherResult DEF NoResult
<1>29. Good(mounts', volumes', disk_handles') /\ Pointed(volumes')
  BY <1>6, <1>13, <1>26, <1>27
<1>30. /\ next_generation' \in Nat
       /\ \A h \in Handles : disk_handles'[h].used => disk_handles'[h].mount \in Slots \union {0}
  BY <1>6 DEF VfsInv
<1> QED BY <1>28, <1>29, <1>30 DEF VfsInv

(* vfs_remount: the volume is unmounted, mounted with the new policy, and  *)
(* if that adds nothing mounted with the old one.                          *)
LEMMA RemountIs ==
    ASSUME VfsInv, NEW point, Len(point) \in Nat, NEW flags \in Policy, NEW outcome, NEW second,
           Remount(point, flags, outcome, second)
    PROVE  /\ VfsInv'
           /\ \E v \in 1 .. Len(volumes) : \E g, t :
                 /\ volumes[v].valid
                 /\ GoodTables(g, disk_handles)
                 /\ g.volumes = Put(volumes, v, Released(volumes[v]))
                 /\ ~result'.ok => /\ g.volumes = t.volumes
                                   /\ \E r : /\ Adds(t, r, volumes[v].device, volumes[v].read_only)
                                             /\ volumes' = r.volumes
<1>1. PICK v : v = First(VolumesAt(point))
  OBVIOUS
<1>2. v \in 1 .. Len(volumes) /\ volumes[v].valid
  <2>1. VolumesAt(point) \subseteq {w \in 1 .. Len(volumes) : volumes[w].valid}
    BY EntriesTyped, TablesGood DEF VolumesAt, ValidVolumes
  <2>2. VolumesAt(point) \subseteq Nat /\ VolumesAt(point) # {}
    BY <2>1 DEF Remount
  <2>3. v \in VolumesAt(point)
    BY <1>1, <2>2, FirstIn
  <2> QED BY <2>1, <2>3
<1>3. PICK old : old = volumes[v]
  OBVIOUS
<1>4. old.device \in Registered /\ old.read_only \in BOOLEAN
  BY <1>2, <1>3, EntriesTyped DEF IsVolume
<1>5. PICK g : g = UnmountVolume(Tables, v)
  OBVIOUS
<1>6. PICK t : t = MountDevice(g, old.device, point, flags, outcome)
  OBVIOUS
<1>7. PICK ok \in BOOLEAN : ok = (t.volumes # g.volumes)
  OBVIOUS
<1>8. PICK f : f = [ReadWrite EXCEPT !.read_only = old.read_only]
  OBVIOUS
<1>9. PICK e : e = [t EXCEPT !.full = FALSE]
  OBVIOUS
<1>10. PICK r : r = MountDevice(e, old.device, point, f, second)
  OBVIOUS
<1>11. /\ CanUnmount(Tables, old.mount)
       /\ Becomes(IF ok THEN t ELSE r)
       /\ result' = [op |-> "remount", ok |-> ok]
       /\ UNCHANGED disk_handles
  BY <1>1, <1>3, <1>5, <1>6, <1>7, <1>8, <1>9, <1>10 DEF Remount
<1>12. GoodTables(g, disk_handles) /\ g.volumes = Put(volumes, v, Released(volumes[v]))
  BY <1>2, <1>3, <1>5, <1>11, TablesGood, UnmountVolumeGood
<1>13. GoodTables(t, disk_handles)
  BY <1>4, <1>6, <1>12, MountDeviceGood
<1>14. GoodTables(e, disk_handles) /\ e.volumes = t.volumes
  <2>1. e.mounts = t.mounts /\ e.volumes = t.volumes /\ e.next = t.next /\ IsTables(e)
    BY <1>9, <1>13 DEF GoodTables, IsTables
  <2> QED BY <1>13, <2>1 DEF GoodTables
<1>15. f \in Policy /\ f.read_only = old.read_only
  BY <1>4, <1>8 DEF Policy, ReadWrite
<1>16. GoodTables(r, disk_handles) /\ Adds(e, r, old.device, f.read_only)
  BY <1>4, <1>10, <1>14, <1>15, MountDeviceGood
<1>17. ReadsOwnMount'
  BY <1>11, OtherResult
<1>18. VfsInv'
  <2>1. CASE ok
    BY <1>11, <1>13, <1>17, <2>1, BecomesGood
  <2>2. CASE ~ok
    BY <1>11, <1>16, <1>17, <2>2, BecomesGood
  <2> QED BY <2>1, <2>2
<1>19. result'.ok = ok
  BY <1>11
<1>20. ASSUME ~ok
       PROVE  /\ g.volumes = e.volumes
              /\ Adds(e, r, volumes[v].device, volumes[v].read_only)
              /\ volumes' = r.volumes
  <2>1. g.volumes = e.volumes
    BY <1>7, <1>14, <1>20
  <2>2. volumes' = r.volumes
    BY <1>11, <1>20 DEF Becomes
  <2> QED BY <1>3, <1>15, <1>16, <2>1, <2>2
<1> QED BY <1>2, <1>12, <1>18, <1>19, <1>20

(* The other actions                                                       *)
LEMMA StepKeepsInv ==
    ASSUME VfsInv, [Next]_vars
    PROVE  VfsInv'
<1>1. CASE UNCHANGED vars
  BY <1>1 DEF vars, VfsInv, ReadsOwnMount
<1>2. CASE \E path \in Files : Open(path)
  <2>1. PICK path \in Files : Open(path)
    BY <1>2
  <2>2. Len(path) \in Nat
    BY VfsAssumption
  <2> QED BY <2>1, <2>2, OpenKeepsInv
<1>3. CASE \E h \in Handles : Close(h)
  BY <1>3, CloseKeepsInv
<1>4. CASE \E h \in Handles : Read(h)
  <2>1. PICK h \in Handles : Read(h)
    BY <1>4
  <2>2. PICK s : s = MountForPath(disk_handles[h].path)
    OBVIOUS
  <2>3. /\ disk_handles[h].mount # 0 => s = disk_handles[h].mount
        /\ result' = [op |-> "read", handle |-> h, served |-> s]
        /\ disk_handles' = disk_handles
        /\ mounts' = mounts /\ volumes' = volumes /\ next_generation' = next_generation
    BY <2>1, <2>2 DEF Read, tables
  <2>4. ReadsOwnMount'
    BY <2>3 DEF ReadsOwnMount
  <2> QED BY <2>3, <2>4 DEF VfsInv
<1>5. CASE \E outcome \in Outcomes : Rescan(outcome)
  <2>1. PICK outcome \in Outcomes : Rescan(outcome)
    BY <1>5
  <2>2. PICK t : t = MountAllVolumes(Tables, outcome, write_protected)
    OBVIOUS
  <2>3. GoodTables(t, disk_handles)
    BY <2>2, TablesGood, MountAllGood
  <2>4. Becomes(t) /\ result' = NoResult /\ UNCHANGED disk_handles
    BY <2>1, <2>2 DEF Rescan
  <2>5. ReadsOwnMount'
    BY <2>4, OtherResult DEF NoResult
  <2> QED BY <2>3, <2>4, <2>5, BecomesGood
<1>6. CASE \E d \in Registered, point \in UserPoints, flags \in Policies :
             \E a \in Answers[d] : Mount(d, point, flags, a)
  <2>0. PICK d \in Registered, point \in UserPoints, flags \in Policies :
           \E a \in Answers[d] : Mount(d, point, flags, a)
    BY <1>6
  <2>1. PICK a \in Answers[d] : Mount(d, point, flags, a)
    BY <2>0
  <2>2. PICK t : t = MountDevice(Tables, d, point, flags, a)
    OBVIOUS
  <2>3. flags \in Policy /\ Len(point) \in Nat
    BY VfsAssumption DEF Policy
  <2>4. GoodTables(t, disk_handles)
    BY <2>2, <2>3, TablesGood, MountDeviceGood
  <2>5. Becomes(t) /\ result' = NoResult /\ UNCHANGED disk_handles
    BY <2>1, <2>2 DEF Mount
  <2>6. ReadsOwnMount'
    BY <2>5, OtherResult DEF NoResult
  <2> QED BY <2>4, <2>5, <2>6, BecomesGood
<1>7. CASE \E point \in UserPoints : Unmount(point)
  <2>1. PICK point \in UserPoints : Unmount(point)
    BY <1>7
  <2>2. PICK v : v = First(VolumesAt(point))
    OBVIOUS
  <2>3. v \in 1 .. Len(volumes) /\ volumes[v].valid
    <3>1. VolumesAt(point) \subseteq {w \in 1 .. Len(volumes) : volumes[w].valid}
      BY EntriesTyped, TablesGood DEF VolumesAt, ValidVolumes
    <3>2. VolumesAt(point) \subseteq Nat /\ VolumesAt(point) # {}
      BY <2>1, <3>1 DEF Unmount
    <3>3. v \in VolumesAt(point)
      BY <2>2, <3>2, FirstIn
    <3> QED BY <3>1, <3>3
  <2>4. PICK t : t = UnmountVolume(Tables, v)
    OBVIOUS
  <2>5. /\ CanUnmount(Tables, volumes[v].mount)
        /\ Becomes(t) /\ result' = NoResult /\ UNCHANGED disk_handles
    BY <2>1, <2>2, <2>4 DEF Unmount
  <2>6. GoodTables(t, disk_handles)
    BY <2>3, <2>4, <2>5, TablesGood, UnmountVolumeGood
  <2>7. ReadsOwnMount'
    BY <2>5, OtherResult DEF NoResult
  <2> QED BY <2>5, <2>6, <2>7, BecomesGood
<1>8. CASE \E point \in UserPoints, flags \in Policies :
             \E v \in VolumesAt(point) : \E a, b \in Answers[volumes[v].device] :
                Remount(point, flags, a, b)
  <2>0. PICK point \in UserPoints, flags \in Policies : \E a, b : Remount(point, flags, a, b)
    BY <1>8
  <2>1. PICK a, b : Remount(point, flags, a, b)
    BY <2>0
  <2>2. flags \in Policy /\ Len(point) \in Nat
    BY VfsAssumption DEF Policy
  <2> QED BY <2>1, <2>2, RemountIs
<1>9. CASE \E d \in Unplugged, synced \in SUBSET (DOMAIN volumes) : DeviceRemoved(d, synced)
  BY <1>9, DeviceRemovedKeepsInv
<1> QED BY <1>1, <1>2, <1>3, <1>4, <1>5, <1>6, <1>7, <1>8, <1>9 DEF Next

(* vfs_initialize                                                          *)
LEMMA VfsInitInv == Init => VfsInv
<1> SUFFICES ASSUME Init PROVE VfsInv
  OBVIOUS
<1>1. PICK hs : hs = [h \in Handles |-> NoHandle]
  OBVIOUS
<1>2. PICK m : m = [s \in Slots |-> NoMount]
  OBVIOUS
<1>3. PICK vs : vs = << >>
  OBVIOUS
<1>4. PICK e : e = [mounts |-> m, next |-> 1, volumes |-> vs, full |-> FALSE]
  OBVIOUS
<1>5. PICK t, outcome : /\ t = MountAllVolumes(e, outcome, write_protected)
                        /\ mounts = t.mounts /\ next_generation = t.next /\ volumes = t.volumes
  BY <1>2, <1>3, <1>4 DEF Init
<1>6. disk_handles = hs /\ result = NoResult
  BY <1>1 DEF Init
<1>7. /\ \A h \in Handles : ~hs[h].used
      /\ hs = [h \in Handles |-> hs[h]]
  BY <1>1 DEF NoHandle
<1>8. /\ \A s \in Slots : ~m[s].active
      /\ m \in [Slots -> MountSet \union {NoMount}]
  BY <1>2 DEF NoMount
<1>9. Len(vs) = 0 /\ IsSeq(vs)
  BY <1>3 DEF IsSeq
<1>10. Good(m, vs, hs) /\ Pointed(vs)
  <2>1. Typed(m, vs, hs)
    BY <1>7, <1>8, <1>9 DEF Typed
  <2>2. Matching(m, vs)
    BY <1>8, <1>9 DEF Matching, Covered, AllFit, Distinct
  <2>3. \A s \in Slots : OpenAt(hs, s) = {}
    BY <1>7 DEF OpenAt
  <2>4. Counted(m, hs)
    BY <1>8, <2>3 DEF Counted
  <2>5. Pointed(vs)
    BY <1>9, VfsAssumption DEF Pointed
  <2> QED BY <2>1, <2>2, <2>4, <2>5 DEF Good
<1>11. GoodTables(e, hs)
  BY <1>4, <1>10 DEF GoodTables, IsTables
<1>12. GoodTables(t, hs)
  BY <1>5, <1>11, MountAllGood
<1>13. ReadsOwnMount
  BY <1>6 DEF ReadsOwnMount, NoResult
<1> QED BY <1>5, <1>6, <1>7, <1>12, <1>13 DEF VfsInv, GoodTables

(* The invariant holds in every reachable state.                           *)
THEOREM VfsInvariant == Spec => []VfsInv
  BY VfsInitInv, StepKeepsInv, PTL DEF Spec

-----------------------------------------------------------------------------
(* What follows                                                            *)

(* Open handles keep their mounts: for any number of devices, mount slots  *)
(* and handles, and whatever is mounted, unmounted, remounted or removed,  *)
(* each mount counts exactly the handles that filesystem_mount_acquire and *)
(* filesystem_mount_release have left on it, and vfs_read reads from the   *)
(* mount the file was opened on.                                           *)
THEOREM HandlesCorrect == Spec => []HandlesSound
<1>1. VfsInv => HandlesSound
  <2> SUFFICES ASSUME VfsInv PROVE HandlesSound
    OBVIOUS
  <2>1. Counted(mounts, disk_handles) /\ ReadsOwnMount
    BY DEF VfsInv, Good
  <2>2. \A s : OpenOn(s) = OpenAt(disk_handles, s)
    BY DEF OpenOn, OpenAt
  <2>3. HandlesCounted
    BY <2>1, <2>2 DEF HandlesCounted, Counted, ActiveMounts
  <2> QED BY <2>1, <2>3 DEF HandlesSound
<1> QED BY <1>1, VfsInvariant, PTL

(* The invariant says that the two tables are one.                         *)
LEMMA VfsInvVolumesSound == VfsInv => VolumesSound
<1> SUFFICES ASSUME VfsInv PROVE VolumesSound
  OBVIOUS
<1>1. PICK n \in Nat : n = Len(volumes) /\ DOMAIN volumes = 1 .. n
  BY EntriesTyped
<1>2. Valid = {v \in 1 .. n : volumes[v].valid}
  BY <1>1, TablesGood DEF Valid, ValidVolumes
<1>3. /\ \A s \in Slots : mounts[s].active =>
            \E v \in 1 .. n : volumes[v].valid /\ volumes[v].mount = s
      /\ \A v \in 1 .. n : volumes[v].valid => Fits(mounts, volumes[v])
      /\ \A v, w \in 1 .. n : volumes[v].valid /\ volumes[w].valid /\ v # w =>
            volumes[v].mount # volumes[w].mount /\ volumes[v].device # volumes[w].device
  BY <1>1 DEF VfsInv, Good, Matching, Covered, AllFit, Distinct
<1>4. \A v \in Valid : volumes[v].mount \in Slots /\ Fits(mounts, volumes[v])
  BY <1>1, <1>2, <1>3, EntriesTyped
<1>5. {volumes[v].mount : v \in Valid} = ActiveMounts
<2>1. \A v \in Valid : volumes[v].mount \in ActiveMounts
    BY <1>4 DEF ActiveMounts, Fits
<2>2. \A s \in ActiveMounts : \E v \in Valid : volumes[v].mount = s
    BY <1>2, <1>3 DEF ActiveMounts
<2> QED BY <2>1, <2>2
<1>6. VolumesMatchMounts
  BY <1>2, <1>3, <1>4, <1>5 DEF VolumesMatchMounts, Fits
<1>7. PointsDistinct
<2>1. \A v, w \in 1 .. n :
           volumes[v].valid /\ volumes[w].valid /\ v # w
              /\ volumes[v].mount_point = volumes[w].mount_point => volumes[v].mount_point = System
    BY <1>1 DEF VfsInv, Pointed
<2> QED BY <1>2, <2>1 DEF PointsDistinct
<1> QED BY <1>6, <1>7 DEF VolumesSound

(* The mount slots of filesystem.c and the volume table of vfs.c           *)
(* correspond one to one, no device is mounted twice, no volume shows a    *)
(* weaker policy than its mount has, and no two volumes have one mount     *)
(* point, but for /system.                                                 *)
THEOREM VolumesCorrect == Spec => []VolumesSound
  BY VfsInvVolumesSound, VfsInvariant, PTL

(* The second attempt of vfs_remount                                       *)
LEMMA FailedRemount ==
    ASSUME VfsInv, NEW point, Len(point) \in Nat, NEW flags \in Policy, NEW outcome, NEW second,
           Remount(point, flags, outcome, second)
    PROVE  FailedRemountStep
<1> SUFFICES ASSUME ~result'.ok, NEW v \in Valid, NEW w \in Valid',
                    volumes[v].device = volumes'[w].device, volumes[v].read_only
             PROVE  volumes'[w].read_only
  BY DEF FailedRemountStep
<1>1. VfsInv'
  BY RemountIs
<1>2. PICK k, g, t, r :
         /\ k \in 1 .. Len(volumes)
         /\ volumes[k].valid
         /\ GoodTables(g, disk_handles)
         /\ g.volumes = Put(volumes, k, Released(volumes[k]))
         /\ g.volumes = t.volumes
         /\ Adds(t, r, volumes[k].device, volumes[k].read_only)
         /\ volumes' = r.volumes
  BY RemountIs
<1>3. PICK n \in Nat : n = Len(volumes) /\ DOMAIN volumes = 1 .. n /\ IsSeq(volumes)
  <2>1. IsSeq(volumes)
    BY DEF VfsInv, Good, Typed
  <2> QED BY <2>1, EntriesTyped
<1>4. v \in 1 .. n /\ volumes[v].valid
  BY <1>3, TablesGood DEF Valid, ValidVolumes
<1>5. w \in DOMAIN volumes' /\ volumes'[w].valid
  BY DEF Valid, ValidVolumes, Tables
<1>6. \A u \in 1 .. n : volumes[u].valid /\ u # v => volumes[u].device # volumes[v].device
  BY <1>3, <1>4 DEF VfsInv, Good, Matching, Distinct
<1>7. PICK vs : vs = g.volumes
  OBVIOUS
<1>8. /\ Len(vs) = n /\ IsSeq(vs)
      /\ vs[k] = Released(volumes[k])
      /\ \A u \in 1 .. n : u # k => vs[u] = volumes[u]
  <2>1. PICK x : x = Released(volumes[k])
    OBVIOUS
  <2>2. vs = Put(volumes, k, x) /\ k \in 1 .. n + 1 /\ k # n + 1
    <3>1. vs = Put(volumes, k, x)
      BY <1>2, <1>7, <2>1, Zenon
    <3>2. k \in 1 .. n
      BY <1>2, <1>3
    <3>3. k \in 1 .. n + 1 /\ k # n + 1
      BY <3>2
    <3> QED BY <3>1, <3>3
  <2>3. /\ IsSeq(vs)
        /\ Len(vs) \in Nat /\ Len(vs) = (IF k = n + 1 THEN n + 1 ELSE n)
        /\ vs[k] = x
        /\ \A u \in 1 .. n : u # k => vs[u] = volumes[u]
    BY <1>3, <2>2, PutIs
  <2> QED BY <2>1, <2>2, <2>3
<1>9. ~vs[k].valid
  BY <1>8 DEF Released
<1>10. ASSUME NEW u \in 1 .. n, vs[u].valid, vs[u].device = volumes[v].device
       PROVE  vs[u].read_only
  <2>1. u # k /\ vs[u] = volumes[u]
    BY <1>8, <1>9, <1>10
  <2>2. u = v
    BY <1>6, <1>10, <2>1
  <2> QED BY <2>1, <2>2
<1>11. CASE volumes' = vs
  <2>1. w \in 1 .. n
    BY <1>5, <1>8, <1>11 DEF IsSeq
  <2> QED BY <1>5, <1>10, <1>11, <2>1
<1>12. CASE volumes' # vs
  <2>1. PICK u, x : /\ u \in 1 .. n + 1
                    /\ x.device = volumes[k].device
                    /\ volumes[k].read_only => x.read_only
                    /\ volumes' = Put(vs, u, x)
    BY <1>2, <1>7, <1>8, <1>12 DEF Adds
  <2>2. PICK p : p = Put(vs, u, x)
    OBVIOUS
  <2>3. /\ IsSeq(p)
        /\ Len(p) \in Nat /\ Len(p) = (IF u = n + 1 THEN n + 1 ELSE n)
        /\ p[u] = x
        /\ \A j \in 1 .. n : j # u => p[j] = vs[j]
    BY <1>8, <2>1, <2>2, PutIs
  <2>4. volumes' = p
    BY <2>1, <2>2
  <2>5. CASE w = u
    <3>1. volumes'[w] = x
      BY <2>3, <2>4, <2>5
    <3>2. volumes[k].device = volumes[v].device
      BY <2>1, <3>1
    <3>3. k = v
      BY <1>2, <1>3, <1>6, <3>2
    <3> QED BY <2>1, <3>1, <3>3
  <2>6. CASE w # u
    <3>1. w \in 1 .. Len(p)
      BY <1>5, <2>3, <2>4 DEF IsSeq
    <3>2. w \in 1 .. n
      BY <2>3, <2>6, <3>1
    <3>3. volumes'[w] = vs[w]
      BY <2>3, <2>4, <2>6, <3>2
    <3> QED BY <1>5, <1>10, <3>2, <3>3
  <2> QED BY <2>5, <2>6
<1> QED BY <1>11, <1>12

(* A vfs_remount that fails never leaves a volume writable that was        *)
(* read-only, in whatever state the tables are and whatever the drivers    *)
(* answer to the two attempts.                                             *)
THEOREM RemountCorrect == Spec => FailedRemountKeepsReadOnly
<1>1. ASSUME VfsInv, [Next]_vars PROVE [FailedRemountStep]_vars
  <2> SUFFICES ASSUME Next PROVE FailedRemountStep
    BY <1>1
  <2>1. CASE \E point \in UserPoints, flags \in Policies :
               \E v \in VolumesAt(point) : \E a, b \in Answers[volumes[v].device] :
                  Remount(point, flags, a, b)
    <3>0. PICK point \in UserPoints, flags \in Policies : \E a, b : Remount(point, flags, a, b)
      BY <2>1
    <3>1. PICK a, b : Remount(point, flags, a, b)
      BY <3>0
    <3>2. flags \in Policy /\ Len(point) \in Nat
      BY VfsAssumption DEF Policy
    <3> QED BY <1>1, <3>1, <3>2, FailedRemount
  <2>2. CASE result' = NoResult
    BY <2>2 DEF NoResult, FailedRemountStep
  <2>3. CASE \E h \in Handles : Read(h)
    <3>1. result'.op = "read"
      BY <2>3 DEF Read
    <3> QED BY <3>1 DEF FailedRemountStep
  <2> QED BY <2>1, <2>2, <2>3 DEF Next, Open, Close, Rescan, Mount, Unmount, DeviceRemoved
<1> QED BY <1>1, VfsInvariant, PTL DEF Spec, FailedRemountKeepsReadOnly

-----------------------------------------------------------------------------
(* Virtual disks: the invariant                                            *)

ImageSectors == (UNION {Range(ImageFiles[f]) : f \in DOMAIN ImageFiles})
                    \union {Sector(v) : v \in SectorValues}

SlotRecord == [active : BOOLEAN, path : DOMAIN FileOf \union {""}, format : {"raw", "vhd-fixed"},
               size : Nat, file_size : Nat, read_only : BOOLEAN, device : Nat]

DeviceRecord == [slot : 1 .. VdiskSlots, file : DOMAIN ImageFiles, blocks : Nat,
                 read_only : BOOLEAN, cache : SUBSET [lba : Nat \ {0}, value : ImageSectors]]

TransferRecord ==
    [op : {"none"}] \union [op : {"flush"}, device : Nat]
        \union [op : {"write"}, device : Nat, file : DOMAIN ImageFiles]
        \union [op : {"read"}, device : Nat, lba : Nat, value : ImageSectors]

VdiskTypes ==
    /\ d_files \in [DOMAIN ImageFiles -> Seq(ImageSectors)]
    /\ d_slots \in [1 .. VdiskSlots -> SlotRecord]
    /\ d_devices \in Seq(DeviceRecord)
    /\ d_answer \in TransferRecord

(* The device is the one its slot has now.                                 *)
IsCurrent(d) == SlotOf(d).active /\ SlotOf(d).device = d

(* A slot in use has a device, which was registered for its image.         *)
SlotsRegistered ==
    \A s \in ActiveSlots :
        LET d == d_slots[s].device IN
        /\ d_slots[s].path \in DOMAIN FileOf
        /\ d \in 1 .. Len(d_devices)
        /\ d_devices[d].slot = s
        /\ d_devices[d].file = FileOf[d_slots[s].path]
        /\ d_devices[d].blocks = d_slots[s].size
        /\ d_slots[s].size <= d_slots[s].file_size

(* A device whose slot went to another one is read-only.                   *)
WritersCurrent == \A d \in 1 .. Len(d_devices) : ~d_devices[d].read_only => IsCurrent(d)

(* A file behind two slots in use counts as touched.                       *)
SharedTouched ==
    \A r, s \in ActiveSlots :
        r # s /\ FileOf[d_slots[r].path] = FileOf[d_slots[s].path] =>
            FileOf[d_slots[r].path] \in d_touched

(* The cache of a device agrees with its image.                            *)
CachesRight ==
    \A d \in 1 .. Len(d_devices) : IsCurrent(d) /\ ImageOf(d) \notin d_touched =>
        \A e \in d_devices[d].cache :
            e.lba \in 1 .. Len(d_files[ImageOf(d)]) /\ e.value = d_files[ImageOf(d)][e.lba]

(* An image is as long as it was, and a VHD has its footer.                *)
SizesKept ==
    \A s \in ActiveSlots : FileOf[d_slots[s].path] \notin d_touched =>
        LET image == d_files[FileOf[d_slots[s].path]] IN
        /\ Len(image) = d_slots[s].file_size
        /\ d_slots[s].format = "vhd-fixed" => FixedVhd(image) /\ Len(image) - 1 = d_slots[s].size

AnswerRight ==
    LET d == d_answer.device IN
    /\ d_answer.op # "none" => d \in 1 .. Len(d_devices)
    /\ d_answer.op = "write" => d_answer.file = d_devices[d].file
    /\ d_answer.op = "read" /\ IsCurrent(d) /\ ImageOf(d) \notin d_touched =>
          /\ d_answer.lba \in 1 .. Len(d_files[ImageOf(d)])
          /\ d_answer.value = d_files[ImageOf(d)][d_answer.lba]

VdiskInv ==
    /\ VdiskTypes
    /\ SlotsRegistered /\ WritersCurrent /\ SharedTouched
    /\ CachesRight /\ SizesKept /\ AnswerRight

-----------------------------------------------------------------------------
(* Virtual disks: the steps                                                *)

(* Every path leads to a file of the medium.                               *)
LEMMA PathsLead == \A p \in DOMAIN FileOf : FileOf[p] \in DOMAIN ImageFiles
  BY VirtualDiskAssumption

(* The search of attach_virtual_disk finds a free slot if there is one.    *)
LEMMA LowestFreeIs ==
    ASSUME d_slots \in [1 .. VdiskSlots -> SlotRecord], ActiveSlots # DOMAIN d_slots
    PROVE  LowestFree \in 1 .. VdiskSlots /\ ~d_slots[LowestFree].active
<1> DEFINE T == DOMAIN d_slots \ ActiveSlots
<1>1. T \subseteq Nat /\ T # {}
  BY VirtualDiskAssumption DEF ActiveSlots
<1>2. \E s \in T : \A r \in T : s <= r
  BY <1>1, LeastNumber
<1>3. LowestFree \in T
  BY <1>2 DEF LowestFree
<1> QED BY <1>3 DEF ActiveSlots

(* The entries of the table of devices                                    *)
LEMMA DevicesTyped ==
    ASSUME VdiskInv
    PROVE  \A d \in 1 .. Len(d_devices) :
               /\ d_devices[d] \in DeviceRecord
               /\ d_devices[d].slot \in 1 .. VdiskSlots
<1>1. \A d \in 1 .. Len(d_devices) : d_devices[d] \in DeviceRecord
  BY DEF VdiskInv, VdiskTypes
<1> QED BY <1>1 DEF DeviceRecord

(* What a device that is current says of its slot.                         *)
LEMMA CurrentSlot ==
    ASSUME VdiskInv, NEW d \in 1 .. Len(d_devices), IsCurrent(d)
    PROVE  /\ d_devices[d].slot \in ActiveSlots
           /\ d_devices[d].file = ImageOf(d)
           /\ d_devices[d].blocks = SlotOf(d).size
           /\ ImageOf(d) \in DOMAIN ImageFiles
<1> d_devices[d] \in DeviceRecord
  BY DEF VdiskInv, VdiskTypes
<1>1. d_devices[d].slot \in 1 .. VdiskSlots
  BY DEF DeviceRecord
<1>2. d_devices[d].slot \in ActiveSlots
  BY <1>1 DEF ActiveSlots, IsCurrent, SlotOf, VdiskInv, VdiskTypes
<1> QED BY <1>2, PathsLead DEF VdiskInv, SlotsRegistered, IsCurrent, SlotOf, ImageOf

(* attach_virtual_disk                                                     *)
LEMMA AttachKeeps ==
    ASSUME VdiskInv, NEW path \in DOMAIN FileOf, NEW read_only \in BOOLEAN,
           NEW format \in {"raw", "vhd-fixed"}, NEW size \in Nat,
           size <= Len(d_files[FileOf[path]]),
           format = "vhd-fixed" => /\ FixedVhd(d_files[FileOf[path]])
                                   /\ size = Len(d_files[FileOf[path]]) - 1,
           AttachVirtualDisk(path, read_only, format, size)
    PROVE  VdiskInv'
<1>0. PICK file \in {FileOf[path]}, registered \in {Len(d_devices) < MaxVdiskDevices} :
          /\ d_slots' = [d_slots EXCEPT ![LowestFree] =
                           [active |-> registered, path |-> path, format |-> format, size |-> size,
                            file_size |-> Len(d_files[file]), read_only |-> read_only,
                            device |-> IF registered THEN Len(d_devices) + 1 ELSE 0]]
          /\ d_devices' = IF ~registered THEN d_devices
                          ELSE Append(d_devices, [slot |-> LowestFree, file |-> file, blocks |-> size,
                                                  read_only |-> read_only, cache |-> {}])
          /\ d_touched' = IF \E s \in ActiveSlots : FileOf[d_slots[s].path] = file
                          THEN d_touched \union {file} ELSE d_touched
  BY Zenon DEF AttachVirtualDisk
<1>1. PICK s : s = LowestFree
  OBVIOUS
<1>2. s \in 1 .. VdiskSlots /\ ~d_slots[s].active
  BY <1>1, LowestFreeIs DEF VdiskInv, VdiskTypes, AttachVirtualDisk
<1>3. /\ file = FileOf[path] /\ registered \in BOOLEAN
      /\ d_files' = d_files /\ d_answer' = d_answer
  BY DEF AttachVirtualDisk
<1>4. PICK n \in Nat : n = Len(d_devices)
  BY DEF VdiskInv, VdiskTypes
<1>5. file \in DOMAIN ImageFiles /\ d_files[file] \in Seq(ImageSectors) /\ Len(d_files[file]) \in Nat
  BY <1>3, PathsLead DEF VdiskInv, VdiskTypes
<1>6. PICK x : x = [active |-> registered, path |-> path, format |-> format, size |-> size,
                    file_size |-> Len(d_files[file]), read_only |-> read_only,
                    device |-> IF registered THEN n + 1 ELSE 0]
  OBVIOUS
<1>7. /\ x \in SlotRecord
      /\ x.active = registered /\ x.path = path /\ x.format = format /\ x.size = size
      /\ x.file_size = Len(d_files[file])
      /\ registered => x.device = n + 1
  <2>1. PICK v, l : v = (IF registered THEN n + 1 ELSE 0) /\ l = Len(d_files[file])
    OBVIOUS
  <2>2. v \in Nat /\ (registered => v = n + 1) /\ l \in Nat
    BY <1>3, <1>5, <2>1
  <2>3. x = [active |-> registered, path |-> path, format |-> format, size |-> size,
             file_size |-> l, read_only |-> read_only, device |-> v]
    BY Zenon, <1>6, <2>1
  <2>4. x \in SlotRecord
    BY Zenon, <1>3, <2>2, <2>3 DEF SlotRecord
  <2>5. /\ x.active = registered /\ x.path = path /\ x.format = format /\ x.size = size
        /\ x.file_size = l /\ x.device = v
    BY Zenon, <2>3
  <2> QED BY <2>1, <2>2, <2>4, <2>5
<1>8. /\ d_slots' \in [1 .. VdiskSlots -> SlotRecord]
      /\ d_slots'[s] = x
      /\ \A r \in 1 .. VdiskSlots : r # s => d_slots'[r] = d_slots[r]
  BY <1>0, <1>1, <1>2, <1>4, <1>6, <1>7 DEF VdiskInv, VdiskTypes
<1>9. d_touched \subseteq d_touched' /\ \A t \in ActiveSlots : FileOf[d_slots[t].path] = file => file \in d_touched'
  BY <1>0
<1>10. CASE ~registered
  <2>1. d_devices' = d_devices
    BY <1>0, <1>10
  <2>2. ActiveSlots' = ActiveSlots /\ \A r \in ActiveSlots : r # s /\ d_slots'[r] = d_slots[r]
    BY <1>2, <1>7, <1>8, <1>10 DEF ActiveSlots, VdiskInv, VdiskTypes
  <2>3. \A d \in 1 .. n : d_devices[d].slot \in 1 .. VdiskSlots
    BY <1>4, DevicesTyped
  <2>4. \A d \in 1 .. n : /\ IsCurrent(d)' <=> IsCurrent(d)
                          /\ IsCurrent(d) => ImageOf(d)' = ImageOf(d)
    BY <1>2, <1>7, <1>8, <1>10, <2>1, <2>3 DEF IsCurrent, ImageOf, SlotOf
  <2>5. VdiskTypes'
    BY <1>3, <1>8, <2>1 DEF VdiskInv, VdiskTypes
  <2>6. SlotsRegistered' /\ SharedTouched'
    BY <1>9, <2>1, <2>2 DEF VdiskInv, SlotsRegistered, SharedTouched
  <2>7. WritersCurrent' /\ CachesRight'
    BY <1>3, <1>4, <1>9, <2>1, <2>4 DEF VdiskInv, WritersCurrent, CachesRight
  <2>8. SizesKept'
    BY <1>3, <1>9, <2>2 DEF VdiskInv, SizesKept
  <2>9. AnswerRight'
    BY <1>3, <1>4, <1>9, <2>1, <2>4 DEF VdiskInv, AnswerRight
  <2> QED BY <2>5, <2>6, <2>7, <2>8, <2>9 DEF VdiskInv
<1>11. CASE registered
  <2>0. PICK dev : dev = [slot |-> s, file |-> file, blocks |-> size,
                          read_only |-> read_only, cache |-> {}]
    OBVIOUS
  <2>1. /\ dev \in DeviceRecord /\ dev.slot = s /\ dev.file = file /\ dev.blocks = size
        /\ dev.cache = {}
    BY <1>2, <1>5, <2>0 DEF DeviceRecord
  <2>2. /\ d_devices' \in Seq(DeviceRecord)
        /\ Len(d_devices') = n + 1
        /\ \A d \in 1 .. n : d_devices'[d] = d_devices[d]
        /\ d_devices'[n + 1] = dev
    <3>1. d_devices' = Append(d_devices, dev)
      BY <1>0, <1>1, <1>11, <2>0
    <3> QED BY <1>4, <2>1, <3>1, AppendProperties DEF VdiskInv, VdiskTypes
  <2>3. /\ ActiveSlots' = ActiveSlots \union {s}
        /\ \A r \in ActiveSlots : r # s /\ r \in 1 .. VdiskSlots /\ d_slots'[r] = d_slots[r]
    BY <1>2, <1>7, <1>8, <1>11 DEF ActiveSlots, VdiskInv, VdiskTypes
  <2>4. \A d \in 1 .. n : d_devices[d].slot \in 1 .. VdiskSlots
    BY <1>4, DevicesTyped
  <2>5. \A d \in 1 .. n : /\ IsCurrent(d)' <=> IsCurrent(d)
                          /\ IsCurrent(d) => ImageOf(d)' = ImageOf(d)
    BY <1>2, <1>7, <1>8, <1>11, <2>2, <2>4, SMTT(30) DEF IsCurrent, ImageOf, SlotOf
  <2>6. IsCurrent(n + 1)' /\ ImageOf(n + 1)' = file
    BY <1>3, <1>7, <1>8, <1>11, <2>1, <2>2 DEF IsCurrent, ImageOf, SlotOf
  <2>7. VdiskTypes'
    BY <1>3, <1>8, <2>2 DEF VdiskInv, VdiskTypes
  <2>8. SlotsRegistered'
    <3>1. ASSUME NEW r \in ActiveSlots PROVE d_slots[r].device \in 1 .. n
      BY <1>4 DEF VdiskInv, SlotsRegistered
    <3> QED BY <1>3, <1>4, <1>5, <1>7, <1>8, <1>11, <2>1, <2>2, <2>3, <3>1, SMTT(30) DEF VdiskInv, SlotsRegistered
  <2>9. SharedTouched'
    BY <1>3, <1>7, <1>8, <1>9, <2>3 DEF VdiskInv, SharedTouched
  <2>10. WritersCurrent'
    BY <1>4, <2>2, <2>5, <2>6 DEF VdiskInv, WritersCurrent
  <2>11. CachesRight'
    BY <1>3, <1>4, <1>9, <2>1, <2>2, <2>5 DEF VdiskInv, CachesRight
  <2>12. SizesKept'
    BY <1>3, <1>5, <1>7, <1>8, <1>9, <2>3, SMTT(30) DEF VdiskInv, SizesKept
  <2>13. AnswerRight'
    BY <1>3, <1>4, <1>9, <2>2, <2>5 DEF VdiskInv, AnswerRight
  <2> QED BY <2>7, <2>8, <2>9, <2>10, <2>11, <2>12, <2>13 DEF VdiskInv
<1> QED BY <1>10, <1>11

(* virtual_disk_detach leaves a device that is not current, and read-only. *)
LEMMA DetachKeeps ==
    ASSUME VdiskInv, NEW s \in DOMAIN d_slots, VirtualDiskDetach(s)
    PROVE  VdiskInv'
<1>1. PICK d : d = d_slots[s].device
  OBVIOUS
<1>2. /\ s \in ActiveSlots
      /\ d_slots' = [d_slots EXCEPT ![s].active = FALSE]
      /\ d_devices' = [d_devices EXCEPT ![d].read_only = TRUE]
      /\ d_files' = d_files /\ d_answer' = d_answer /\ d_touched' = d_touched
  BY <1>1 DEF VirtualDiskDetach
<1>3. PICK n \in Nat : n = Len(d_devices)
  BY DEF VdiskInv, VdiskTypes
<1>4. /\ s \in 1 .. VdiskSlots /\ d_slots \in [1 .. VdiskSlots -> SlotRecord]
      /\ d_devices \in Seq(DeviceRecord)
  BY DEF VdiskInv, VdiskTypes
<1>5. d \in 1 .. n /\ d_devices[d].slot = s
  BY <1>1, <1>2, <1>3 DEF VdiskInv, SlotsRegistered
<1>6. /\ d_slots' \in [1 .. VdiskSlots -> SlotRecord]
      /\ ~d_slots'[s].active
      /\ \A r \in 1 .. VdiskSlots : r # s => d_slots'[r] = d_slots[r]
  <2>1. PICK y : y = [d_slots[s] EXCEPT !.active = FALSE]
    OBVIOUS
  <2>2. d_slots[s] \in SlotRecord
    BY <1>4
  <2>3. y \in SlotRecord /\ ~y.active
    BY <2>1, <2>2 DEF SlotRecord
  <2>4. d_slots' = [d_slots EXCEPT ![s] = y]
    BY <1>2, <2>1
  <2> QED BY <1>4, <2>3, <2>4
<1>7. PICK x : x = [d_devices[d] EXCEPT !.read_only = TRUE]
  OBVIOUS
<1>8. /\ x \in DeviceRecord
      /\ x.slot = d_devices[d].slot /\ x.file = d_devices[d].file
      /\ x.blocks = d_devices[d].blocks /\ x.cache = d_devices[d].cache /\ x.read_only
  BY <1>3, <1>5, <1>7, DevicesTyped DEF DeviceRecord
<1>9. /\ d_devices' \in Seq(DeviceRecord) /\ Len(d_devices') = n
      /\ \A j \in 1 .. n : d_devices'[j] = IF j = d THEN x ELSE d_devices[j]
  <2>1. d_devices' = [d_devices EXCEPT ![d] = x]
    BY <1>2, <1>7
  <2> QED BY <1>3, <1>4, <1>5, <1>8, <2>1, ExceptSeq
<1>10. /\ ActiveSlots' = ActiveSlots \ {s}
       /\ \A r \in ActiveSlots' : r \in ActiveSlots /\ r # s /\ d_slots'[r] = d_slots[r]
  BY <1>4, <1>6 DEF ActiveSlots
<1>11. \A j \in 1 .. n : /\ IsCurrent(j)' => IsCurrent(j) /\ j # d /\ ImageOf(j)' = ImageOf(j)
                         /\ IsCurrent(j) /\ j # d => IsCurrent(j)'
  <2> SUFFICES ASSUME NEW j \in 1 .. n
               PROVE  /\ IsCurrent(j)' => IsCurrent(j) /\ j # d /\ ImageOf(j)' = ImageOf(j)
                      /\ IsCurrent(j) /\ j # d => IsCurrent(j)'
    OBVIOUS
  <2>1. d_devices[j].slot \in 1 .. VdiskSlots /\ d_devices'[j].slot = d_devices[j].slot
    BY <1>3, <1>8, <1>9, DevicesTyped
  <2>2. CASE d_devices[j].slot = s
    <3>1. ~SlotOf(j)'.active
      BY <1>6, <2>1, <2>2 DEF SlotOf
    <3>2. IsCurrent(j) => j = d
      BY <1>1, <2>2 DEF IsCurrent, SlotOf
    <3> QED BY <3>1, <3>2 DEF IsCurrent
  <2>3. CASE d_devices[j].slot # s
    BY <1>5, <1>6, <2>1, <2>3 DEF IsCurrent, SlotOf, ImageOf
  <2> QED BY <2>2, <2>3
<1>12. VdiskTypes'
  BY <1>2, <1>6, <1>9 DEF VdiskInv, VdiskTypes
<1>13. SlotsRegistered'
  <2> SUFFICES ASSUME NEW r \in ActiveSlots'
               PROVE  LET j == d_slots[r].device IN
                      (/\ d_slots[r].path \in DOMAIN FileOf
                       /\ j \in 1 .. Len(d_devices)
                       /\ d_devices[j].slot = r
                       /\ d_devices[j].file = FileOf[d_slots[r].path]
                       /\ d_devices[j].blocks = d_slots[r].size
                       /\ d_slots[r].size <= d_slots[r].file_size)'
    BY DEF SlotsRegistered
  <2>1. r \in ActiveSlots /\ r # s /\ d_slots'[r] = d_slots[r]
    BY <1>10
  <2>2. d_slots[r].device \in 1 .. n /\ d_devices[d_slots[r].device].slot = r
    BY <1>3, <2>1 DEF VdiskInv, SlotsRegistered
  <2>3. d_devices'[d_slots[r].device] = d_devices[d_slots[r].device]
    BY <1>5, <1>9, <2>1, <2>2
  <2> QED BY <1>3, <1>9, <2>1, <2>2, <2>3 DEF VdiskInv, SlotsRegistered
<1>14. WritersCurrent'
  BY <1>3, <1>8, <1>9, <1>11 DEF VdiskInv, WritersCurrent
<1>15. SharedTouched' /\ SizesKept'
  BY <1>2, <1>10 DEF VdiskInv, SharedTouched, SizesKept
<1>16. CachesRight'
  BY <1>2, <1>3, <1>8, <1>9, <1>11 DEF VdiskInv, CachesRight
<1>17. AnswerRight'
  BY <1>2, <1>3, <1>8, <1>9, <1>11 DEF VdiskInv, AnswerRight
<1> QED BY <1>12, <1>13, <1>14, <1>15, <1>16, <1>17 DEF VdiskInv

(* What a change of caches leaves as it is.                                *)
SameButCaches ==
    /\ Len(d_devices') = Len(d_devices)
    /\ \A j \in 1 .. Len(d_devices) :
          /\ d_devices'[j].slot = d_devices[j].slot /\ d_devices'[j].file = d_devices[j].file
          /\ d_devices'[j].blocks = d_devices[j].blocks
          /\ d_devices'[j].read_only = d_devices[j].read_only

(* While the slots stay, so do the devices that are current.               *)
LEMMA SlotsStay ==
    ASSUME VdiskInv, d_slots' = d_slots, d_touched \subseteq d_touched', SameButCaches
    PROVE  /\ SlotsRegistered' /\ WritersCurrent' /\ SharedTouched'
           /\ \A j \in 1 .. Len(d_devices) : /\ IsCurrent(j)' <=> IsCurrent(j)
                                             /\ ImageOf(j)' = ImageOf(j)
<1>1. PICK n \in Nat : n = Len(d_devices)
  BY DEF VdiskInv, VdiskTypes
<1>2. \A j \in 1 .. n : (IsCurrent(j)' <=> IsCurrent(j)) /\ ImageOf(j)' = ImageOf(j)
  BY <1>1 DEF SameButCaches, IsCurrent, ImageOf, SlotOf
<1>3. ActiveSlots' = ActiveSlots
  BY DEF ActiveSlots
<1>4. SlotsRegistered' /\ SharedTouched'
  BY <1>1, <1>3 DEF VdiskInv, SlotsRegistered, SharedTouched, SameButCaches
<1>5. WritersCurrent'
  BY <1>1, <1>2 DEF VdiskInv, WritersCurrent, SameButCaches
<1> QED BY <1>1, <1>2, <1>4, <1>5

(* block_cache_store, for the blocks of a transfer                         *)
LEMMA CacheBlocksIs ==
    ASSUME VdiskInv, NEW d \in 1 .. Len(d_devices),
           NEW blocks \in SUBSET [lba : Nat \ {0}, value : ImageSectors],
           d_devices' = CacheBlocks(d, blocks)
    PROVE  /\ d_devices' \in Seq(DeviceRecord) /\ SameButCaches
           /\ \A j \in 1 .. Len(d_devices) : j # d => d_devices'[j].cache = d_devices[j].cache
           /\ \A e \in d_devices'[d].cache :
                 e \in blocks \/ (e \in d_devices[d].cache /\ \A b \in blocks : e.lba # b.lba)
<1>1. PICK n \in Nat : n = Len(d_devices)
  BY DEF VdiskInv, VdiskTypes
<1>2. PICK c : c = {e \in d_devices[d].cache : \A b \in blocks : e.lba # b.lba} \union blocks
  OBVIOUS
<1>3. PICK x : x = [d_devices[d] EXCEPT !.cache = c]
  OBVIOUS
<1>4. d_devices[d] \in DeviceRecord
  BY DevicesTyped
<1>5. c \in SUBSET [lba : Nat \ {0}, value : ImageSectors]
  BY <1>2, <1>4 DEF DeviceRecord
<1>6. /\ x \in DeviceRecord
      /\ x.slot = d_devices[d].slot /\ x.file = d_devices[d].file
      /\ x.blocks = d_devices[d].blocks /\ x.read_only = d_devices[d].read_only /\ x.cache = c
  BY <1>3, <1>4, <1>5 DEF DeviceRecord
<1>7. d_devices' = [d_devices EXCEPT ![d] = x]
  BY <1>2, <1>3 DEF CacheBlocks
<1>8. /\ d_devices' \in Seq(DeviceRecord) /\ Len(d_devices') = n
      /\ \A j \in 1 .. n : d_devices'[j] = IF j = d THEN x ELSE d_devices[j]
  BY <1>1, <1>6, <1>7, ExceptSeq DEF VdiskInv, VdiskTypes
<1>9. SameButCaches
  BY <1>1, <1>6, <1>8 DEF SameButCaches
<1> QED BY <1>1, <1>2, <1>6, <1>8, <1>9

(* raw_read_blocks and raw_write_blocks stay within the image, and what is *)
(* read or was cached is what the image of a current device holds.         *)
LEMMA InBounds ==
    ASSUME VdiskInv, NEW d \in 1 .. Len(d_devices), NEW lba \in Nat \ {0}, RawInBounds(d, lba)
    PROVE  /\ ImageOf(d) \in DOMAIN ImageFiles
           /\ d_files[ImageOf(d)] \in Seq(ImageSectors)
           /\ lba \in 1 .. Len(d_files[ImageOf(d)])
<1>1. d_devices[d].slot \in 1 .. VdiskSlots /\ SlotOf(d).active
  BY DevicesTyped DEF RawInBounds
<1>2. d_devices[d].slot \in ActiveSlots /\ SlotOf(d) \in SlotRecord
  BY <1>1 DEF ActiveSlots, SlotOf, VdiskInv, VdiskTypes
<1>3. SlotOf(d).path \in DOMAIN FileOf /\ SlotOf(d).size <= SlotOf(d).file_size
  BY <1>2 DEF VdiskInv, SlotsRegistered, SlotOf
<1>4. ImageOf(d) \in DOMAIN ImageFiles /\ d_files[ImageOf(d)] \in Seq(ImageSectors)
  BY <1>3, PathsLead DEF ImageOf, VdiskInv, VdiskTypes
<1>5. lba <= SlotOf(d).size /\ Len(d_files[ImageOf(d)]) = SlotOf(d).file_size
  BY DEF RawInBounds
<1>6. SlotOf(d).size \in Nat /\ SlotOf(d).file_size \in Nat
  BY <1>2 DEF SlotRecord
<1> QED BY <1>3, <1>4, <1>5, <1>6

(* What is cached of a block, or is read of it, is right.                  *)
LEMMA BlocksRight ==
    ASSUME VdiskInv, NEW d \in 1 .. Len(d_devices), NEW lba \in Nat \ {0},
           NEW e \in Cached(d, lba) \union FromImage(d, lba)
    PROVE  /\ e \in [lba : Nat \ {0}, value : ImageSectors] /\ e.lba = lba
           /\ IsCurrent(d) /\ ImageOf(d) \notin d_touched =>
                 lba \in 1 .. Len(d_files[ImageOf(d)]) /\ e.value = d_files[ImageOf(d)][lba]
<1>1. CASE e \in Cached(d, lba)
  <2>1. e \in d_devices[d].cache /\ e.lba = lba
    BY <1>1 DEF Cached
  <2>2. d_devices[d] \in DeviceRecord
    BY DevicesTyped
  <2> QED BY <2>1, <2>2 DEF DeviceRecord, VdiskInv, CachesRight
<1>2. CASE e \in FromImage(d, lba)
  <2>1. RawInBounds(d, lba) /\ e = [lba |-> lba, value |-> d_files[ImageOf(d)][lba]]
    BY <1>2 DEF FromImage
  <2>2. PICK i \in Seq(ImageSectors) : i = d_files[ImageOf(d)] /\ lba \in 1 .. Len(i)
    BY <2>1, InBounds
  <2>3. i[lba] \in ImageSectors
    BY <2>2
  <2> QED BY <2>1, <2>2, <2>3
<1> QED BY <1>1, <1>2

(* block_device_read                                                       *)
LEMMA ReadSectorKeeps ==
    ASSUME VdiskInv, NEW d \in 1 .. Len(d_devices), NEW lba \in 1 .. d_devices[d].blocks,
           ReadSector(d, lba)
    PROVE  VdiskInv'
<1>1. d_devices[d] \in DeviceRecord
  BY DevicesTyped
<1>2. lba \in Nat \ {0} /\ lba + 1 \in Nat \ {0}
  BY <1>1 DEF DeviceRecord
<1>3. PICK block \in Cached(d, lba) \union FromImage(d, lba) :
          /\ d_answer' = [op |-> "read", device |-> d, lba |-> lba, value |-> block.value]
          /\ d_devices' = CacheBlocks(d, {block} \union Ahead(d, lba + 1))
  BY DEF ReadSector
<1>4. /\ d_slots' = d_slots /\ d_files' = d_files /\ d_touched' = d_touched
  BY DEF ReadSector
<1>5. PICK blocks : blocks = {block} \union Ahead(d, lba + 1)
  OBVIOUS
<1>6. ASSUME NEW e \in blocks
      PROVE  /\ e \in [lba : Nat \ {0}, value : ImageSectors]
             /\ IsCurrent(d) /\ ImageOf(d) \notin d_touched =>
                   e.lba \in 1 .. Len(d_files[ImageOf(d)]) /\ e.value = d_files[ImageOf(d)][e.lba]
  <2>1. CASE e = block
    BY <1>2, <1>3, <2>1, BlocksRight
  <2>2. CASE e \in Ahead(d, lba + 1)
    <3>1. e \in FromImage(d, lba + 1)
      BY <2>2 DEF Ahead
    <3> QED BY <1>2, <3>1, BlocksRight
  <2> QED BY <1>5, <2>1, <2>2
<1>7. /\ d_devices' \in Seq(DeviceRecord) /\ SameButCaches
      /\ \A j \in 1 .. Len(d_devices) : j # d => d_devices'[j].cache = d_devices[j].cache
      /\ \A e \in d_devices'[d].cache : e \in blocks \/ e \in d_devices[d].cache
  <2>1. blocks \in SUBSET [lba : Nat \ {0}, value : ImageSectors]
    BY <1>6
  <2>2. d_devices' = CacheBlocks(d, blocks)
    BY <1>3, <1>5
  <2>3. /\ d_devices' \in Seq(DeviceRecord) /\ SameButCaches
        /\ \A j \in 1 .. Len(d_devices) : j # d => d_devices'[j].cache = d_devices[j].cache
        /\ \A e \in d_devices'[d].cache :
              e \in blocks \/ (e \in d_devices[d].cache /\ \A b \in blocks : e.lba # b.lba)
    BY <2>1, <2>2, CacheBlocksIs
  <2> QED BY <2>3
<1>8. /\ SlotsRegistered' /\ WritersCurrent' /\ SharedTouched'
      /\ \A j \in 1 .. Len(d_devices) : (IsCurrent(j)' <=> IsCurrent(j)) /\ ImageOf(j)' = ImageOf(j)
  BY <1>4, <1>7, SlotsStay
<1>9. VdiskTypes'
  <2>1. block.value \in ImageSectors
    BY <1>2, <1>3, BlocksRight
  <2>2. d_answer' \in TransferRecord
    BY <1>2, <1>3, <2>1 DEF TransferRecord
  <2> QED BY <1>4, <1>7, <2>2 DEF VdiskInv, VdiskTypes
<1>10. SizesKept'
  BY <1>4 DEF VdiskInv, SizesKept, ActiveSlots
<1>11. CachesRight'
  <2>1. \A e \in d_devices[d].cache : IsCurrent(d) /\ ImageOf(d) \notin d_touched =>
            e.lba \in 1 .. Len(d_files[ImageOf(d)]) /\ e.value = d_files[ImageOf(d)][e.lba]
    BY DEF VdiskInv, CachesRight
  <2> QED BY <1>4, <1>6, <1>7, <1>8, <2>1 DEF VdiskInv, CachesRight, SameButCaches
<1>12. AnswerRight'
  <2>1. d_answer'.op = "read" /\ d_answer'.device = d /\ d_answer'.lba = lba
        /\ d_answer'.value = block.value
    BY <1>3
  <2>2. IsCurrent(d) /\ ImageOf(d) \notin d_touched =>
            lba \in 1 .. Len(d_files[ImageOf(d)]) /\ block.value = d_files[ImageOf(d)][lba]
    BY <1>2, <1>3, BlocksRight
  <2> QED BY <1>4, <1>7, <1>8, <2>1, <2>2 DEF AnswerRight, SameButCaches
<1> QED BY <1>8, <1>9, <1>10, <1>11, <1>12 DEF VdiskInv

(* Two devices that are current have different images, or the image counts *)
(* as touched.                                                             *)
LEMMA OneDevice ==
    ASSUME VdiskInv, NEW d \in 1 .. Len(d_devices), NEW j \in 1 .. Len(d_devices), j # d,
           IsCurrent(d), IsCurrent(j), ImageOf(j) = ImageOf(d)
    PROVE  ImageOf(d) \in d_touched
<1>1. d_devices[d].slot \in ActiveSlots /\ d_devices[j].slot \in ActiveSlots
  BY CurrentSlot
<1>2. d_devices[d].slot # d_devices[j].slot
  BY DEF IsCurrent, SlotOf
<1> QED BY <1>1, <1>2 DEF VdiskInv, SharedTouched, ImageOf, SlotOf

(* The image after one of its sectors was written.                         *)
WrittenAt(f, lba, value) ==
    /\ d_files' \in [DOMAIN ImageFiles -> Seq(ImageSectors)]
    /\ \A g \in DOMAIN ImageFiles : g # f => d_files'[g] = d_files[g]
    /\ Len(d_files'[f]) = Len(d_files[f])
    /\ \A i \in 1 .. Len(d_files[f]) : d_files'[f][i] = IF i = lba THEN value ELSE d_files[f][i]

(* raw_write_blocks changes one sector of the file it reads and writes.    *)
LEMMA WrittenIs ==
    ASSUME VdiskInv, NEW f \in DOMAIN ImageFiles, NEW lba \in 1 .. Len(d_files[f]),
           NEW value \in ImageSectors, d_files' = [d_files EXCEPT ![f][lba] = value]
    PROVE  WrittenAt(f, lba, value)
<1>1. PICK i : i = [d_files[f] EXCEPT ![lba] = value]
  OBVIOUS
<1>2. d_files[f] \in Seq(ImageSectors)
  BY DEF VdiskInv, VdiskTypes
<1>3. /\ i \in Seq(ImageSectors) /\ Len(i) = Len(d_files[f])
      /\ \A k \in 1 .. Len(d_files[f]) : i[k] = IF k = lba THEN value ELSE d_files[f][k]
  BY <1>1, <1>2, ExceptSeq
<1>4. d_files' = [d_files EXCEPT ![f] = i]
  BY <1>1
<1> QED BY <1>3, <1>4 DEF VdiskInv, VdiskTypes, WrittenAt

(* A call that changes neither files nor slots nor devices                *)
LEMMA QuietKeeps ==
    ASSUME VdiskInv, UNCHANGED <<d_files, d_slots, d_devices, d_touched>>,
           \/ d_answer' = d_answer
           \/ d_answer' = NoTransfer
           \/ \E d \in 1 .. Len(d_devices) : d_answer' = [op |-> "flush", device |-> d]
    PROVE  VdiskInv'
<1>1. d_slots' = d_slots /\ d_files' = d_files /\ d_touched' = d_touched /\ d_devices' = d_devices
  OBVIOUS
<1>2. SameButCaches
  BY <1>1 DEF SameButCaches
<1>3. /\ SlotsRegistered' /\ WritersCurrent' /\ SharedTouched'
      /\ \A j \in 1 .. Len(d_devices) : (IsCurrent(j)' <=> IsCurrent(j)) /\ ImageOf(j)' = ImageOf(j)
  BY <1>1, <1>2, SlotsStay
<1>4. SizesKept' /\ CachesRight'
  BY <1>1, <1>3 DEF VdiskInv, SizesKept, CachesRight, ActiveSlots
<1>5. CASE d_answer' = d_answer
  <2>1. VdiskTypes'
    BY <1>1, <1>5 DEF VdiskInv, VdiskTypes
  <2>2. AnswerRight'
    BY <1>1, <1>3, <1>5 DEF VdiskInv, AnswerRight
  <2> QED BY <1>3, <1>4, <2>1, <2>2 DEF VdiskInv
<1>6. CASE d_answer' = NoTransfer
  <2>1. VdiskTypes'
    BY <1>1, <1>6 DEF VdiskInv, VdiskTypes, NoTransfer, TransferRecord
  <2>2. AnswerRight'
    BY <1>6 DEF AnswerRight, NoTransfer
  <2> QED BY <1>3, <1>4, <2>1, <2>2 DEF VdiskInv
<1>7. CASE \E d \in 1 .. Len(d_devices) : d_answer' = [op |-> "flush", device |-> d]
  <2>1. PICK d \in 1 .. Len(d_devices) : d_answer' = [op |-> "flush", device |-> d]
    BY <1>7
  <2>2. d \in Nat
    BY DEF VdiskInv, VdiskTypes
  <2>3. VdiskTypes'
    BY <1>1, <2>1, <2>2 DEF VdiskInv, VdiskTypes, TransferRecord
  <2>4. AnswerRight'
    BY <1>1, <2>1 DEF AnswerRight
  <2> QED BY <1>3, <1>4, <2>3, <2>4 DEF VdiskInv
<1> QED BY <1>5, <1>6, <1>7

(* A file written by others, or by a write that fails afterwards           *)
LEMMA TouchedKeeps ==
    ASSUME VdiskInv, NEW f \in DOMAIN ImageFiles,
           d_files' \in [DOMAIN ImageFiles -> Seq(ImageSectors)],
           \A g \in DOMAIN ImageFiles : g # f => d_files'[g] = d_files[g],
           d_touched' = d_touched \union {f}, d_answer' = NoTransfer,
           UNCHANGED <<d_slots, d_devices>>
    PROVE  VdiskInv'
<1>1. d_slots' = d_slots /\ d_devices' = d_devices /\ SameButCaches
  BY DEF SameButCaches
<1>2. /\ SlotsRegistered' /\ WritersCurrent' /\ SharedTouched'
      /\ \A j \in 1 .. Len(d_devices) : (IsCurrent(j)' <=> IsCurrent(j)) /\ ImageOf(j)' = ImageOf(j)
  BY <1>1, SlotsStay
<1>3. VdiskTypes'
  BY <1>1 DEF VdiskInv, VdiskTypes, NoTransfer, TransferRecord
<1>4. AnswerRight'
  BY DEF AnswerRight, NoTransfer
<1>5. SizesKept'
  <2>1. ActiveSlots' = ActiveSlots
    BY <1>1 DEF ActiveSlots
  <2>2. \A s \in ActiveSlots : FileOf[d_slots[s].path] \in DOMAIN ImageFiles
    BY PathsLead DEF VdiskInv, SlotsRegistered
  <2> QED BY <1>1, <2>1, <2>2, SMTT(30) DEF VdiskInv, SizesKept
<1>6. CachesRight'
  <2>1. \A j \in 1 .. Len(d_devices) : IsCurrent(j) => ImageOf(j) \in DOMAIN ImageFiles
    BY CurrentSlot
  <2> QED BY <1>1, <1>2, <2>1 DEF VdiskInv, CachesRight
<1> QED BY <1>2, <1>3, <1>4, <1>5, <1>6 DEF VdiskInv

(* block_device_write: a device that may be written is current, its image  *)
(* is the one it was registered for, and the footer stays.                 *)
LEMMA WriteSectorKeeps ==
    ASSUME VdiskInv, NEW d \in 1 .. Len(d_devices), NEW lba \in 1 .. d_devices[d].blocks,
           NEW v \in SectorValues, WriteSector(d, lba, Sector(v))
    PROVE  VdiskInv'
<1>1. PICK value \in ImageSectors : value = Sector(v)
  BY DEF ImageSectors
<1>2. PICK f : f = ImageOf(d)
  OBVIOUS
<1>3. /\ d_slots' = d_slots /\ ~d_devices[d].read_only
      /\ \/ /\ RawInBounds(d, lba)
            /\ d_files' = [d_files EXCEPT ![f][lba] = value]
            /\ d_answer' = [op |-> "write", device |-> d, file |-> f]
            /\ d_devices' = CacheBlocks(d, {[lba |-> lba, value |-> value]})
            /\ d_touched' = d_touched
         \/ /\ d_files' = d_files /\ d_touched' = d_touched
            /\ d_answer' = NoTransfer /\ d_devices' = d_devices
         \/ /\ RawInBounds(d, lba)
            /\ d_files' = [d_files EXCEPT ![f][lba] = value]
            /\ d_touched' = d_touched \union {f}
            /\ d_answer' = NoTransfer /\ d_devices' = d_devices
  BY <1>1, <1>2, Zenon DEF WriteSector
<1>4. lba \in Nat \ {0}
  BY DevicesTyped DEF DeviceRecord
<1>5. IsCurrent(d)
  BY <1>3 DEF VdiskInv, WritersCurrent
<1>6. d_devices[d].file = f /\ f \in DOMAIN ImageFiles /\ d_devices[d].slot \in ActiveSlots
      /\ d_devices[d].blocks = SlotOf(d).size
  BY <1>2, <1>5, CurrentSlot
<1>7. ASSUME RawInBounds(d, lba) PROVE lba \in 1 .. Len(d_files[f])
  BY <1>2, <1>4, <1>7, InBounds
<1>8. CASE d_files' = d_files /\ d_touched' = d_touched /\ d_answer' = NoTransfer /\ d_devices' = d_devices
  BY <1>3, <1>8, QuietKeeps
<1>9. CASE /\ RawInBounds(d, lba)
           /\ d_files' = [d_files EXCEPT ![f][lba] = value]
           /\ d_touched' = d_touched \union {f}
           /\ d_answer' = NoTransfer /\ d_devices' = d_devices
  <2>1. /\ d_files' \in [DOMAIN ImageFiles -> Seq(ImageSectors)]
        /\ \A g \in DOMAIN ImageFiles : g # f => d_files'[g] = d_files[g]
    BY <1>6, <1>7, <1>9, WrittenIs DEF WrittenAt
  <2> QED BY <1>3, <1>6, <1>9, <2>1, TouchedKeeps
<1>10. CASE /\ RawInBounds(d, lba)
            /\ d_files' = [d_files EXCEPT ![f][lba] = value]
            /\ d_answer' = [op |-> "write", device |-> d, file |-> f]
            /\ d_devices' = CacheBlocks(d, {[lba |-> lba, value |-> value]})
            /\ d_touched' = d_touched
  <2>1. PICK l \in Nat : l = Len(d_files[f]) /\ lba \in 1 .. l
    BY <1>6, <1>7, <1>10 DEF VdiskInv, VdiskTypes
  <2>2. /\ d_files' \in [DOMAIN ImageFiles -> Seq(ImageSectors)]
        /\ \A g \in DOMAIN ImageFiles : g # f => d_files'[g] = d_files[g]
        /\ Len(d_files'[f]) = l
        /\ \A i \in 1 .. l : d_files'[f][i] = IF i = lba THEN value ELSE d_files[f][i]
    <3>1. f \in DOMAIN ImageFiles /\ lba \in 1 .. Len(d_files[f])
      BY <1>6, <1>7, <1>10
    <3>2. d_files' = [d_files EXCEPT ![f][lba] = value]
      BY <1>10
    <3>3. WrittenAt(f, lba, value)
      BY <3>1, <3>2, WrittenIs
    <3> QED BY <2>1, <3>3 DEF WrittenAt
  <2>3. PICK b : b = [lba |-> lba, value |-> value]
    OBVIOUS
  <2>4. b \in [lba : Nat \ {0}, value : ImageSectors] /\ b.lba = lba /\ b.value = value
    BY <1>4, <2>3
  <2>5. /\ d_devices' \in Seq(DeviceRecord) /\ SameButCaches
        /\ \A j \in 1 .. Len(d_devices) : j # d => d_devices'[j].cache = d_devices[j].cache
        /\ \A e \in d_devices'[d].cache : e = b \/ (e \in d_devices[d].cache /\ e.lba # lba)
    <3>1. {b} \in SUBSET [lba : Nat \ {0}, value : ImageSectors] /\ d_devices' = CacheBlocks(d, {b})
      BY <1>10, <2>3, <2>4
    <3>2. PICK bs : bs = {b}
      OBVIOUS
    <3>3. /\ d_devices' \in Seq(DeviceRecord) /\ SameButCaches
          /\ \A j \in 1 .. Len(d_devices) : j # d => d_devices'[j].cache = d_devices[j].cache
          /\ \A e \in d_devices'[d].cache :
                 e \in bs \/ (e \in d_devices[d].cache /\ \A c \in bs : e.lba # c.lba)
      <4>1. bs \in SUBSET [lba : Nat \ {0}, value : ImageSectors] /\ d_devices' = CacheBlocks(d, bs)
        BY <3>1, <3>2
      <4> QED BY <4>1, CacheBlocksIs
    <3> QED BY <2>4, <3>2, <3>3
  <2>6. /\ SlotsRegistered' /\ WritersCurrent' /\ SharedTouched'
        /\ \A j \in 1 .. Len(d_devices) : (IsCurrent(j)' <=> IsCurrent(j)) /\ ImageOf(j)' = ImageOf(j)
    BY <1>3, <1>10, <2>5, SlotsStay
  <2>7. VdiskTypes'
    <3>1. d_answer' \in TransferRecord
      BY <1>6, <1>10 DEF TransferRecord, VdiskInv, VdiskTypes
    <3> QED BY <1>3, <2>2, <2>5, <3>1 DEF VdiskInv, VdiskTypes
  <2>8. CachesRight'
    <3> SUFFICES ASSUME NEW j \in 1 .. Len(d_devices), IsCurrent(j), ImageOf(j) \notin d_touched,
                        NEW e \in d_devices'[j].cache
                 PROVE  e.lba \in 1 .. Len(d_files'[ImageOf(j)]) /\ e.value = d_files'[ImageOf(j)][e.lba]
      <4>1. d_touched' = d_touched /\ Len(d_devices') = Len(d_devices)
        BY <1>10, <2>5 DEF SameButCaches
      <4> QED BY <2>6, <4>1 DEF CachesRight
    <3>1. CASE j = d
      <4>1. CASE e = b
        BY <1>2, <2>1, <2>2, <2>4, <3>1, <4>1
      <4>2. CASE e \in d_devices[d].cache /\ e.lba # lba
        <5>1. e.lba \in 1 .. l /\ e.value = d_files[f][e.lba]
          BY <1>2, <2>1, <3>1, <4>2 DEF VdiskInv, CachesRight
        <5> QED BY <1>2, <2>2, <3>1, <4>2, <5>1
      <4> QED BY <2>5, <3>1, <4>1, <4>2
    <3>2. CASE j # d
      <4>1. ImageOf(j) # f
        BY <1>2, <1>5, <3>2, OneDevice
      <4>2. ImageOf(j) \in DOMAIN ImageFiles
        BY CurrentSlot
      <4>3. e \in d_devices[j].cache /\ d_files'[ImageOf(j)] = d_files[ImageOf(j)]
        BY <2>2, <2>5, <3>2, <4>1, <4>2
      <4>4. e.lba \in 1 .. Len(d_files[ImageOf(j)]) /\ e.value = d_files[ImageOf(j)][e.lba]
        BY <4>3 DEF VdiskInv, CachesRight
      <4> QED BY <4>3, <4>4
    <3> QED BY <3>1, <3>2
  <2>9. SizesKept'
    <3>1. ActiveSlots' = ActiveSlots
      BY <1>3 DEF ActiveSlots
    <3> SUFFICES ASSUME NEW s \in ActiveSlots, FileOf[d_slots[s].path] \notin d_touched
                 PROVE  LET image == d_files'[FileOf[d_slots[s].path]] IN
                        /\ Len(image) = d_slots[s].file_size
                        /\ d_slots[s].format = "vhd-fixed" =>
                              FixedVhd(image) /\ Len(image) - 1 = d_slots[s].size
      BY <1>3, <1>10, <3>1 DEF SizesKept
    <3>2. /\ Len(d_files[FileOf[d_slots[s].path]]) = d_slots[s].file_size
          /\ d_slots[s].format = "vhd-fixed" =>
                /\ FixedVhd(d_files[FileOf[d_slots[s].path]])
                /\ Len(d_files[FileOf[d_slots[s].path]]) - 1 = d_slots[s].size
      BY DEF VdiskInv, SizesKept
    <3>3. FileOf[d_slots[s].path] \in DOMAIN ImageFiles
      BY PathsLead DEF VdiskInv, SlotsRegistered
    <3>4. CASE s = d_devices[d].slot
      <4>1. FileOf[d_slots[s].path] = f /\ d_slots[s].size = d_devices[d].blocks
        BY <1>2, <1>6, <3>4 DEF ImageOf, SlotOf
      <4>2. Len(d_files'[f]) = d_slots[s].file_size
        BY <2>1, <2>2, <3>2, <4>1
      <4>3. ASSUME d_slots[s].format = "vhd-fixed"
            PROVE  FixedVhd(d_files'[f]) /\ Len(d_files'[f]) - 1 = d_slots[s].size
        <5>1. FixedVhd(d_files[f]) /\ l - 1 = d_slots[s].size
          BY <2>1, <3>2, <4>1, <4>3
        <5>2. lba # l /\ l \in 1 .. l
          BY <2>1, <4>1, <5>1
        <5>3. d_files'[f][l] = d_files[f][l]
          BY <2>2, <5>2
        <5> QED BY <2>1, <2>2, <5>1, <5>3 DEF FixedVhd, Last
      <4> QED BY <4>1, <4>2, <4>3
    <3>5. CASE s # d_devices[d].slot
      <4>1. FileOf[d_slots[s].path] # f
        BY <1>2, <1>6, <3>5 DEF VdiskInv, SharedTouched, ImageOf, SlotOf
      <4> QED BY <2>2, <3>2, <3>3, <4>1
    <3> QED BY <3>4, <3>5
  <2>10. AnswerRight'
    <3>1. d_answer'.op = "write" /\ d_answer'.device = d /\ d_answer'.file = f
      BY <1>10
    <3> QED BY <1>6, <2>5, <3>1 DEF AnswerRight, SameButCaches
  <2> QED BY <2>6, <2>7, <2>8, <2>9, <2>10 DEF VdiskInv
<1> QED BY <1>3, <1>8, <1>9, <1>10

(* An image written or deleted as a file                                   *)
LEMMA ReplaceKeeps ==
    ASSUME VdiskInv, NEW file \in DOMAIN d_files, NEW image,
           image = << >> \/ \E v \in SectorValues : image = << Sector(v) >>,
           ReplaceFile(file, image)
    PROVE  VdiskInv'
<1>1. image \in Seq(ImageSectors)
  <2>1. CASE image = << >>
    BY <2>1
  <2>2. ASSUME NEW v \in SectorValues, image = << Sector(v) >> PROVE image \in Seq(ImageSectors)
    <3>1. PICK x \in ImageSectors : x = Sector(v)
      BY DEF ImageSectors
    <3> QED BY <2>2, <3>1
  <2> QED BY <2>1, <2>2
<1>2. file \in DOMAIN ImageFiles
  BY DEF VdiskInv, VdiskTypes
<1>3. /\ d_files' \in [DOMAIN ImageFiles -> Seq(ImageSectors)]
      /\ \A g \in DOMAIN ImageFiles : g # file => d_files'[g] = d_files[g]
  BY <1>1, <1>2 DEF ReplaceFile, VdiskInv, VdiskTypes
<1> QED BY <1>2, <1>3, TouchedKeeps DEF ReplaceFile

(* virtual_disk_initialize leaves the tables empty.                        *)
LEMMA VdiskInitInv == VdiskInit => VdiskInv
<1> SUFFICES ASSUME VdiskInit PROVE VdiskInv
  OBVIOUS
<1>1. ASSUME NEW S, NEW T, S \subseteq T, NEW q \in Seq(S) PROVE q \in Seq(T)
  <2>1. PICK n \in Nat : q \in [1 .. n -> S]
    BY SeqDef
  <2>2. q \in [1 .. n -> T]
    BY <1>1, <2>1
  <2> QED BY <2>2, SeqDef
<1>2. d_files \in [DOMAIN ImageFiles -> Seq(ImageSectors)]
  <2>1. PICK S : S = UNION {Range(ImageFiles[f]) : f \in DOMAIN ImageFiles}
    OBVIOUS
  <2>2. S \subseteq ImageSectors
    BY <2>1 DEF ImageSectors
  <2>3. d_files \in [DOMAIN ImageFiles -> Seq(S)]
    BY <2>1, VirtualDiskAssumption DEF VdiskInit
  <2>4. \A q \in Seq(S) : q \in Seq(ImageSectors)
    BY <1>1, <2>2
  <2> QED BY <2>3, <2>4
<1>3. NoSlot \in SlotRecord /\ ~NoSlot.active
  BY DEF NoSlot, SlotRecord
<1>4. d_slots \in [1 .. VdiskSlots -> SlotRecord] /\ \A s \in 1 .. VdiskSlots : ~d_slots[s].active
  BY <1>3 DEF VdiskInit
<1>5. ActiveSlots = {}
  BY <1>4 DEF ActiveSlots
<1>6. d_devices \in Seq(DeviceRecord) /\ Len(d_devices) = 0
  BY DEF VdiskInit
<1>7. d_answer \in TransferRecord /\ d_answer.op = "none"
  BY DEF VdiskInit, NoTransfer, TransferRecord
<1> QED BY <1>2, <1>4, <1>5, <1>6, <1>7
        DEF VdiskInv, VdiskTypes, SlotsRegistered, WritersCurrent, SharedTouched, CachesRight,
            SizesKept, AnswerRight

(* The three forms of attaching                                            *)
LEMMA AttachesKeep ==
    ASSUME VdiskInv, NEW path \in DOMAIN FileOf, NEW read_only \in BOOLEAN,
           \/ VirtualDiskAttachRaw(path, read_only)
           \/ VirtualDiskAttachFixedVhd(path, read_only)
           \/ VirtualDiskAttachAuto(path, read_only)
    PROVE  VdiskInv'
<1>1. PICK l \in Nat : l = Len(d_files[FileOf[path]])
  BY PathsLead DEF VdiskInv, VdiskTypes
<1>2. CASE VirtualDiskAttachRaw(path, read_only)
  <2>1. AttachVirtualDisk(path, read_only, "raw", l)
    BY <1>1, <1>2 DEF VirtualDiskAttachRaw
  <2> QED BY <1>1, <2>1, AttachKeeps
<1>3. CASE VirtualDiskAttachFixedVhd(path, read_only)
  <2>1. /\ FixedVhd(d_files[FileOf[path]])
        /\ AttachVirtualDisk(path, read_only, "vhd-fixed", l - 1)
    BY <1>1, <1>3 DEF VirtualDiskAttachFixedVhd
  <2>2. l - 1 \in Nat /\ l - 1 <= l
    BY <1>1, <2>1 DEF FixedVhd
  <2> QED BY <1>1, <2>1, <2>2, AttachKeeps
<1> QED BY <1>2, <1>3 DEF VirtualDiskAttachAuto

(* Every step of the virtual disks                                         *)
LEMMA VdiskStepKeeps == VdiskInv /\ [VdiskNext]_vdiskVars => VdiskInv'
<1> SUFFICES ASSUME VdiskInv, [VdiskNext]_vdiskVars PROVE VdiskInv'
  OBVIOUS
<1>1. CASE UNCHANGED vdiskVars
  BY <1>1, QuietKeeps DEF vdiskVars
<1>2. ASSUME NEW path \in DOMAIN FileOf, NEW read_only \in BOOLEAN,
             \/ VirtualDiskAttachRaw(path, read_only)
             \/ VirtualDiskAttachFixedVhd(path, read_only)
             \/ VirtualDiskAttachAuto(path, read_only)
      PROVE  VdiskInv'
  BY <1>2, AttachesKeep
<1>3. ASSUME NEW s \in DOMAIN d_slots, VirtualDiskDetach(s) PROVE VdiskInv'
  BY <1>3, DetachKeeps
<1>4. ASSUME NEW d \in DOMAIN d_devices, NEW lba \in 1 .. d_devices[d].blocks,
             ReadSector(d, lba) \/ \E v \in SectorValues : WriteSector(d, lba, Sector(v))
      PROVE  VdiskInv'
  <2>1. d \in 1 .. Len(d_devices)
    BY DEF VdiskInv, VdiskTypes
  <2> QED BY <1>4, <2>1, ReadSectorKeeps, WriteSectorKeeps
<1>5. ASSUME NEW d \in DOMAIN d_devices, FlushDevice(d) \/ MountVirtual(d) \/ UnmountVirtual(d)
      PROVE  VdiskInv'
  <2>1. d \in 1 .. Len(d_devices)
    BY DEF VdiskInv, VdiskTypes
  <2>2. /\ UNCHANGED <<d_files, d_slots, d_devices, d_touched>>
        /\ d_answer' = d_answer \/ d_answer' = [op |-> "flush", device |-> d]
    BY <1>5 DEF FlushDevice, MountVirtual, UnmountVirtual
  <2> QED BY <2>1, <2>2, QuietKeeps
<1>6. ASSUME NEW file \in DOMAIN d_files,
             ReplaceFile(file, << >>) \/ \E v \in SectorValues : ReplaceFile(file, << Sector(v) >>)
      PROVE  VdiskInv'
  BY <1>6, ReplaceKeeps
<1> QED BY <1>1, <1>2, <1>3, <1>4, <1>5, <1>6 DEF VdiskNext

(* The invariant says what the run checks.                                 *)
LEMMA VdiskInvImagesKept == VdiskInv => ImagesKept
<1> SUFFICES ASSUME VdiskInv PROVE ImagesKept
  OBVIOUS
<1>1. d_answer.op = "write" => d_answer.file = d_devices[d_answer.device].file
  BY DEF VdiskInv, AnswerRight
<1>2. d_answer.op = "read" =>
          LET d == d_answer.device IN
          SlotOf(d).active /\ SlotOf(d).device = d /\ ImageOf(d) \notin d_touched =>
             d_answer.value = d_files[ImageOf(d)][d_answer.lba]
  BY DEF VdiskInv, AnswerRight, IsCurrent
<1>3. ASSUME NEW s \in ActiveSlots, FileOf[d_slots[s].path] \notin d_touched,
             d_slots[s].format = "vhd-fixed"
      PROVE  VirtualDiskCheck(s)
  <2>1. PICK image : image = d_files[FileOf[d_slots[s].path]]
    OBVIOUS
  <2>2. FixedVhd(image) /\ Len(image) - 1 = d_slots[s].size /\ Len(image) = d_slots[s].file_size
    BY <1>3, <2>1 DEF VdiskInv, SizesKept
  <2>3. image # << >>
    BY <2>2 DEF FixedVhd
  <2> QED BY <2>1, <2>2, <2>3 DEF VirtualDiskCheck
<1> QED BY <1>1, <1>2, <1>3 DEF ImagesKept

(* The volumes and the virtual disks side by side: however often files are *)
(* attached, detached, mounted, written through a device or by others, and *)
(* whatever the mount manager is asked to do, the two tables of mounts and *)
(* volumes are one; a write through a device is in the image the device    *)
(* was registered for, a read through a device in use gives what its image *)
(* holds, and a fixed VHD stays valid, unless others touched the file.     *)
THEOREM StorageCorrect == VolumesSpec => []StorageSound
<1>1. VolumesInit => VfsInv /\ VdiskInv
  BY VfsInitInv, VdiskInitInv DEF VolumesInit
<1>2. VfsInv /\ VdiskInv /\ [VolumesNext]_<<part, vars, vdiskVars>> => VfsInv' /\ VdiskInv'
  <2>1. [VolumesNext]_<<part, vars, vdiskVars>> => [Next]_vars /\ [VdiskNext]_vdiskVars
    BY DEF VolumesNext
  <2> QED BY <2>1, StepKeepsInv, VdiskStepKeeps
<1>3. VfsInv /\ VdiskInv => StorageSound
  BY VfsInvVolumesSound, VdiskInvImagesKept DEF StorageSound
<1> QED BY <1>1, <1>2, <1>3, PTL DEF VolumesSpec
=============================================================================
