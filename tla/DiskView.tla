------------------------------ MODULE DiskView ------------------------------
(***************************************************************************)
(* How main.py presents the disks of a VM's backup.  PVE nests what a disk *)
(* holds under a synthetic "part" folder and repeats a volume group under  *)
(* "lvm" on every disk it spans.  The portal lists each group once, beside *)
(* the disks, flattens "part", and hides what the helper VM cannot mount,  *)
(* which it finds out by listing it.                                       *)
(*                                                                         *)
(* A path is a tuple.  PVE answers the listing of a broken path with an    *)
(* error and that of a silent one not at all: it times out or the          *)
(* connection fails.  Which paths these are changes between two requests.  *)
(* The code catches the error, httpx.HTTPStatusError, where it probes, and *)
(* the failure to answer nowhere: it fails the whole view.                 *)
(***************************************************************************)
EXTENDS Naturals, FiniteSets

CONSTANTS
  Disks, Groups,
  Partitions,      \* partition numbers
  LogicalVolumes,  \* names of logical volumes
  MaxBroken        \* bound: listings that fail at a time

VARIABLES
  snapshot,   \* what is on the disks of the backup
  broken,     \* paths PVE answers with an error at the moment
  silent      \* paths it does not answer for

Folders == {"part", "lvm", "other"}

DiskContents == {c \in [children : SUBSET Folders, parts : SUBSET Partitions,
                        groups : SUBSET Groups] :
                   /\ c.parts # {} => "part" \in c.children
                   /\ c.groups # {} => "lvm" \in c.children}

Snapshots == [disk : [Disks -> DiskContents],
              volumes : [Groups -> SUBSET LogicalVolumes]]

Disk(d)         == <<"disk", d>>
Folder(d, f)    == <<"folder", d, f>>
Partition(d, n) == <<"partition", d, n>>
Group(g)        == <<"group", g>>
Volume(g, v)    == <<"volume", g, v>>
Inside(e)       == <<"inside", e>>

Paths == {Disk(d) : d \in Disks}
         \cup {Folder(d, f) : d \in Disks, f \in {"part", "lvm"}}
         \cup {Partition(d, n) : d \in Disks, n \in Partitions}
         \cup {Volume(g, v) : g \in Groups, v \in LogicalVolumes}

(* Type correctness: what is on the disks, and what cannot be listed.       *)
ViewTypeOK ==
  /\ snapshot \in Snapshots
  /\ broken \subseteq Paths
  /\ silent \subseteq Paths \ broken

-----------------------------------------------------------------------------
PartitionsOf(d) == {Partition(d, n) : n \in snapshot.disk[d].parts}

(* _disk_level_entries of a disk: without "lvm", and without "part" when it *)
(* is all that is left.                                                     *)
Flattened(d) == snapshot.disk[d].children \ {"lvm"} = {"part"}

DiskLevel(d) ==
  IF Flattened(d) THEN PartitionsOf(d)
  ELSE {Folder(d, f) : f \in snapshot.disk[d].children \ {"lvm"}}

(* It runs on a group's listing too, at the same depth below the root.      *)
VolumesOf(g) == {Volume(g, v) : v \in snapshot.volumes[g] \ {"lvm"}}

GroupFlattened(g) == snapshot.volumes[g] \ {"lvm"} = {"part"}

GroupLevel(g) ==
  IF GroupFlattened(g) THEN {Inside(Volume(g, "part"))} ELSE VolumesOf(g)

(* _readable_entries: what the probe could list.  The folders of a disk are *)
(* not probed, their names are no partition numbers.                        *)
Readable(entries) == {e \in entries : e[1] = "folder" \/ e \notin broken}

(* What is listed in place of a "part" that is all there is, without a      *)
(* guard: its error is the whole request's.                                 *)
Unguarded(e) ==
  CASE e[1] = "disk" /\ Flattened(e[2]) -> {Folder(e[2], "part")}
    [] e[1] = "group" /\ GroupFlattened(e[2]) -> {Volume(e[2], "part")}
    [] OTHER -> {}

(* What an entry would show before the probe.                               *)
Level(e) ==
  CASE e[1] = "disk" -> DiskLevel(e[2])
    [] e[1] = "folder" /\ e[3] = "part" -> PartitionsOf(e[2])
    [] e[1] = "group" -> GroupLevel(e[2])
    [] OTHER -> {}

(* The view of an entry fails with its own listing, with the unguarded one, *)
(* and with a probe that is not answered.                                   *)
BelowRaises(e) ==
  \/ Unguarded(e) \cap (broken \cup silent) # {}
  \/ ({e} \cup {f \in Level(e) : f[1] # "folder"}) \cap silent # {}

(* A bug: one disk that does not answer ends the search.                    *)
GroupsFoundOrNone ==
  IF \E d \in Disks : {Disk(d), Folder(d, "lvm")} \cap broken # {} THEN {}
  ELSE UNION {snapshot.disk[d].groups : d \in Disks}

(* _discover_lvm_volumes: from every disk that answers.                     *)
GroupsFound ==
  UNION {snapshot.disk[d].groups : d \in {d \in Disks :
    {Disk(d), Folder(d, "lvm")} \cap broken = {}}}

(* A bug: what a disk holds is not probed.                                  *)
HasContentUnprobed(d) ==
  /\ Disk(d) \notin broken
  /\ "lvm" \in snapshot.disk[d].children \/ DiskLevel(d) # {}

(* _disk_has_visible_content.                                               *)
HasContent(d) ==
  /\ Disk(d) \notin broken
  /\ "lvm" \in snapshot.disk[d].children \/ Readable(DiskLevel(d)) # {}

(* A probe of the root view that is not answered, or a "part" that fails.   *)
RootRaises ==
  \E d \in Disks :
    \/ Disk(d) \in silent
    \/ /\ Disk(d) \notin broken
       /\ "lvm" \in snapshot.disk[d].children
       /\ Folder(d, "lvm") \in silent
    \/ /\ Disk(d) \notin broken
       /\ "lvm" \notin snapshot.disk[d].children
       /\ BelowRaises(Disk(d))

(* _apply_lvm_view at the root.                                             *)
Root ==
  IF RootRaises THEN {}
  ELSE {Disk(d) : d \in {d \in Disks : HasContent(d)}}
       \cup {Group(g) : g \in GroupsFound}

(* GET /api/browse of an entry: its listing, seen through _apply_lvm_view   *)
(* and _filter_unmountable_children.                                        *)
Below(e) == IF e \in broken \/ BelowRaises(e) THEN {} ELSE Readable(Level(e))

Offered ==
  LET first  == Root
      second == UNION {Below(e) : e \in first}
  IN  first \cup second \cup UNION {Below(e) : e \in second}

-----------------------------------------------------------------------------
Init ==
  /\ snapshot \in Snapshots
  /\ broken = {}
  /\ silent = {}

(* The helper VM cannot mount a file system, PVE fails this once, or it is  *)
(* too slow or out of reach.                                                *)
Fail(p) ==
  /\ Cardinality(broken \cup silent) < MaxBroken
  /\ p \notin broken \cup silent
  /\ \/ broken' = broken \cup {p} /\ UNCHANGED silent
     \/ silent' = silent \cup {p} /\ UNCHANGED broken
  /\ UNCHANGED snapshot

Heal(p) ==
  /\ p \in broken \cup silent
  /\ broken' = broken \ {p}
  /\ silent' = silent \ {p}
  /\ UNCHANGED snapshot

Next == \E p \in Paths : Fail(p) \/ Heal(p)

Spec == Init /\ [][Next]_<<snapshot, broken, silent>>

(* What a user should get at: every file system the helper VM can mount,    *)
(* where the listings on the way to it work and those of its neighbours are *)
(* answered, with an error or without.  A logical volume called "lvm" is    *)
(* dropped by the code that was written for disks.                          *)
Mountable ==
  {p \in UNION {PartitionsOf(d) : d \in Disks} :
     /\ {p, Disk(p[2]), Folder(p[2], "part")} \cap (broken \cup silent) = {}
     /\ PartitionsOf(p[2]) \cap silent = {}}
  \cup {p \in UNION {VolumesOf(g) : g \in Groups} :
          /\ p \notin broken
          /\ VolumesOf(p[2]) \cap silent = {}
          /\ \E d \in Disks : /\ p[2] \in snapshot.disk[d].groups
                              /\ {Disk(d), Folder(d, "lvm")} \cap broken = {}}

(* Elevating, flattening and hiding lose nothing: whenever the root can be  *)
(* shown, every mountable partition and volume can be reached from it,      *)
(* whichever other disk, folder or file system PVE answers with an error,   *)
(* and whatever is not answered elsewhere.                                  *)
AllReachable ==
  ~RootRaises =>
    \A p \in Mountable : p \in Offered \/ Inside(p) \in Offered

(* What cannot be listed is not offered, at any depth, nor what is inside   *)
(* it, and a disk without anything to show and without a part in a volume   *)
(* group is not listed.                                                     *)
NothingDead ==
  /\ \A p \in Offered :
       /\ p[1] # "folder" => p \notin broken \cup silent
       /\ p[1] = "inside" => p[2] \notin broken \cup silent
  /\ \A d \in Disks : Disk(d) \in Offered =>
       "lvm" \in snapshot.disk[d].children \/ Below(Disk(d)) # {}
=============================================================================
