-------------------------- MODULE OriginalLocation --------------------------
(***************************************************************************)
(* "Restore to original location" (guest_original_location.py): from the   *)
(* crumb trail the disk view gave an item, the directory of the running    *)
(* guest it came from.  A volume group is found by name.  On Windows a     *)
(* disk is found by its address in rows cached for two minutes, else, and  *)
(* on Linux always, by its position in PVE's listing; then the live guest  *)
(* is asked for the drive letter or the mount point.                       *)
(*                                                                         *)
(* A destination stands for the file system it is on; `inner' directories  *)
(* are appended to it unchanged.                                           *)
(***************************************************************************)
EXTENDS DiskView, Sequences

CONSTANTS
  Listed,       \* the disks in the order of PVE's root listing
  Addressable,  \* disks on a bus that identifies them: sata, scsi, the only ide
  Restored,     \* bound: backups for which destinations are asked
  MaxMoves      \* bound: times the guest numbers its disks anew

VARIABLES
  order,        \* the running guest's disks, in its own numbering
  moves,        \* times it changed
  rows,         \* _disk_bus_rows_cache: the order its rows were read in, or None
  stale,        \* it has changed since
  request       \* GET /api/restore-original-path

location == <<order, moves, rows, stale, request>>
view     == <<snapshot, broken, silent>>

None        == <<"none">>
Unavailable == <<"unavailable">>

Positions(s) == 1..Len(s)
PositionIn(s, d) == CHOOSE k \in Positions(s) : s[k] = d
Contains(s, d) == \E k \in Positions(s) : s[k] = d

Orders == {s \in UNION {[1..n -> Disks] : n \in 0..Cardinality(Disks)} :
             \A k, l \in Positions(s) : k # l => s[k] # s[l]}

(* PVE lists every disk of the backup, and each once.                       *)
ASSUME ListedAssumption ==
  /\ IsFiniteSet(Disks)
  /\ Listed \in Orders
  /\ \A d \in Disks : Contains(Listed, d)

ASSUME MovesAssumption == MaxMoves \in Nat

IsPartition(p) == p[1] = "partition"
FileSystems == {Partition(d, n) : d \in Disks, n \in Partitions}
               \cup {Volume(g, v) : g \in Groups, v \in LogicalVolumes}

(* What trails are taken for: a directory of a volume that was flattened    *)
(* away passes for a volume of the group.                                   *)
Places == FileSystems \cup {Volume(g, "directory") : g \in Groups}

Idle == [pc |-> "idle", os |-> "linux", asked |-> None, by |-> "position",
         number |-> 0, steady |-> TRUE, answer |-> None]

LocationTypeOK ==
  /\ order \in Orders
  /\ moves \in 0..MaxMoves
  /\ rows \in Orders \cup {None}
  /\ stale \in BOOLEAN
  /\ request \in [pc : {"idle", "locating", "asking", "answered"},
                  os : {"windows", "linux"}, asked : Places \cup {None},
                  by : {"position", "address"}, number : 0..Cardinality(Disks),
                  steady : BOOLEAN, answer : FileSystems \cup {None, Unavailable}]

-----------------------------------------------------------------------------
(* Crumb trails: the labels of the entries on the way to one.               *)

Label(e) ==
  CASE e[1] \in {"disk", "group"} -> e
    [] e[1] = "partition" -> <<"number", e[3]>>
    [] e[1] \in {"folder", "volume"} -> <<"name", e[3]>>
    [] OTHER -> <<"name", "directory">>

(* Each entry the browser can get to, with the trail that leads to it.      *)
Trails ==
  LET Deeper(ts) == UNION {{<<Append(t[1], Label(e)), e>> : e \in Below(t[2])} : t \in ts}
      first  == {<<<<Label(e)>>, e>> : e \in Root}
      second == Deeper(first)
  IN  first \cup second \cup Deeper(second)

(* A bug: the shape of a disk that has more than partitions is forgotten.   *)
MeantFlattened(labels) ==
  IF Len(labels) < 2 THEN Unavailable ELSE
  CASE labels[1][1] = "group" -> Volume(labels[1][2], labels[2][2])
    [] labels[1][1] = "disk" /\ labels[2][1] = "number" ->
         Partition(labels[1][2], labels[2][2])
    [] OTHER -> Unavailable

(* resolve_original_directory: the file system a trail leads into.          *)
Meant(labels) ==
  IF Len(labels) < 2 THEN Unavailable ELSE
  CASE labels[1][1] = "group" -> Volume(labels[1][2], labels[2][2])
    [] labels[1][1] = "disk" /\ labels[2][1] = "number" ->
         Partition(labels[1][2], labels[2][2])
    [] labels[1][1] = "disk" /\ labels[2] = <<"name", "part">>
       /\ Len(labels) > 2 /\ labels[3][1] = "number" ->
         Partition(labels[1][2], labels[3][2])
    [] OTHER -> Unavailable

-----------------------------------------------------------------------------
LocationInit ==
  /\ Init
  /\ order = Listed
  /\ moves = 0
  /\ rows = None
  /\ stale = FALSE
  /\ request = Idle

(* Disks are attached or detached, or a restart numbers them differently.   *)
Renumber ==
  /\ snapshot \in Restored
  /\ moves < MaxMoves
  /\ order' \in Orders \ {order}
  /\ moves' = moves + 1
  /\ stale' = (rows # None)
  /\ request' = [request EXCEPT !.steady = FALSE]
  /\ UNCHANGED <<view, rows>>

(* The rows are two minutes old.                                            *)
RowsExpire ==
  /\ rows # None
  /\ rows' = None
  /\ stale' = FALSE
  /\ UNCHANGED <<view, order, moves, request>>

(* _fetch_disk_bus_rows: from the cache, else from the guest, which may not *)
(* answer; a failure is not cached.                                         *)
FetchRows ==
  \/ /\ rows # None
     /\ UNCHANGED <<rows, stale>>
  \/ /\ rows = None
     /\ rows' = order
     /\ UNCHANGED stale
  \/ /\ rows = None
     /\ UNCHANGED <<rows, stale>>

(* _annotate_windows_drive_letters reads the rows for a page's labels.      *)
Annotate ==
  /\ snapshot \in Restored
  /\ FetchRows
  /\ UNCHANGED <<view, order, moves, request>>

(* The endpoint takes the trail of the page; the capabilities say which OS. *)
Ask(trail, os) ==
  /\ snapshot \in Restored
  /\ request.pc \in {"idle", "answered"}
  /\ Meant(trail[1]) # Unavailable
  /\ request' = [Idle EXCEPT !.pc = IF IsPartition(Meant(trail[1])) THEN "locating" ELSE "asking",
                             !.os = os, !.asked = Meant(trail[1])]
  /\ UNCHANGED <<view, order, moves, rows, stale>>

Answer(r, a) == [r EXCEPT !.pc = "answered", !.answer = a]

(* A bug: any row of the right bus will do.                                 *)
MatchesAnyRow(d, k) == d \in Addressable /\ rows' # None /\ k \in Positions(rows')

(* _windows_disk_number_by_bus: the one row with the address of the disk.   *)
Matches(d, k) == d \in Addressable /\ rows' # None /\ k \in Positions(rows') /\ rows'[k] = d

(* _disk_ordinal: PVE is asked again, and may fail.                         *)
ByPosition(d) ==
  \/ request' = [request EXCEPT !.pc = "asking", !.by = "position",
                                !.number = PositionIn(Listed, d)]
  \/ request' = Answer(request, Unavailable)

(* resolve_windows_disk_number.                                             *)
LocateOnWindows ==
  /\ request.pc = "locating" /\ request.os = "windows"
  /\ FetchRows
  /\ LET d == request.asked[2] IN
     \/ \E k \in 1..Cardinality(Disks) :
          /\ Matches(d, k)
          /\ request' = [request EXCEPT !.pc = "asking", !.by = "address",
                                        !.number = k, !.steady = ~stale']
     \/ /\ \A k \in 1..Cardinality(Disks) : ~Matches(d, k)
        /\ ByPosition(d)
  /\ UNCHANGED <<view, order, moves>>

LocateOnLinux ==
  /\ request.pc = "locating" /\ request.os = "linux"
  /\ ByPosition(request.asked[2])
  /\ UNCHANGED <<view, order, moves, rows, stale>>

(* The lookup in the guest: it fails, or what it names is not mounted.      *)
NotFound ==
  /\ request.pc = "asking"
  /\ request' = Answer(request, Unavailable)
  /\ UNCHANGED <<view, order, moves, rows, stale>>

(* _resolve_windows_partition asks for the partition by its number.         *)
FindLetter ==
  /\ request.pc = "asking" /\ request.os = "windows"
  /\ IsPartition(request.asked)
  /\ request.number \in Positions(order)
  /\ request' = Answer(request, Partition(order[request.number], request.asked[3]))
  /\ UNCHANGED <<view, order, moves, rows, stale>>

(* The rows lsblk prints below a disk whose partitions are `table', of      *)
(* which `held' carry a logical volume, printed below its partition.        *)
RowOf(table, held, n) ==
  Cardinality({m \in table : m <= n}) + Cardinality({m \in held : m < n})

MountedAt(d, table, held, k) ==
  {Partition(d, n) : n \in {n \in table : RowOf(table, held, n) = k}}
  \cup (IF \E n \in held : RowOf(table, held, n) + 1 = k
        THEN {Volume(g, v) : g \in Groups, v \in LogicalVolumes} ELSE {})

(* _resolve_linux_partition takes partition n for the n-th row.             *)
FindMountPoint ==
  /\ request.pc = "asking" /\ request.os = "linux"
  /\ IsPartition(request.asked)
  /\ request.number \in Positions(order)
  /\ LET d == order[request.number] IN
     \E table, held \in SUBSET Partitions :
       /\ snapshot.disk[d].parts \subseteq table
       /\ held \subseteq table
       /\ \E p \in MountedAt(d, table, held, request.asked[3]) :
            request' = Answer(request, p)
  /\ UNCHANGED <<view, order, moves, rows, stale>>

(* _resolve_lvm: findmnt of the volume's device, if there is one.           *)
FindVolume ==
  /\ request.pc = "asking"
  /\ request.asked \in FileSystems /\ ~IsPartition(request.asked)
  /\ request' = Answer(request, request.asked)
  /\ UNCHANGED <<view, order, moves, rows, stale>>

LocationStep ==
  \/ Renumber \/ RowsExpire \/ Annotate
  \/ \E trail \in Trails, os \in {"windows", "linux"} : Ask(trail, os)
  \/ LocateOnWindows \/ LocateOnLinux
  \/ NotFound \/ FindLetter \/ FindMountPoint \/ FindVolume

LocationSpec ==
  LocationInit /\ [][(Next /\ UNCHANGED location) \/ LocationStep]_<<view, location>>

-----------------------------------------------------------------------------
(* The view and the resolver agree: the trail on which the view offers a    *)
(* partition or a volume is understood as that one, whichever shape         *)
(* elevation and flattening gave it, and whatever else cannot be listed.    *)
TrailsAreUnderstood ==
  \A t \in Trails : t[2] \in FileSystems => Meant(t[1]) = t[2]

FoundByKey ==
  ~IsPartition(request.asked) \/ (request.by = "address" /\ request.steady)

(* A destination in a running guest that was found by name or by address is *)
(* on the file system asked for, unless the guest has numbered its disks    *)
(* anew since the rows behind it were read.                                 *)
AddressedIsRight ==
  request.pc = "answered" /\ FoundByKey =>
    request.answer \in {Unavailable, request.asked}

(* guest_original_location.py:443-445, "matching partition numbers 1..N":   *)
(* in a guest that numbers its disks as PVE does, Linux partition n is the  *)
(* one row n describes.                                                     *)
PartitionNumbersMatch ==
  request.pc = "answered" /\ request.os = "linux" /\ moves = 0
    => request.answer \in {Unavailable, request.asked}
=============================================================================
