----------------------- MODULE OriginalLocationProof -----------------------
(***************************************************************************)
(* Theorems about DiskView and OriginalLocation, for any disks, groups,    *)
(* partitions and volumes, any number of listings failing at a time and a  *)
(* guest that numbers its disks anew as often as it likes.                 *)
(***************************************************************************)
EXTENDS OriginalLocation, FiniteSetTheorems, SequenceTheorems, TLAPS

-----------------------------------------------------------------------------
(* The view.  What is on the disks does not change; what can be listed does.*)
LEMMA ViewTyped == Spec => []ViewTypeOK
<1>1. Init => ViewTypeOK
  BY DEF Init, ViewTypeOK
<1>2. ViewTypeOK /\ [Next]_<<snapshot, broken, silent>> => ViewTypeOK'
  BY DEF ViewTypeOK, Next, Fail, Heal
<1> QED
  BY <1>1, <1>2, PTL DEF Spec

(* Entries: what they are is told by their tag.                             *)
LEMMA EntryTags ==
  /\ \A d : Disk(d)[1] = "disk" /\ Disk(d)[2] = d
  /\ \A d, f : Folder(d, f)[1] = "folder" /\ Folder(d, f)[2] = d /\ Folder(d, f)[3] = f
  /\ \A d, n : Partition(d, n)[1] = "partition" /\ Partition(d, n)[2] = d /\ Partition(d, n)[3] = n
  /\ \A g : Group(g)[1] = "group" /\ Group(g)[2] = g
  /\ \A g, v : Volume(g, v)[1] = "volume" /\ Volume(g, v)[2] = g /\ Volume(g, v)[3] = v
  /\ \A e : Inside(e)[1] = "inside"
BY DEF Disk, Folder, Partition, Group, Volume, Inside

(* What each entry would show, and what its view lists without a guard.     *)
LEMMA LevelFacts ==
  /\ \A d : Level(Disk(d)) = DiskLevel(d)
  /\ \A d : Level(Folder(d, "part")) = PartitionsOf(d)
  /\ \A g : Level(Group(g)) = GroupLevel(g)
  /\ \A d : Flattened(d) => Unguarded(Disk(d)) = {Folder(d, "part")}
  /\ \A d : ~Flattened(d) => Unguarded(Disk(d)) = {}
  /\ \A d, f : Unguarded(Folder(d, f)) = {}
  /\ \A g : GroupFlattened(g) => Unguarded(Group(g)) = {Volume(g, "part")}
  /\ \A g : ~GroupFlattened(g) => Unguarded(Group(g)) = {}
<1>1. /\ \A d : Level(Disk(d)) = DiskLevel(d)
      /\ \A g : Level(Group(g)) = GroupLevel(g)
  BY EntryTags DEF Level
<1>2. \A d : Level(Folder(d, "part")) = PartitionsOf(d)
  BY EntryTags DEF Level
<1>3. /\ \A d : Flattened(d) => Unguarded(Disk(d)) = {Folder(d, "part")}
      /\ \A g : GroupFlattened(g) => Unguarded(Group(g)) = {Volume(g, "part")}
  BY EntryTags DEF Unguarded
<1>4. /\ \A d : ~Flattened(d) => Unguarded(Disk(d)) = {}
      /\ \A d, f : Unguarded(Folder(d, f)) = {}
      /\ \A g : ~GroupFlattened(g) => Unguarded(Group(g)) = {}
  BY EntryTags DEF Unguarded
<1> QED
  BY <1>1, <1>2, <1>3, <1>4

(* Where the entries below an entry come from; only what is answered, or is *)
(* not probed, is among them.                                               *)
LEMMA BelowCases ==
  ASSUME ViewTypeOK, NEW e, NEW f \in Below(e)
  PROVE  /\ f[1] # "folder" => f \notin broken \cup silent
         /\ Unguarded(e) \cap (broken \cup silent) = {}
         /\ f \in Level(e)
         /\ \/ e[1] = "disk" /\ f \in DiskLevel(e[2])
            \/ e[1] = "folder" /\ e[3] = "part" /\ f \in PartitionsOf(e[2])
            \/ e[1] = "group" /\ f \in GroupLevel(e[2])
<1>1. ~BelowRaises(e) /\ f \in Readable(Level(e))
  BY DEF Below
<1>2. /\ f \in Level(e)
      /\ f[1] # "folder" => f \notin broken
  BY <1>1 DEF Readable
<1>3. /\ Unguarded(e) \cap (broken \cup silent) = {}
      /\ f[1] # "folder" => f \notin silent
  BY <1>1, <1>2 DEF BelowRaises
<1>4. \/ e[1] = "disk" /\ f \in DiskLevel(e[2])
      \/ e[1] = "folder" /\ e[3] = "part" /\ f \in PartitionsOf(e[2])
      \/ e[1] = "group" /\ f \in GroupLevel(e[2])
  BY <1>2 DEF Level
<1> QED
  BY <1>2, <1>3, <1>4

(* Groups and what is inside a volume are never listed by themselves.       *)
LEMMA NeverBroken ==
  ASSUME ViewTypeOK
  PROVE  /\ \A g : Group(g) \notin broken \cup silent
         /\ \A e : Inside(e) \notin broken \cup silent
<1>1. \A g : Group(g) \notin Paths
  BY EntryTags DEF Paths
<1>2. \A e : Inside(e) \notin Paths
  BY EntryTags DEF Paths
<1> QED
  BY <1>1, <1>2 DEF ViewTypeOK

LEMMA ContentFacts ==
  ASSUME ViewTypeOK
  PROVE  /\ \A d \in Disks : /\ snapshot.disk[d].children \subseteq Folders
                             /\ snapshot.disk[d].parts \subseteq Partitions
                             /\ snapshot.disk[d].groups \subseteq Groups
                             /\ snapshot.disk[d].parts # {} => "part" \in snapshot.disk[d].children
                             /\ snapshot.disk[d].groups # {} => "lvm" \in snapshot.disk[d].children
         /\ \A g \in Groups : snapshot.volumes[g] \subseteq LogicalVolumes
<1>1. snapshot.disk \in [Disks -> DiskContents]
  BY DEF ViewTypeOK, Snapshots
<1>2. snapshot.volumes \in [Groups -> SUBSET LogicalVolumes]
  BY DEF ViewTypeOK, Snapshots
<1>3. \A c \in DiskContents : /\ c.children \subseteq Folders
                              /\ c.parts \subseteq Partitions
                              /\ c.groups \subseteq Groups
                              /\ c.parts # {} => "part" \in c.children
                              /\ c.groups # {} => "lvm" \in c.children
  BY DEF DiskContents
<1> QED
  BY <1>1, <1>2, <1>3

(* A disk that can be listed and shows an entry is at the root, and its     *)
(* entries that can be listed are below it.                                 *)
LEMMA DiskEntries ==
  ASSUME ViewTypeOK, ~RootRaises, NEW d \in Disks,
         {Disk(d), Folder(d, "part")} \cap (broken \cup silent) = {},
         \A h \in DiskLevel(d) : h[1] # "folder" => h \notin silent,
         NEW f \in DiskLevel(d), f \notin broken
  PROVE  Disk(d) \in Root /\ f \in Below(Disk(d))
<1>1. f \in Readable(DiskLevel(d))
  BY DEF Readable
<1>2. Disk(d) \in Root
  BY <1>1 DEF Root, HasContent
<1>3. ~BelowRaises(Disk(d))
  BY LevelFacts DEF BelowRaises
<1> QED
  BY <1>1, <1>2, <1>3, LevelFacts DEF Below

LEMMA PartitionReached ==
  ASSUME ViewTypeOK, ~RootRaises, NEW d \in Disks, NEW n \in snapshot.disk[d].parts,
         {Partition(d, n), Disk(d), Folder(d, "part")} \cap (broken \cup silent) = {},
         PartitionsOf(d) \cap silent = {}
  PROVE  Partition(d, n) \in Offered
<1>1. "part" \in snapshot.disk[d].children \ {"lvm"}
  BY ContentFacts
<1>2. Partition(d, n) \in PartitionsOf(d) /\ Partition(d, n) \notin broken
  BY DEF PartitionsOf
<1>3. CASE Flattened(d)
  <2>1. DiskLevel(d) = PartitionsOf(d)
    BY <1>3 DEF DiskLevel
  <2>2. Disk(d) \in Root /\ Partition(d, n) \in Below(Disk(d))
    BY <1>2, <2>1, DiskEntries
  <2> QED
    BY <2>2 DEF Offered
<1>4. CASE ~Flattened(d)
  <2>1. Folder(d, "part") \in DiskLevel(d)
    BY <1>1, <1>4 DEF DiskLevel
  <2>2. \A h \in DiskLevel(d) : h[1] = "folder"
    BY <1>4, EntryTags DEF DiskLevel
  <2>3. Disk(d) \in Root /\ Folder(d, "part") \in Below(Disk(d))
    BY <2>1, <2>2, DiskEntries
  <2>4. Partition(d, n) \in Readable(Level(Folder(d, "part")))
    BY <1>2, LevelFacts DEF Readable
  <2>5. ~BelowRaises(Folder(d, "part"))
    BY LevelFacts DEF BelowRaises
  <2>6. Partition(d, n) \in Below(Folder(d, "part"))
    BY <2>4, <2>5 DEF Below
  <2> QED
    BY <2>3, <2>6 DEF Offered
<1> QED
  BY <1>3, <1>4

LEMMA VolumeReached ==
  ASSUME ViewTypeOK, ~RootRaises, NEW g \in Groups, NEW v \in snapshot.volumes[g] \ {"lvm"},
         Volume(g, v) \notin broken,
         VolumesOf(g) \cap silent = {},
         NEW d \in Disks, g \in snapshot.disk[d].groups,
         {Disk(d), Folder(d, "lvm")} \cap broken = {}
  PROVE  Volume(g, v) \in Offered \/ Inside(Volume(g, v)) \in Offered
<1>1. Group(g) \in Root
  BY DEF Root, GroupsFound
<1>2. Volume(g, v) \in VolumesOf(g) /\ Group(g) \notin broken \cup silent
  BY NeverBroken DEF VolumesOf
<1>3. CASE GroupFlattened(g)
  <2>1. v = "part" /\ GroupLevel(g) = {Inside(Volume(g, v))}
    BY <1>3 DEF GroupLevel, GroupFlattened
  <2>2. Unguarded(Group(g)) = {Volume(g, v)}
    BY <1>3, <2>1, LevelFacts
  <2>3. Inside(Volume(g, v)) \in Readable(Level(Group(g)))
    BY <2>1, LevelFacts, NeverBroken DEF Readable
  <2>4. ~BelowRaises(Group(g))
    BY <1>2, <2>1, <2>2, LevelFacts, NeverBroken DEF BelowRaises
  <2>5. Inside(Volume(g, v)) \in Below(Group(g))
    BY <1>2, <2>3, <2>4 DEF Below
  <2> QED
    BY <1>1, <2>5 DEF Offered
<1>4. CASE ~GroupFlattened(g)
  <2>1. GroupLevel(g) = VolumesOf(g) /\ Unguarded(Group(g)) = {}
    BY <1>4, LevelFacts DEF GroupLevel
  <2>2. ~BelowRaises(Group(g))
    BY <1>2, <2>1, LevelFacts DEF BelowRaises
  <2>3. Volume(g, v) \in Below(Group(g))
    BY <1>2, <2>1, <2>2, LevelFacts DEF Below, Readable
  <2> QED
    BY <1>1, <2>3 DEF Offered
<1> QED
  BY <1>3, <1>4

(* Elevating, flattening and hiding lose no file system that can be mounted *)
(* to a listing that fails with an error elsewhere: whenever the root view  *)
(* is answered, it leads to each whose own view is.                         *)
THEOREM NothingIsLost == Spec => []AllReachable
<1>1. ViewTypeOK => AllReachable
  <2> SUFFICES ASSUME ViewTypeOK, ~RootRaises, NEW p \in Mountable
               PROVE  p \in Offered \/ Inside(p) \in Offered
    BY DEF AllReachable
  <2>1. CASE /\ p \in UNION {PartitionsOf(d) : d \in Disks}
             /\ {p, Disk(p[2]), Folder(p[2], "part")} \cap (broken \cup silent) = {}
             /\ PartitionsOf(p[2]) \cap silent = {}
    <3>0. PICK d \in Disks : p \in PartitionsOf(d)
      BY <2>1
    <3>1. PICK n \in snapshot.disk[d].parts : p = Partition(d, n)
      BY <3>0 DEF PartitionsOf
    <3>2. p[2] = d
      BY <3>1, EntryTags
    <3> QED
      BY <2>1, <3>1, <3>2, PartitionReached
  <2>2. CASE /\ p \in UNION {VolumesOf(g) : g \in Groups}
             /\ p \notin broken
             /\ VolumesOf(p[2]) \cap silent = {}
             /\ \E d \in Disks : /\ p[2] \in snapshot.disk[d].groups
                                 /\ {Disk(d), Folder(d, "lvm")} \cap broken = {}
    <3>0. PICK g \in Groups : p \in VolumesOf(g)
      BY <2>2
    <3>1. PICK v \in snapshot.volumes[g] \ {"lvm"} : p = Volume(g, v)
      BY <3>0 DEF VolumesOf
    <3>2. p[2] = g
      BY <3>1, EntryTags
    <3> QED
      BY <2>2, <3>1, <3>2, VolumeReached
  <2> QED
    BY <2>1, <2>2 DEF Mountable
<1> QED
  BY <1>1, ViewTyped, PTL

(* What the root shows, and what is below it, answers: entries inside a     *)
(* volume are shown when the volume could be listed.                        *)
LEMMA OfferedAnswers ==
  ASSUME ViewTypeOK, NEW p \in Offered
  PROVE  /\ p[1] # "folder" => p \notin broken \cup silent
         /\ p[1] = "inside" => p[2] \notin broken \cup silent
<1>1. CASE p \in Root
  <2>1. ~RootRaises
    BY <1>1 DEF Root
  <2>2. CASE \E d \in Disks : p = Disk(d) /\ HasContent(d)
    BY <2>1, <2>2, EntryTags DEF RootRaises, HasContent
  <2>3. CASE \E g \in GroupsFound : p = Group(g)
    BY <2>3, NeverBroken, EntryTags
  <2> QED
    BY <1>1, <2>1, <2>2, <2>3 DEF Root
<1>2. ASSUME NEW e, p \in Below(e)
      PROVE  /\ p[1] # "folder" => p \notin broken \cup silent
             /\ p[1] = "inside" => p[2] \notin broken \cup silent
  <2>1. p[1] # "folder" => p \notin broken \cup silent
    BY <1>2, BelowCases
  <2>2. ASSUME p[1] = "inside" PROVE p[2] \notin broken \cup silent
    <3>1. e[1] = "group" /\ p \in GroupLevel(e[2])
      BY <1>2, <2>2, BelowCases, EntryTags DEF DiskLevel, PartitionsOf
    <3>2. GroupFlattened(e[2]) /\ p = Inside(Volume(e[2], "part"))
      BY <2>2, <3>1, EntryTags DEF GroupLevel, VolumesOf
    <3>3. Volume(e[2], "part") \in Unguarded(e)
      BY <3>1, <3>2 DEF Unguarded
    <3>4. p[2] = Volume(e[2], "part")
      BY <3>2 DEF Inside
    <3> QED
      BY <1>2, <3>3, <3>4, BelowCases
  <2> QED
    BY <2>1, <2>2
<1> QED
  BY <1>1, <1>2 DEF Offered

(* What is offered answers, and a disk without anything to show is hidden.  *)
THEOREM NothingOfferedIsDead == Spec => []NothingDead
<1>1. ViewTypeOK => NothingDead
  <2> SUFFICES ASSUME ViewTypeOK PROVE NothingDead
    OBVIOUS
  <2>1. ASSUME NEW d \in Disks, Disk(d) \in Offered, "lvm" \notin snapshot.disk[d].children
        PROVE  Below(Disk(d)) # {}
    <3>1. Disk(d) \in Root
      <4>1. \A e : Disk(d) \notin Below(e)
        <5> SUFFICES ASSUME NEW e, Disk(d) \in Below(e) PROVE FALSE
          OBVIOUS
        <5>1. \/ Disk(d) \in DiskLevel(e[2])
              \/ Disk(d) \in PartitionsOf(e[2])
              \/ Disk(d) \in GroupLevel(e[2])
          BY BelowCases
        <5> QED
          BY <5>1, EntryTags DEF DiskLevel, GroupLevel, PartitionsOf, VolumesOf
      <4> QED
        BY <2>1, <4>1 DEF Offered
    <3>2. HasContent(d) /\ ~RootRaises
      <4>1. \A g : Disk(d) # Group(g)
        BY EntryTags
      <4>2. ~RootRaises
        BY <3>1 DEF Root
      <4>3. PICK c \in Disks : Disk(d) = Disk(c) /\ HasContent(c)
        BY <3>1, <4>1, <4>2 DEF Root
      <4>4. c = d
        BY <4>3, EntryTags
      <4> QED
        BY <4>2, <4>3, <4>4
    <3>3. /\ Readable(DiskLevel(d)) # {}
          /\ Disk(d) \notin broken
          /\ ~BelowRaises(Disk(d))
      BY <2>1, <3>2 DEF HasContent, RootRaises
    <3> QED
      BY <3>3, LevelFacts DEF Below
  <2> QED
    BY <2>1, OfferedAnswers DEF NothingDead
<1> QED
  BY <1>1, ViewTyped, PTL

-----------------------------------------------------------------------------
(* The lookup is read-only: whatever it does, the view is the view.         *)
LEMMA LocationIsView == LocationSpec => Spec
<1>1. LocationInit => Init
  BY DEF LocationInit
<1>2. [(Next /\ UNCHANGED location) \/ LocationStep]_<<view, location>> =>
        [Next]_<<snapshot, broken, silent>>
  <2>1. LocationStep => UNCHANGED view
    BY DEF LocationStep, Renumber, RowsExpire, Annotate, Ask, LocateOnWindows, LocateOnLinux,
           NotFound, FindLetter, FindMountPoint, FindVolume
  <2> QED
    BY <2>1 DEF view
<1> QED
  BY <1>1, <1>2, PTL DEF LocationSpec, Spec

(* Of what the root shows, and of what is below that.                       *)
LEMMA RootCases ==
  ASSUME ViewTypeOK, NEW e \in Root
  PROVE  \/ \E d \in Disks : e = Disk(d)
         \/ \E g \in Groups : e = Group(g)
BY ContentFacts DEF Root, GroupsFound

LEMMA BelowDisk ==
  ASSUME ViewTypeOK, NEW d \in Disks, NEW f \in Below(Disk(d))
  PROVE  \/ \E n \in Partitions : f = Partition(d, n)
         \/ \E c : f = Folder(d, c)
<1>1. f \in DiskLevel(d)
  BY BelowCases, LevelFacts
<1> QED
  BY <1>1, ContentFacts DEF DiskLevel, PartitionsOf

LEMMA BelowGroup ==
  ASSUME ViewTypeOK, NEW g \in Groups, NEW f \in Below(Group(g))
  PROVE  \/ \E v \in LogicalVolumes : f = Volume(g, v)
         \/ \E e : f = Inside(e)
<1>1. f \in GroupLevel(g)
  BY BelowCases, LevelFacts
<1> QED
  BY <1>1, ContentFacts DEF GroupLevel, VolumesOf

(* The only entry shown below the first two levels is a partition of a disk *)
(* that is not flattened.                                                   *)
LEMMA BelowSecond ==
  ASSUME ViewTypeOK, NEW e \in Root, NEW f \in Below(e), NEW h \in Below(f)
  PROVE  \E d \in Disks, n \in Partitions :
           e = Disk(d) /\ f = Folder(d, "part") /\ h = Partition(d, n)
<1>1. CASE \E g \in Groups : e = Group(g)
  <2>1. f[1] \in {"volume", "inside"}
    BY <1>1, BelowGroup, EntryTags
  <2> QED
    BY <2>1, BelowCases
<1>2. ASSUME NEW d \in Disks, e = Disk(d)
      PROVE  \E n \in Partitions : f = Folder(d, "part") /\ h = Partition(d, n)
  <2>1. CASE \E n \in Partitions : f = Partition(d, n)
    BY <2>1, BelowCases, EntryTags
  <2>2. ASSUME NEW c, f = Folder(d, c)
        PROVE  f = Folder(d, "part") /\ h \in PartitionsOf(d)
    BY <2>2, BelowCases, EntryTags
  <2>3. f = Folder(d, "part") /\ h \in PartitionsOf(d)
    BY <1>2, <2>1, <2>2, BelowDisk
  <2> QED
    BY <2>3, ContentFacts DEF PartitionsOf
<1> QED
  BY <1>1, <1>2, RootCases

(* Appending to trails of one and two labels.                               *)
LEMMA AppendToOne ==
  ASSUME NEW a, NEW b
  PROVE  Append(<<a>>, b) = <<a, b>>
<1> DEFINE S == {a,b}
<1>1. <<a>> \in Seq(S) /\ <<a, b>> \in Seq(S) /\ b \in S
  OBVIOUS
<1>2. Len(<<a>>) = 1 /\ Len(<<a, b>>) = 2
  OBVIOUS
<1> HIDE DEF S
<1>3. /\ Append(<<a>>, b) \in Seq(S) /\ Len(Append(<<a>>, b)) = 2
      /\ Append(<<a>>, b)[1] = a /\ Append(<<a>>, b)[2] = b
  <2>1. Len(<<a>>)+1 = 2
    BY <1>2
  <2> QED
    BY <1>1, <1>2, <2>1, AppendProperties
<1> DEFINE l == Append(<<a>>, b)
           r == <<a, b>>
<1>4. \A i \in 1..2 : l[i] = r[i]
  <2>1. \A i \in 1..2 : i = 1 \/ i = 2
    OBVIOUS
  <2> QED
    BY <2>1, <1>3
<1>5. l \in Seq(S) /\ r \in Seq(S) /\ Len(l) = 2 /\ Len(r) = 2
  BY <1>1, <1>2, <1>3
<1> HIDE DEF l, r
<1>6. l = r
  BY <1>4, <1>5, SeqEqual
<1> QED
  BY <1>6 DEF l, r

LEMMA AppendToTwo ==
  ASSUME NEW a, NEW b, NEW c
  PROVE  Append(<<a, b>>, c) = <<a, b, c>>
<1> DEFINE S == {a,b,c}
<1>1. <<a, b>> \in Seq(S) /\ <<a, b, c>> \in Seq(S) /\ c \in S
  OBVIOUS
<1>2. Len(<<a, b>>) = 2 /\ Len(<<a, b, c>>) = 3
  OBVIOUS
<1> HIDE DEF S
<1>3. /\ Append(<<a, b>>, c) \in Seq(S) /\ Len(Append(<<a, b>>, c)) = 3
      /\ Append(<<a, b>>, c)[1] = a /\ Append(<<a, b>>, c)[2] = b /\ Append(<<a, b>>, c)[3] = c
  <2>1. Len(<<a, b>>)+1 = 3 /\ 1 \in 1..Len(<<a, b>>) /\ 2 \in 1..Len(<<a, b>>)
    BY <1>2
  <2>2. <<a, b>>[1] = a /\ <<a, b>>[2] = b
    OBVIOUS
  <2> QED
    BY <1>1, <1>2, <2>1, <2>2, AppendProperties
<1> DEFINE l == Append(<<a, b>>, c)
           r == <<a, b, c>>
<1>4. \A i \in 1..3 : l[i] = r[i]
  <2>1. \A i \in 1..3 : i = 1 \/ i = 2 \/ i = 3
    OBVIOUS
  <2> QED
    BY <2>1, <1>3
<1>5. l \in Seq(S) /\ r \in Seq(S) /\ Len(l) = 3 /\ Len(r) = 3
  BY <1>1, <1>2, <1>3
<1> HIDE DEF l, r
<1>6. l = r
  BY <1>4, <1>5, SeqEqual
<1> QED
  BY <1>6 DEF l, r

(* The trails of one, two and three labels, with where they lead.           *)
LEMMA TrailShapes ==
  ASSUME ViewTypeOK, NEW t \in Trails
  PROVE  \/ \E e \in Root : t = <<<<Label(e)>>, e>>
         \/ \E e \in Root : \E f \in Below(e) : t = <<<<Label(e), Label(f)>>, f>>
         \/ \E d \in Disks, n \in Partitions :
              t = <<<<Label(Disk(d)), Label(Folder(d, "part")), Label(Partition(d, n))>>,
                    Partition(d, n)>>
<1> DEFINE Deeper(ts) == UNION {{<<Append(t1[1], Label(e)), e>> : e \in Below(t1[2])} : t1 \in ts}
           first  == {<<<<Label(e)>>, e>> : e \in Root}
           second == Deeper(first)
<1>1. t \in first \/ t \in second \/ t \in Deeper(second)
  BY DEF Trails
<1>2. \A s \in second : \E e \in Root : \E f \in Below(e) : s = <<<<Label(e), Label(f)>>, f>>
  <2> SUFFICES ASSUME NEW s \in second
               PROVE  \E e \in Root : \E f \in Below(e) : s = <<<<Label(e), Label(f)>>, f>>
    OBVIOUS
  <2>1. PICK r \in first : s \in {<<Append(r[1], Label(f)), f>> : f \in Below(r[2])}
    OBVIOUS
  <2>2. PICK e \in Root : r = <<<<Label(e)>>, e>>
    BY <2>1
  <2>3. PICK f \in Below(e) : s = <<Append(<<Label(e)>>, Label(f)), f>>
    BY <2>1, <2>2
  <2>4. Append(<<Label(e)>>, Label(f)) = <<Label(e), Label(f)>>
    BY AppendToOne
  <2> QED
    BY <2>3, <2>4
<1>3. ASSUME t \in Deeper(second)
      PROVE  \E d \in Disks, n \in Partitions :
               t = <<<<Label(Disk(d)), Label(Folder(d, "part")), Label(Partition(d, n))>>,
                     Partition(d, n)>>
  <2>1. PICK r \in second : t \in {<<Append(r[1], Label(h)), h>> : h \in Below(r[2])}
    BY <1>3
  <2> HIDE DEF second, first, Deeper
  <2>2. PICK e \in Root : \E f \in Below(e) : r = <<<<Label(e), Label(f)>>, f>>
    BY <1>2, <2>1
  <2>3. PICK f \in Below(e) : r = <<<<Label(e), Label(f)>>, f>>
    BY <2>2
  <2>4. PICK h \in Below(f) : t = <<Append(<<Label(e), Label(f)>>, Label(h)), h>>
    BY <2>1, <2>3
  <2>5. Append(<<Label(e), Label(f)>>, Label(h)) = <<Label(e), Label(f), Label(h)>>
    BY AppendToTwo
  <2> QED
    BY <2>4, <2>5, BelowSecond
<1> QED
  BY <1>1, <1>2, <1>3

LEMMA LabelFacts ==
  /\ \A d : Label(Disk(d)) = Disk(d)
  /\ \A g : Label(Group(g)) = Group(g)
  /\ \A d, n : Label(Partition(d, n)) = <<"number", n>>
  /\ \A d, f : Label(Folder(d, f)) = <<"name", f>>
  /\ \A g, v : Label(Volume(g, v)) = <<"name", v>>
  /\ \A e : Label(Inside(e)) = <<"name", "directory">>
BY EntryTags DEF Label

(* What the resolver makes of the trails there are.                         *)
LEMMA MeantFacts ==
  /\ \A l : Meant(<<l>>) = Unavailable
  /\ \A d, n : Meant(<<Disk(d), <<"number", n>>>>) = Partition(d, n)
  /\ \A d, f : Meant(<<Disk(d), <<"name", f>>>>) = Unavailable
  /\ \A g, v : Meant(<<Group(g), <<"name", v>>>>) = Volume(g, v)
  /\ \A d, n : Meant(<<Disk(d), <<"name", "part">>, <<"number", n>>>>) = Partition(d, n)
<1>1. /\ \A a : Len(<<a>>) = 1
      /\ \A a, b : Len(<<a, b>>) = 2
      /\ \A a, b, c : Len(<<a, b, c>>) = 3
  OBVIOUS
<1>2. \A l : Meant(<<l>>) = Unavailable
  BY <1>1 DEF Meant
<1>3. \A d, n : Meant(<<Disk(d), <<"number", n>>>>) = Partition(d, n)
  BY <1>1, EntryTags DEF Meant
<1>4. \A d, f : Meant(<<Disk(d), <<"name", f>>>>) = Unavailable
  BY <1>1, EntryTags DEF Meant
<1>5. \A g, v : Meant(<<Group(g), <<"name", v>>>>) = Volume(g, v)
  BY <1>1, EntryTags DEF Meant
<1>6. \A d, n : Meant(<<Disk(d), <<"name", "part">>, <<"number", n>>>>) = Partition(d, n)
  BY <1>1, EntryTags DEF Meant
<1> QED
  BY <1>2, <1>3, <1>4, <1>5, <1>6

(* Where a trail leads and what it is taken for.                            *)
LEMMA TrailCases ==
  ASSUME ViewTypeOK, NEW t \in Trails
  PROVE  /\ Meant(t[1]) \in Places \cup {Unavailable}
         /\ t[2] \in FileSystems => Meant(t[1]) = t[2]
<1>1. ASSUME NEW e \in Root, t = <<<<Label(e)>>, e>>
      PROVE  Meant(t[1]) = Unavailable /\ t[2] \notin FileSystems
  <2>1. e[1] \in {"disk", "group"}
    BY RootCases, EntryTags
  <2> QED
    BY <1>1, <2>1, MeantFacts, EntryTags DEF FileSystems
<1>2. ASSUME NEW e \in Root, NEW f \in Below(e), t = <<<<Label(e), Label(f)>>, f>>
      PROVE  /\ Meant(t[1]) \in Places \cup {Unavailable}
             /\ t[2] \in FileSystems => Meant(t[1]) = t[2]
  <2>1. ASSUME NEW d \in Disks, NEW n \in Partitions, e = Disk(d), f = Partition(d, n)
        PROVE  Meant(t[1]) = f /\ f \in Places
    BY <1>2, <2>1, LabelFacts, MeantFacts DEF Places, FileSystems
  <2>2. ASSUME NEW d \in Disks, NEW c, e = Disk(d), f = Folder(d, c)
        PROVE  Meant(t[1]) = Unavailable /\ f \notin FileSystems
    BY <1>2, <2>2, LabelFacts, MeantFacts, EntryTags DEF FileSystems
  <2>3. ASSUME NEW g \in Groups, NEW v \in LogicalVolumes, e = Group(g), f = Volume(g, v)
        PROVE  Meant(t[1]) = f /\ f \in Places
    BY <1>2, <2>3, LabelFacts, MeantFacts DEF Places, FileSystems
  <2>4. ASSUME NEW g \in Groups, NEW i, e = Group(g), f = Inside(i)
        PROVE  Meant(t[1]) \in Places /\ f \notin FileSystems
    BY <1>2, <2>4, LabelFacts, MeantFacts, EntryTags DEF Places, FileSystems
  <2>5. t[2] = f
    BY <1>2
  <2> QED
    BY <2>1, <2>2, <2>3, <2>4, <2>5, RootCases, BelowDisk, BelowGroup
<1>3. ASSUME NEW d \in Disks, NEW n \in Partitions,
             t = <<<<Label(Disk(d)), Label(Folder(d, "part")), Label(Partition(d, n))>>,
                   Partition(d, n)>>
      PROVE  Meant(t[1]) = Partition(d, n) /\ t[2] = Partition(d, n)
  BY <1>3, LabelFacts, MeantFacts
<1>4. \A d \in Disks, n \in Partitions : Partition(d, n) \in Places
  BY DEF Places, FileSystems
<1> QED
  BY <1>1, <1>2, <1>3, <1>4, TrailShapes

(* The view and the resolver agree about every partition and volume.        *)
THEOREM TrailsLeadBack == LocationSpec => []TrailsAreUnderstood
<1>1. ViewTypeOK => TrailsAreUnderstood
  BY TrailCases DEF TrailsAreUnderstood
<1> QED
  BY <1>1, ViewTyped, LocationIsView, PTL

-----------------------------------------------------------------------------
(* The lookup.  Rows the cache still vouches for are the guest's disks.     *)
RowsKnown == rows # None /\ ~stale => rows = order

(* What a request knows: only partitions are located, an address is only    *)
(* looked for on Windows, and a number found by address from rows that are  *)
(* still true is that of the disk asked for.                                *)
RequestFits ==
  /\ request.pc # "idle" => request.asked \in Places
  /\ request.pc = "locating" => IsPartition(request.asked)
  /\ request.pc = "asking" /\ IsPartition(request.asked)
       /\ request.by = "address" /\ request.steady =>
         request.os = "windows" /\ order[request.number] = request.asked[2]

LocationInv ==
  /\ ViewTypeOK
  /\ LocationTypeOK
  /\ RowsKnown
  /\ RequestFits
  /\ AddressedIsRight

(* An order of the disks is a function on its positions, of which there are *)
(* no more than disks.                                                      *)
LEMMA OrderFacts ==
  ASSUME NEW s \in Orders
  PROVE  \A k \in Positions(s) : k \in 1..Cardinality(Disks) /\ s[k] \in Disks
<1>1. PICK n \in 0..Cardinality(Disks) : s \in [1..n -> Disks]
  BY DEF Orders
<1>2. n \in Nat /\ Cardinality(Disks) \in Nat /\ n <= Cardinality(Disks)
  BY <1>1, ListedAssumption, FS_CardinalityType
<1>3. s \in Seq(Disks)
  BY <1>1, <1>2, SeqDef
<1>4. Len(s) = n
  BY <1>1, <1>2, <1>3, LenProperties
<1> QED
  BY <1>1, <1>2, <1>4 DEF Positions

LEMMA ListedPosition ==
  ASSUME NEW d \in Disks
  PROVE  PositionIn(Listed, d) \in 1..Cardinality(Disks)
<1>1. \E k \in Positions(Listed) : Listed[k] = d
  BY ListedAssumption DEF Contains
<1>2. PositionIn(Listed, d) \in Positions(Listed)
  BY <1>1 DEF PositionIn
<1> QED
  BY <1>2, OrderFacts, ListedAssumption

(* Partitions and volumes, told apart by their tag.                         *)
LEMMA PlaceFacts ==
  /\ \A d, n : IsPartition(Partition(d, n))
  /\ \A g, v : ~IsPartition(Volume(g, v))
  /\ \A p \in Places : IsPartition(p) =>
       p \in FileSystems /\ p[2] \in Disks /\ p[3] \in Partitions /\ p = Partition(p[2], p[3])
  /\ FileSystems \subseteq Places
  /\ \A d \in Disks, n \in Partitions : Partition(d, n) \in FileSystems
  /\ \A g \in Groups, v \in LogicalVolumes : Volume(g, v) \in FileSystems
BY EntryTags DEF Places, FileSystems, IsPartition

RequestType ==
  [pc : {"idle", "locating", "asking", "answered"}, os : {"windows", "linux"},
   asked : Places \cup {None}, by : {"position", "address"},
   number : 0..Cardinality(Disks), steady : BOOLEAN,
   answer : FileSystems \cup {None, Unavailable}]

(* The ways a request changes.                                              *)
LEMMA RequestRecords ==
  ASSUME NEW r \in RequestType
  PROVE  /\ [r EXCEPT !.steady = FALSE] \in RequestType
         /\ \A a \in FileSystems \cup {None, Unavailable} : Answer(r, a) \in RequestType
         /\ \A k \in 0..Cardinality(Disks) :
              [r EXCEPT !.pc = "asking", !.by = "position", !.number = k] \in RequestType
         /\ \A k \in 0..Cardinality(Disks), b \in BOOLEAN :
              [r EXCEPT !.pc = "asking", !.by = "address", !.number = k, !.steady = b]
                \in RequestType
<1> DEFINE Numbers == 0..Cardinality(Disks)
           Answers == FileSystems \cup {None, Unavailable}
           Asked   == Places \cup {None}
<1>1. RequestType =
        [pc : {"idle", "locating", "asking", "answered"}, os : {"windows", "linux"},
         asked : Asked, by : {"position", "address"}, number : Numbers, steady : BOOLEAN,
         answer : Answers]
  BY DEF RequestType
<1> HIDE DEF Numbers, Answers, Asked
<1>2. [r EXCEPT !.steady = FALSE] \in RequestType
  BY <1>1
<1>3. ASSUME NEW a \in Answers PROVE Answer(r, a) \in RequestType
  BY <1>1 DEF Answer
<1>4. ASSUME NEW k \in Numbers
      PROVE  [r EXCEPT !.pc = "asking", !.by = "position", !.number = k] \in RequestType
  BY <1>1
<1>5. ASSUME NEW k \in Numbers, NEW b \in BOOLEAN
      PROVE  [r EXCEPT !.pc = "asking", !.by = "address", !.number = k, !.steady = b]
               \in RequestType
  BY <1>1
<1> QED
  BY <1>2, <1>3, <1>4, <1>5 DEF Numbers, Answers

LEMMA IdleRecord ==
  ASSUME NEW p \in {"locating", "asking"}, NEW o \in {"windows", "linux"}, NEW a \in Places
  PROVE  /\ Idle \in RequestType
         /\ [Idle EXCEPT !.pc = p, !.os = o, !.asked = a] \in RequestType
<1>1. 0 \in 0..Cardinality(Disks)
  BY ListedAssumption, FS_CardinalityType
<1>2. Idle \in RequestType
  BY <1>1 DEF Idle, RequestType
<1>3. [Idle EXCEPT !.pc = p, !.os = o, !.asked = a] \in RequestType
  BY <1>2 DEF RequestType
<1> QED
  BY <1>2, <1>3

-----------------------------------------------------------------------------
(* The cache's part of a step: rows that are read are the guest's.          *)
LEMMA FetchFacts ==
  ASSUME LocationTypeOK, RowsKnown, FetchRows, order' = order
  PROVE  /\ rows' \in Orders \cup {None}
         /\ stale' \in BOOLEAN
         /\ RowsKnown'
BY DEF FetchRows, LocationTypeOK, RowsKnown

LEMMA LocationStepKeeps ==
  ASSUME LocationInv, LocationStep
  PROVE  LocationInv'
<1>0. /\ request \in RequestType
      /\ order \in Orders /\ moves \in 0..MaxMoves
      /\ rows \in Orders \cup {None} /\ stale \in BOOLEAN
  BY DEF LocationInv, LocationTypeOK, RequestType
<1> USE <1>0
<1>1. ViewTypeOK'
  <2>1. UNCHANGED view
    BY DEF LocationStep, Renumber, RowsExpire, Annotate, Ask, LocateOnWindows, LocateOnLinux,
           NotFound, FindLetter, FindMountPoint, FindVolume
  <2> QED
    BY <2>1 DEF view, ViewTypeOK, LocationInv
<1> DEFINE Rest == LocationTypeOK /\ RowsKnown /\ RequestFits /\ AddressedIsRight
<1>2. CASE Renumber
  <2>1. /\ order' \in Orders /\ moves' \in 0..MaxMoves
        /\ rows' \in Orders \cup {None} /\ stale' \in BOOLEAN
    BY <1>2, MovesAssumption DEF Renumber
  <2>2. request' = [request EXCEPT !.steady = FALSE]
    BY <1>2 DEF Renumber
  <2>3. request' \in RequestType
    BY <2>2, RequestRecords
  <2>4. /\ request'.pc = request.pc /\ request'.asked = request.asked
        /\ request'.answer = request.answer /\ ~request'.steady
    BY <2>2 DEF RequestType
  <2>5. RowsKnown'
    BY <1>2 DEF Renumber, RowsKnown
  <2>6. RequestFits' /\ AddressedIsRight'
    BY <2>4 DEF LocationInv, RequestFits, AddressedIsRight, FoundByKey
  <2> QED
    BY <1>1, <2>1, <2>3, <2>5, <2>6 DEF LocationInv, LocationTypeOK, RequestType
<1>3. CASE RowsExpire \/ Annotate
  <2>1. order' = order /\ moves' = moves /\ request' = request
    BY <1>3 DEF RowsExpire, Annotate
  <2>2. rows' \in Orders \cup {None} /\ stale' \in BOOLEAN /\ RowsKnown'
    BY <1>3, <2>1, FetchFacts DEF RowsExpire, Annotate, RowsKnown, LocationInv
  <2> QED
    BY <1>1, <2>1, <2>2 DEF LocationInv, LocationTypeOK, RequestFits, AddressedIsRight, FoundByKey
<1>4. ASSUME NEW trail \in Trails, NEW os \in {"windows", "linux"}, Ask(trail, os)
      PROVE  LocationInv'
  <2> DEFINE a == Meant(trail[1])
  <2>1. a \in Places
    BY <1>4, TrailCases DEF Ask, LocationInv
  <2> HIDE DEF a
  <2>2. PICK p \in {"locating", "asking"} :
          /\ p = "locating" => IsPartition(a)
          /\ p = "asking" => ~IsPartition(a)
          /\ request' = [Idle EXCEPT !.pc = p, !.os = os, !.asked = a]
    BY <1>4 DEF Ask, a
  <2>3. request' \in RequestType
    BY <2>1, <2>2, IdleRecord
  <2>4. request'.pc = p /\ request'.asked = a
    BY <2>2 DEF Idle
  <2>5. UNCHANGED <<order, moves, rows, stale>>
    BY <1>4 DEF Ask
  <2>6. RequestFits' /\ AddressedIsRight' /\ RowsKnown'
    BY <2>1, <2>2, <2>4, <2>5 DEF LocationInv, RowsKnown, RequestFits, AddressedIsRight
  <2> QED
    BY <1>1, <2>3, <2>5, <2>6 DEF LocationInv, LocationTypeOK, RequestType
<1>5. ASSUME NEW d \in Disks, ByPosition(d), request.pc = "locating",
             RowsKnown', order' = order, moves' = moves,
             rows' \in Orders \cup {None}, stale' \in BOOLEAN
      PROVE  LocationInv'
  <2>1. IsPartition(request.asked) /\ request.asked \in Places
    BY <1>5 DEF LocationInv, RequestFits
  <2>2. CASE request' = [request EXCEPT !.pc = "asking", !.by = "position",
                                        !.number = PositionIn(Listed, d)]
    <3>1. PositionIn(Listed, d) \in 0..Cardinality(Disks)
      BY ListedPosition
    <3>2. request' \in RequestType
      BY <2>2, <3>1, RequestRecords
    <3>3. request'.pc = "asking" /\ request'.by = "position" /\ request'.asked = request.asked
      BY <2>2 DEF RequestType
    <3>4. RequestFits' /\ AddressedIsRight'
      BY <2>1, <3>3 DEF RequestFits, AddressedIsRight
    <3> QED
      BY <1>1, <1>5, <3>2, <3>4 DEF LocationInv, LocationTypeOK, RequestType
  <2>3. CASE request' = Answer(request, Unavailable)
    <3>1. request' \in RequestType
      BY <2>3, RequestRecords
    <3>2. /\ request'.pc = "answered" /\ request'.answer = Unavailable
          /\ request'.asked = request.asked
      BY <2>3 DEF Answer, RequestType
    <3>3. RequestFits' /\ AddressedIsRight'
      BY <2>1, <3>2 DEF RequestFits, AddressedIsRight
    <3> QED
      BY <1>1, <1>5, <3>1, <3>3 DEF LocationInv, LocationTypeOK, RequestType
  <2> QED
    BY <1>5, <2>2, <2>3 DEF ByPosition
<1>6. CASE LocateOnWindows
  <2> DEFINE d == request.asked[2]
  <2>1. /\ IsPartition(request.asked) /\ request.asked \in Places /\ d \in Disks
        /\ request.pc = "locating" /\ request.os = "windows"
    BY <1>6, PlaceFacts DEF LocateOnWindows, LocationInv, RequestFits
  <2>2. order' = order /\ moves' = moves
    BY <1>6 DEF LocateOnWindows
  <2>3. rows' \in Orders \cup {None} /\ stale' \in BOOLEAN /\ RowsKnown'
    BY <1>6, <2>2, FetchFacts DEF LocateOnWindows, LocationInv
  <2>4. ASSUME NEW k \in 1..Cardinality(Disks), Matches(d, k),
               request' = [request EXCEPT !.pc = "asking", !.by = "address",
                                          !.number = k, !.steady = ~stale']
        PROVE  LocationInv'
    <3>1. k \in 0..Cardinality(Disks) /\ (~stale') \in BOOLEAN
      BY <2>3, ListedAssumption, FS_CardinalityType
    <3>2. request' \in RequestType
      BY <2>4, <3>1, RequestRecords
    <3>3. /\ request'.pc = "asking" /\ request'.os = "windows"
          /\ request'.asked = request.asked /\ request'.number = k
          /\ request'.steady => ~stale'
      BY <2>1, <2>4 DEF RequestType
    <3>4. ~stale' => order'[k] = d
      BY <2>3, <2>4 DEF Matches, RowsKnown
    <3>5. RequestFits' /\ AddressedIsRight'
      BY <2>1, <3>3, <3>4 DEF RequestFits, AddressedIsRight
    <3> QED
      BY <1>1, <2>2, <2>3, <3>2, <3>5 DEF LocationInv, LocationTypeOK, RequestType
  <2>5. CASE ByPosition(d)
    BY <1>5, <2>1, <2>2, <2>3, <2>5
  <2> QED
    BY <1>6, <2>4, <2>5 DEF LocateOnWindows
<1>7. CASE LocateOnLinux
  <2>1. /\ IsPartition(request.asked) /\ request.asked \in Places
        /\ request.pc = "locating" /\ request.asked[2] \in Disks
    BY <1>7, PlaceFacts DEF LocateOnLinux, LocationInv, RequestFits
  <2>2. UNCHANGED <<order, moves, rows, stale>> /\ ByPosition(request.asked[2])
    BY <1>7 DEF LocateOnLinux
  <2>3. RowsKnown'
    BY <2>2 DEF LocationInv, RowsKnown
  <2> QED
    BY <1>5, <2>1, <2>2, <2>3
<1>8. ASSUME NEW a \in FileSystems \cup {Unavailable}, request.pc = "asking",
             request' = Answer(request, a), FoundByKey => a \in {Unavailable, request.asked},
             UNCHANGED <<order, moves, rows, stale>>
      PROVE  LocationInv'
  <2>1. request' \in RequestType
    BY <1>8, RequestRecords
  <2>2. /\ request'.pc = "answered" /\ request'.answer = a /\ request'.asked = request.asked
        /\ request'.by = request.by /\ request'.steady = request.steady
    BY <1>8 DEF Answer, RequestType
  <2>3. RowsKnown' /\ RequestFits' /\ AddressedIsRight'
    BY <1>8, <2>2 DEF LocationInv, RowsKnown, RequestFits, AddressedIsRight, FoundByKey
  <2> QED
    BY <1>1, <1>8, <2>1, <2>3 DEF LocationInv, LocationTypeOK, RequestType
<1>9. CASE NotFound
  BY <1>8, <1>9 DEF NotFound
<1>10. CASE FindLetter
  <2> DEFINE a == Partition(order[request.number], request.asked[3])
  <2>1. /\ request.pc = "asking" /\ IsPartition(request.asked) /\ request.asked \in Places
        /\ request.number \in Positions(order) /\ request' = Answer(request, a)
        /\ UNCHANGED <<order, moves, rows, stale>>
    BY <1>10 DEF FindLetter, LocationInv, RequestFits
  <2>2. order[request.number] \in Disks /\ request.asked[3] \in Partitions
    BY <2>1, OrderFacts, PlaceFacts
  <2>3. a \in FileSystems
    BY <2>2, PlaceFacts
  <2>4. FoundByKey => a = request.asked
    BY <2>1, PlaceFacts DEF FoundByKey, LocationInv, RequestFits
  <2> QED
    BY <1>8, <2>1, <2>3, <2>4
<1>11. CASE FindMountPoint
  <2>1. /\ request.pc = "asking" /\ request.os = "linux" /\ IsPartition(request.asked)
        /\ request.number \in Positions(order)
        /\ UNCHANGED <<order, moves, rows, stale>>
    BY <1>11 DEF FindMountPoint
  <2>2. ~FoundByKey
    BY <2>1 DEF FoundByKey, LocationInv, RequestFits
  <2>3. order[request.number] \in Disks
    BY <2>1, OrderFacts
  <2>4. PICK table \in SUBSET Partitions : \E held \in SUBSET Partitions :
          \E p \in MountedAt(order[request.number], table, held, request.asked[3]) :
            request' = Answer(request, p)
    BY <1>11 DEF FindMountPoint
  <2>5. PICK held \in SUBSET Partitions :
          \E p \in MountedAt(order[request.number], table, held, request.asked[3]) :
            request' = Answer(request, p)
    BY <2>4
  <2>6. PICK p \in MountedAt(order[request.number], table, held, request.asked[3]) :
          request' = Answer(request, p)
    BY <2>5
  <2>7. p \in FileSystems
    <3>1. \/ \E n \in table : p = Partition(order[request.number], n)
          \/ \E g \in Groups, v \in LogicalVolumes : p = Volume(g, v)
      BY <2>6 DEF MountedAt
    <3> QED
      BY <2>3, <3>1, PlaceFacts
  <2> QED
    BY <1>8, <2>1, <2>2, <2>6, <2>7
<1>12. CASE FindVolume
  BY <1>8, <1>12 DEF FindVolume
<1> QED
  BY <1>2, <1>3, <1>4, <1>6, <1>7, <1>9, <1>10, <1>11, <1>12 DEF LocationStep

LEMMA LocationInvariance == LocationSpec => []LocationInv
<1>1. LocationInit => LocationInv
  <2> SUFFICES ASSUME LocationInit PROVE LocationInv
    OBVIOUS
  <2>1. Idle \in RequestType
    <3>1. 0 \in 0..Cardinality(Disks)
      BY ListedAssumption, FS_CardinalityType
    <3> QED
      BY <3>1 DEF Idle, RequestType
  <2>2. request = Idle /\ Idle.pc = "idle"
    BY DEF LocationInit, Idle
  <2>3. LocationTypeOK
    <3>1. moves \in 0..MaxMoves
      BY MovesAssumption DEF LocationInit
    <3>2. order \in Orders /\ rows = None /\ stale = FALSE
      BY ListedAssumption DEF LocationInit
    <3> QED
      BY <2>1, <2>2, <3>1, <3>2 DEF LocationTypeOK, RequestType
  <2>4. RowsKnown /\ RequestFits /\ AddressedIsRight
    BY <2>2 DEF LocationInit, RowsKnown, RequestFits, AddressedIsRight
  <2>5. ViewTypeOK
    BY DEF LocationInit, Init, ViewTypeOK
  <2> QED
    BY <2>3, <2>4, <2>5 DEF LocationInv
<1>2. LocationInv /\ [(Next /\ UNCHANGED location) \/ LocationStep]_<<view, location>>
        => LocationInv'
  <2> SUFFICES ASSUME LocationInv,
                      [(Next /\ UNCHANGED location) \/ LocationStep]_<<view, location>>
               PROVE  LocationInv'
    OBVIOUS
  <2>1. CASE UNCHANGED location /\ [Next]_view
    <3>1. ViewTypeOK'
      BY <2>1 DEF LocationInv, ViewTypeOK, Next, Fail, Heal, view
    <3>2. LocationTypeOK' /\ RowsKnown' /\ RequestFits' /\ AddressedIsRight'
      BY <2>1 DEF LocationInv, location, LocationTypeOK, RowsKnown, RequestFits,
                  AddressedIsRight, FoundByKey
    <3> QED
      BY <3>1, <3>2 DEF LocationInv
  <2>2. CASE LocationStep
    BY <2>2, LocationStepKeeps
  <2> QED
    BY <2>1, <2>2 DEF view, location
<1> QED
  BY <1>1, <1>2, PTL DEF LocationSpec

(* Positions, places and answers are ones there can be.                     *)
THEOREM LocationTypeCorrect == LocationSpec => []LocationTypeOK
<1>1. LocationInv => LocationTypeOK
  BY DEF LocationInv
<1> QED
  BY <1>1, LocationInvariance, PTL

(* A destination found by name, or by an address in rows that still hold,   *)
(* is on the file system the item came from, however the guest's disks are  *)
(* attached and numbered and whatever fails on the way.                     *)
THEOREM KeysNeverMislead == LocationSpec => []AddressedIsRight
<1>1. LocationInv => AddressedIsRight
  BY DEF LocationInv
<1> QED
  BY <1>1, LocationInvariance, PTL
=============================================================================
