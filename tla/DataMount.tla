----------------------------- MODULE DataMount ------------------------------
(***************************************************************************)
(* init_mount_data, which PID 1 runs once per boot: find the partition for *)
(* /data among the expected names and then among all others, grow it in    *)
(* the partition table, mount it, grow its file system, and format one of  *)
(* the expected partitions when it cannot be mounted.                      *)
(*                                                                         *)
(* Partitions are numbered in the order in which they are tried.  Of a     *)
(* partition table the end of the last partition is kept, which is all     *)
(* that changes: once for the entries, once as the header's checksum has   *)
(* it, and once for the backup at the end of the disk.  What the kernel    *)
(* does is external: it reads the tables at boot, and mounts or refuses.   *)
(***************************************************************************)
EXTENDS Integers, FiniteSets

CONSTANTS
    NumParts,       \* number of partitions
    NumCandidates,  \* how many of them have one of the expected names
    DataDisks,      \* the disks
    DiskOf,         \* the disk of each partition
    LastPart,       \* the last partition of each disk
    DiskEnd,        \* the last usable place of every disk
    MaxBoots,       \* bound on the times power is switched on
    MaxMountFaults  \* bound on failing system calls

ASSUME DataMountAssumption ==
    /\ NumParts \in Nat /\ NumCandidates \in 0..NumParts
    /\ DiskOf \in [1..NumParts -> DataDisks]
    /\ LastPart \in [DataDisks -> 1..NumParts]
    /\ DiskEnd \in Nat \ {0} /\ MaxBoots \in Nat \ {0} /\ MaxMountFaults \in Nat

VARIABLES
    dmPc, dmPart,    \* where init_mount_data is, and with which partition
    dmEntries, dmHeader, dmBackup,   \* the table of each disk; a backup of 0 is none
    dmKernel,        \* the end of the last partition as the kernel knows it, 0 without a table
    dmFs,            \* what each partition holds
    dmFsEnd,         \* how far the file system of the last partition of a disk reaches
    dmMounted,       \* the partition on /data, NumParts + 1 for the tmpfs, 0 before
    dmFaulty,        \* partitions on which a call failed in this boot (history)
    dmLost,          \* what partitions lost although no call had failed on them (history)
    dmTorn,          \* disks whose table was once half written (history)
    dmBoots, dmFaults

dmVars == <<dmPc, dmPart, dmEntries, dmHeader, dmBackup, dmKernel, dmFs, dmFsEnd, dmMounted,
            dmFaulty, dmLost, dmTorn, dmBoots, dmFaults>>
dmDisk == <<dmEntries, dmHeader, dmBackup, dmKernel>>
dmHistory == <<dmLost, dmTorn, dmBoots>>

Parts == 1..NumParts
Candidate(p) == p <= NumCandidates
Tmpfs == NumParts + 1
Ends == 1..DiskEnd

\* "alien" has the magic number of ext4 and is refused by this kernel: it needs a repair or
\* has features the kernel lacks.
FileSystems == {"ext4", "alien", "other", "new", "torn"}
HasMagic(p) == dmFs[p] \in {"ext4", "alien", "new"}
Mountable(p) == dmFs[p] \in {"ext4", "new"}

\* The kernel takes the primary table when its checksum is right, else the backup.
KernelView(d) == IF dmEntries[d] = dmHeader[d] THEN dmEntries[d] ELSE dmBackup[d]
Visible(p) == dmKernel[DiskOf[p]] # 0

GoOn(pc) == dmPc' = pc /\ UNCHANGED dmPart
NextPart == dmPc' = "next" /\ dmPart' = dmPart + 1
MountFault == /\ dmFaults < MaxMountFaults /\ dmFaults' = dmFaults + 1
              /\ dmFaulty' = dmFaulty \union {dmPart}
NoFault == UNCHANGED <<dmFaulty, dmFaults>>
Lose(p) == dmLost' = IF p \in dmFaulty THEN dmLost ELSE dmLost \union {<<p, dmFs[p]>>}

-----------------------------------------------------------------------------
\* The next candidate or discovered partition that exists; after the last one /data is a
\* file system in memory.
TryPartition ==
    /\ dmPc = "next"
    /\ \/ dmPart > NumParts /\ dmMounted' = Tmpfs /\ GoOn("done")
       \/ dmPart <= NumParts /\ ~Visible(dmPart) /\ NextPart /\ UNCHANGED dmMounted
       \/ dmPart <= NumParts /\ Visible(dmPart) /\ GoOn("probe") /\ UNCHANGED dmMounted
    /\ NoFault
    /\ UNCHANGED <<dmDisk, dmFs, dmFsEnd, dmHistory>>

\* Mutant of ReadSuperblock: the magic number is not looked at.
ReadSuperblock_NoMagic ==
    /\ dmPc = "probe"
    /\ GoOn("grow") /\ NoFault
    /\ UNCHANGED <<dmDisk, dmFs, dmFsEnd, dmMounted, dmHistory>>

\* A superblock that is not ext4 rules the partition out; one that cannot be read does not.
ReadSuperblock ==
    /\ dmPc = "probe"
    /\ \/ HasMagic(dmPart) /\ GoOn("grow") /\ NoFault
       \/ ~HasMagic(dmPart) /\ NextPart /\ NoFault
       \/ MountFault /\ GoOn("grow")
    /\ UNCHANGED <<dmDisk, dmFs, dmFsEnd, dmMounted, dmHistory>>

\* Mutant of GrowTable: a partition that does not grow is passed over.
GrowTable_FailureSkips ==
    LET d == DiskOf[dmPart]
        room == LastPart[d] = dmPart /\ dmEntries[d] < DiskEnd IN
    /\ dmPc = "grow"
    /\ \/ room /\ GoOn("entries") /\ NoFault
       \/ ~room /\ NextPart /\ NoFault
    /\ UNCHANGED <<dmDisk, dmFs, dmFsEnd, dmMounted, dmHistory>>

\* grow_gpt_partition: only the last partition grows, and only when there is room.  The
\* header is read but its checksum is not verified.
GrowTable ==
    LET d == DiskOf[dmPart]
        room == LastPart[d] = dmPart /\ dmEntries[d] < DiskEnd IN
    /\ dmPc = "grow"
    /\ \/ room /\ GoOn("entries") /\ NoFault
       \/ ~room /\ GoOn("mount") /\ NoFault
       \/ MountFault /\ GoOn("mount")
    /\ UNCHANGED <<dmDisk, dmFs, dmFsEnd, dmMounted, dmHistory>>

\* The entries and then the header are written; the results are looked at after both.
WriteTable(field, field_) ==
    LET d == DiskOf[dmPart] IN
    \/ field_ = [field EXCEPT ![d] = DiskEnd] /\ NoFault /\ UNCHANGED dmTorn
    \/ field_ = field /\ MountFault /\ dmTorn' = dmTorn \union {d}

\* Mutant of WriteEntries: the end is one past the last usable place.
WriteEntries_OneTooFar ==
    /\ dmPc = "entries"
    /\ dmEntries' = [dmEntries EXCEPT ![DiskOf[dmPart]] = DiskEnd + 1]
    /\ NoFault /\ GoOn("header")
    /\ UNCHANGED <<dmHeader, dmBackup, dmKernel, dmFs, dmFsEnd, dmMounted, dmHistory>>

WriteEntries ==
    /\ dmPc = "entries"
    /\ WriteTable(dmEntries, dmEntries') /\ GoOn("header")
    /\ UNCHANGED <<dmHeader, dmBackup, dmKernel, dmFs, dmFsEnd, dmMounted, dmLost, dmBoots>>

\* Mutant of WriteHeader: the header keeps the checksum of the old entries.
WriteHeader_StaleChecksum ==
    /\ dmPc = "header"
    /\ NoFault /\ GoOn("backup")
    /\ UNCHANGED <<dmDisk, dmFs, dmFsEnd, dmMounted, dmHistory>>

\* Mutant of WriteHeader: the kernel is told of a table that was not written.
WriteHeader_ResultIgnored ==
    /\ dmPc = "header"
    /\ WriteTable(dmHeader, dmHeader')
    /\ GoOn("backup")
    /\ UNCHANGED <<dmEntries, dmBackup, dmKernel, dmFs, dmFsEnd, dmMounted, dmLost, dmBoots>>

\* The checksum in the header is that of the new entries, written or not.
WriteHeader ==
    /\ dmPc = "header"
    /\ WriteTable(dmHeader, dmHeader')
    /\ GoOn(IF dmEntries[DiskOf[dmPart]] = DiskEnd /\ dmHeader'[DiskOf[dmPart]] = DiskEnd
            THEN "backup" ELSE "mount")
    /\ UNCHANGED <<dmEntries, dmBackup, dmKernel, dmFs, dmFsEnd, dmMounted, dmLost, dmBoots>>

\* The backup and the protective MBR, where errors do not matter, and the kernel is told,
\* which may refuse.
WriteBackup ==
    LET d == DiskOf[dmPart]
        backup == [dmBackup EXCEPT ![d] = DiskEnd]
        kernel == [dmKernel EXCEPT ![d] = DiskEnd] IN
    /\ dmPc = "backup"
    /\ \/ dmBackup' = backup /\ dmKernel' = kernel /\ NoFault
       \/ dmBackup' \in {dmBackup, backup} /\ dmKernel' \in {dmKernel, kernel} /\ MountFault
    /\ GoOn("mount")
    /\ UNCHANGED <<dmEntries, dmHeader, dmFs, dmFsEnd, dmMounted, dmHistory>>

\* mount, again without the journal after an I/O error, and grow_ext4_online, which may
\* leave the size as it is.
MountData ==
    LET d == DiskOf[dmPart]
        mounted == dmMounted' = dmPart /\ GoOn("done")
                   /\ (\/ dmFsEnd' = [dmFsEnd EXCEPT ![d] =
                             IF LastPart[d] = dmPart THEN dmKernel[d] ELSE @]
                       \/ UNCHANGED dmFsEnd)
        refused == UNCHANGED <<dmMounted, dmFsEnd>> /\ GoOn("format") IN
    /\ dmPc = "mount"
    /\ \/ Mountable(dmPart) /\ mounted /\ NoFault
       \/ Mountable(dmPart) /\ MountFault /\ (mounted \/ refused)
       \/ ~Mountable(dmPart) /\ refused /\ NoFault
    /\ UNCHANGED <<dmDisk, dmFs, dmHistory>>

\* Mutant of RecreateData: allow_format is ignored.
RecreateData_AnyPartition ==
    /\ dmPc = "format"
    /\ Lose(dmPart)
    /\ dmFs' = [dmFs EXCEPT ![dmPart] = "new"]
    /\ dmMounted' = dmPart /\ GoOn("done") /\ NoFault
    /\ UNCHANGED <<dmDisk, dmFsEnd, dmTorn, dmBoots>>

\* The last resort, for a partition with an expected name: mkfs.ext4 -F and another mount.
RecreateData ==
    LET d == DiskOf[dmPart] IN
    /\ dmPc = "format"
    /\ \/ ~Candidate(dmPart) /\ NextPart /\ NoFault
          /\ UNCHANGED <<dmFs, dmFsEnd, dmLost, dmMounted>>
       \/ /\ Candidate(dmPart)
          /\ Lose(dmPart)
          /\ dmFsEnd' = [dmFsEnd EXCEPT ![d] = IF LastPart[d] = dmPart THEN dmKernel[d] ELSE @]
          /\ \/ /\ dmFs' = [dmFs EXCEPT ![dmPart] = "new"] /\ NoFault
                /\ dmMounted' = dmPart /\ GoOn("done")
             \/ /\ dmFs' \in {[dmFs EXCEPT ![dmPart] = "new"], [dmFs EXCEPT ![dmPart] = "torn"]}
                /\ MountFault /\ NextPart /\ UNCHANGED dmMounted
       \/ Candidate(dmPart) /\ MountFault /\ NextPart   \* mkfs is missing or does not start
          /\ UNCHANGED <<dmFs, dmFsEnd, dmLost, dmMounted>>
    /\ UNCHANGED <<dmDisk, dmTorn, dmBoots>>

\* Power is switched off, at any moment, and on again; a new file system has been used by
\* then.
PowerCycle ==
    /\ dmBoots < MaxBoots /\ dmBoots' = dmBoots + 1
    /\ dmPc' = "next" /\ dmPart' = 1 /\ dmMounted' = 0 /\ dmFaulty' = {}
    /\ dmKernel' = [d \in DataDisks |-> KernelView(d)]
    /\ dmTorn' = IF dmPc = "header" THEN dmTorn \union {DiskOf[dmPart]} ELSE dmTorn
    /\ dmFs' = [p \in Parts |-> IF p = dmMounted THEN "ext4" ELSE dmFs[p]]
    /\ UNCHANGED <<dmEntries, dmHeader, dmBackup, dmFsEnd, dmLost, dmFaults>>

-----------------------------------------------------------------------------
\* Disks as they come: partitioned to their end or not, with or without a backup there.
DataMountInit ==
    /\ dmPc = "next" /\ dmPart = 1 /\ dmMounted = 0
    /\ dmEntries \in [DataDisks -> Ends] /\ dmHeader = dmEntries
    /\ dmBackup \in [DataDisks -> 0..DiskEnd]
    /\ \A d \in DataDisks : dmBackup[d] \in {0, dmEntries[d]}
    /\ dmKernel = dmEntries
    /\ dmFs \in [Parts -> {"ext4", "alien", "other"}]
    /\ dmFsEnd \in [DataDisks -> Ends] /\ \A d \in DataDisks : dmFsEnd[d] <= dmEntries[d]
    /\ dmFaulty = {} /\ dmLost = {} /\ dmTorn = {} /\ dmBoots = 1 /\ dmFaults = 0

DataMountNext ==
    \/ TryPartition \/ ReadSuperblock \/ GrowTable \/ WriteEntries \/ WriteHeader
    \/ WriteBackup \/ MountData \/ RecreateData \/ PowerCycle

DataMountSpec == DataMountInit /\ [][DataMountNext]_dmVars

\* The type of the state; no table entry ends beyond the disk (grow_gpt_partition).
DataMountTypeOK ==
    /\ dmPc \in {"next", "probe", "grow", "entries", "header", "backup", "mount", "format",
                 "done"}
    /\ dmPart \in 1..Tmpfs /\ dmMounted \in 0..Tmpfs
    /\ dmEntries \in [DataDisks -> Ends] /\ dmHeader \in [DataDisks -> Ends]
    /\ dmBackup \in [DataDisks -> 0..DiskEnd] /\ dmKernel \in [DataDisks -> 0..DiskEnd]
    /\ dmFs \in [Parts -> FileSystems] /\ dmFsEnd \in [DataDisks -> Ends]
    /\ dmFaulty \subseteq Parts /\ dmLost \subseteq Parts \X FileSystems /\ dmTorn \subseteq DataDisks
    /\ dmBoots \in 1..MaxBoots /\ dmFaults \in 0..MaxMountFaults

\* No partition loses its content in a boot in which every call on it succeeded, over any
\* sequence of boots and whatever fails elsewhere, except an ext4 file system with an
\* expected name that the kernel refuses to mount: that one is formatted, whoever it belongs
\* to (try_mount_data_partition).
NoLossWithoutFault == \A l \in dmLost : Candidate(l[1]) /\ l[2] = "alien"

\* A partition that was only found by scanning is never formatted, not even when its
\* superblock cannot be read and its mount fails: "it may be a user disk" (init_mount_data).
ScannedDisksKept == \A p \in Parts : ~Candidate(p) => dmFs[p] \in {"ext4", "alien", "other"}

\* A file system never reaches beyond its partition as the next boot will see it, whichever
\* of the writes to the table failed and whenever power is lost: grow_ext4_online works on
\* what grow_gpt_partition has told the kernel.
FileSystemFits ==
    \A d \in DataDisks : KernelView(d) # 0 => dmFsEnd[d] <= KernelView(d)

\* A partition table that was never left half written can be read at the next boot; the
\* only moment at which a power loss harms it lies between entries and header.
TableSurvives ==
    \A d \in DataDisks \ dmTorn :
        KernelView(d) # 0 \/ (dmPc = "header" /\ DiskOf[dmPart] = d)

\* When the boot goes on, with a partition or the tmpfs on /data, nothing that came before it
\* in the order and could have been mounted was passed over without a failing call: the
\* appliance does not come up without its data for want of room to grow or of a table entry.
NothingSkipped ==
    dmPc = "done" => \A p \in Parts : p < dmMounted /\ Visible(p) /\ dmFs[p] = "ext4" => p \in dmFaulty

\* The data of the user is neither lost nor left out by a boot: nothing is formatted without a
\* fault, nothing that is not ours at all, and nothing mountable is passed over
\* (init_mount_data).
DataKept == NoLossWithoutFault /\ ScannedDisksKept /\ NothingSkipped

\* Growing the data partition leaves a table that can be read and a file system within it
\* (grow_gpt_partition, grow_ext4_online).
GrowthIsSafe == FileSystemFits /\ TableSurvives
=============================================================================
