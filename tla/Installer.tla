----------------------------- MODULE Installer ------------------------------
(***************************************************************************)
(* Installation from the live medium to a disk: handle_install_to_disk,    *)
(* install_worker and the stream that reports its progress.  The worker    *)
(* writes the image, moves the partition table to the size of the disk,    *)
(* formats the data partition and fills it.                                *)
(*                                                                         *)
(* The worker refuses the disk the system runs from by comparing strings:  *)
(* the name as it stands in the request, without trailing digits, with the *)
(* device that root= or the mount of / names.  On the live medium, the     *)
(* only place where the installer is registered, neither need name a disk, *)
(* and a request may call a disk by any path.  So the outcome of the       *)
(* comparison is left open here, for every disk.                           *)
(***************************************************************************)
EXTENDS Integers, FiniteSets

CONSTANTS
    InstallRequests,  \* threads that serve /install/start, and the workers they start
    Disks,            \* the disks of the machine
    Roomy,            \* those larger than the image
    BootDisk,         \* the one the live system was started from
    ImageChunks,      \* number of pieces of the image; the first holds the partition table
    MaxInstalls,      \* bound on the requests made
    MaxDiskFaults     \* bound on input/output errors, missing images and power losses

ASSUME InstallerAssumption ==
    /\ BootDisk \in Disks /\ Roomy \subseteq Disks
    /\ ImageChunks \in Nat \ {0}
    /\ MaxInstalls \in Nat /\ MaxDiskFaults \in Nat

VARIABLES
    inWorker,    \* what each request and its worker are doing
    inRunning, inFinished, inSuccess,   \* g_install_progress
    inDisk,      \* what each disk holds
    inStream,    \* 1 while a client follows /install/progress/stream
    inReported,  \* disks on which an installation ended with success (history)
    inSpoiled,   \* disks that two workers wrote at once, that lost cached writes at fsync,
                 \* on which the table was left half written, or that the image was read
                 \* from while it was written (history)
    inStarts, inFaults

inVars == <<inWorker, inRunning, inFinished, inSuccess, inDisk, inStream, inReported,
            inSpoiled, inStarts, inFaults>>

Image == 1..ImageChunks
Resting == [pc |-> "idle", disk |-> BootDisk, at |-> 0]
ForeignDisk == [chunks |-> {}, entries |-> "none", header |-> "none", backup |-> "none",
                data |-> "none"]

SetWorker(r, pc, d, n) == inWorker' = [inWorker EXCEPT ![r] = [pc |-> pc, disk |-> d, at |-> n]]
Goto(r, pc) == SetWorker(r, pc, inWorker[r].disk, inWorker[r].at)
DiskFault == inFaults < MaxDiskFaults /\ inFaults' = inFaults + 1
PutDisk(d, content) == inDisk' = [inDisk EXCEPT ![d] = content]

OnDisk(d) == {r \in InstallRequests : /\ inWorker[r].disk = d
                                      /\ inWorker[r].pc \notin {"idle", "start", "check"}}

\* The worker gives up with an error.
GiveUp(r) == /\ inWorker' = [inWorker EXCEPT ![r] = Resting]
             /\ inFinished' = 1
             /\ UNCHANGED <<inRunning, inSuccess>>

-----------------------------------------------------------------------------
(* Requests. *)

\* handle_install_to_disk looks at `running', which nothing but a restart clears.
InstallTest(r, d) ==
    /\ inWorker[r].pc = "idle" /\ inRunning = 0 /\ inStarts < MaxInstalls
    /\ inStarts' = inStarts + 1
    /\ SetWorker(r, "start", d, 0)
    /\ UNCHANGED <<inRunning, inFinished, inSuccess, inDisk, inStream, inReported, inSpoiled,
                   inFaults>>

\* reset(), running = true and the thread.
InstallStart(r) ==
    /\ inWorker[r].pc = "start"
    /\ inRunning' = 1 /\ inFinished' = 0 /\ inSuccess' = 0
    /\ Goto(r, "check")
    /\ UNCHANGED <<inDisk, inStream, inReported, inSpoiled, inStarts, inFaults>>

StreamOpen ==
    /\ inStream = 0
    /\ inStream' = 1
    /\ UNCHANGED <<inWorker, inRunning, inFinished, inSuccess, inDisk, inReported, inSpoiled,
                   inStarts, inFaults>>

\* Every half second the stream looks whether the installation has finished.
StreamPoll ==
    /\ inStream = 1 /\ inFinished = 1
    /\ inStream' = 0
    /\ UNCHANGED <<inWorker, inRunning, inFinished, inSuccess, inDisk, inReported, inSpoiled,
                   inStarts, inFaults>>

-----------------------------------------------------------------------------
(* install_worker. *)

Clash(r, d) == OnDisk(d) \ {r} # {} \/ d = BootDisk

\* The worker begins with its disk, which is not yet installed.
Begins(r) ==
    LET d == inWorker[r].disk IN
    /\ SetWorker(r, "write", d, 1)
    /\ inReported' = inReported \ {d}
    /\ inSpoiled' = IF Clash(r, d) THEN inSpoiled \union {d} ELSE inSpoiled \ {d}
    /\ UNCHANGED <<inRunning, inFinished, inSuccess>>

\* Mutant of CheckTarget: an early return without finished = true.
CheckTarget_Forgets(r) ==
    /\ inWorker[r].pc = "check"
    /\ \/ /\ inWorker' = [inWorker EXCEPT ![r] = Resting]
          /\ UNCHANGED <<inRunning, inFinished, inSuccess, inReported, inSpoiled>>
       \/ Begins(r)
    /\ UNCHANGED <<inDisk, inStream, inStarts, inFaults>>

\* A target that is taken for the boot disk, a device that is missing or too small and an
\* image that is not found end the installation.
CheckTarget(r) ==
    /\ inWorker[r].pc = "check"
    /\ \/ GiveUp(r) /\ UNCHANGED <<inReported, inSpoiled>>
       \/ Begins(r)
    /\ UNCHANGED <<inDisk, inStream, inStarts, inFaults>>

\* A disk after piece n of the image has been written to it.
WithChunk(d, n) ==
    [inDisk[d] EXCEPT
        !.chunks = @ \union {n},
        !.entries = IF n = 1 THEN "image" ELSE @,
        !.header = IF n = 1 THEN "image" ELSE @,
        !.backup = IF n = ImageChunks /\ d \notin Roomy THEN "image" ELSE @,
        !.data = IF n = ImageChunks THEN "image" ELSE @]

\* copy_file_to_device or decompress_xz_to_device, piece by piece.
WriteChunk(r) ==
    LET w == inWorker[r] IN
    /\ w.pc = "write" /\ w.at <= ImageChunks
    /\ PutDisk(w.disk, WithChunk(w.disk, w.at))
    /\ SetWorker(r, "write", w.disk, w.at + 1)
    /\ UNCHANGED <<inRunning, inFinished, inSuccess, inStream, inReported, inSpoiled, inStarts,
                   inFaults>>

\* Mutant of WriteFails: the result of the write is ignored.
WriteFails_KeepsGoing(r) ==
    LET w == inWorker[r] IN
    /\ w.pc = "write" /\ w.at <= ImageChunks /\ DiskFault
    /\ SetWorker(r, "write", w.disk, w.at + 1)
    /\ UNCHANGED <<inRunning, inFinished, inSuccess, inDisk, inStream, inReported, inSpoiled,
                   inStarts>>

\* The source cannot be read or unpacked, or the device not written.
WriteFails(r) ==
    /\ inWorker[r].pc = "write" /\ inWorker[r].at <= ImageChunks /\ DiskFault
    /\ GiveUp(r)
    /\ UNCHANGED <<inDisk, inStream, inReported, inSpoiled, inStarts>>

\* fsync; the device reports here what it could not write, and nobody looks.
SyncImage(r) ==
    LET w == inWorker[r] IN
    /\ w.pc = "write" /\ w.at > ImageChunks
    /\ \/ UNCHANGED <<inDisk, inSpoiled, inFaults>>
       \/ /\ DiskFault
          /\ \E c \in Image : PutDisk(w.disk, [inDisk[w.disk] EXCEPT !.chunks = @ \ {c}])
          /\ inSpoiled' = inSpoiled \union {w.disk}
    /\ Goto(r, "resize")
    /\ UNCHANGED <<inRunning, inFinished, inSuccess, inStream, inReported, inStarts>>

\* resize_gpt_data_partition reads the table; when it cannot, or the disk has no room, the
\* table stays as it is.
ResizeRead(r) ==
    LET d == inWorker[r].disk IN
    /\ inWorker[r].pc = "resize"
    /\ \/ d \notin Roomy /\ Goto(r, "format") /\ UNCHANGED inFaults
       \/ d \in Roomy /\ Goto(r, "entries") /\ UNCHANGED inFaults
       \/ DiskFault /\ Goto(r, "format")
    /\ UNCHANGED <<inRunning, inFinished, inSuccess, inDisk, inStream, inReported, inSpoiled,
                   inStarts>>

\* The table is written synchronously, the entries first.  A write that fails or is cut short
\* may have changed them, and is as harmless to the worker as any failing resize.
ResizeEntries(r) ==
    LET d == inWorker[r].disk IN
    /\ inWorker[r].pc = "entries"
    /\ \/ /\ PutDisk(d, [inDisk[d] EXCEPT !.entries = "grown"])
          /\ Goto(r, "header") /\ UNCHANGED <<inSpoiled, inFaults>>
       \/ DiskFault /\ Goto(r, "format") /\ UNCHANGED <<inDisk, inSpoiled>>
       \/ /\ DiskFault /\ Goto(r, "format")
          /\ PutDisk(d, [inDisk[d] EXCEPT !.entries = "grown"])
          /\ inSpoiled' = inSpoiled \union {d}
    /\ UNCHANGED <<inRunning, inFinished, inSuccess, inStream, inReported, inStarts>>

\* Mutant of ResizeHeader: the primary header is not written again.
ResizeHeader_BackupOnly(r) ==
    /\ inWorker[r].pc = "header"
    /\ Goto(r, "backup")
    /\ UNCHANGED <<inRunning, inFinished, inSuccess, inDisk, inStream, inReported, inSpoiled,
                   inStarts, inFaults>>

\* A header that cannot be written may not match the entries.
ResizeHeader(r) ==
    LET d == inWorker[r].disk IN
    /\ inWorker[r].pc = "header"
    /\ \/ /\ PutDisk(d, [inDisk[d] EXCEPT !.header = "grown"])
          /\ Goto(r, "backup") /\ UNCHANGED <<inSpoiled, inFaults>>
       \/ /\ DiskFault /\ Goto(r, "format")
          /\ \E h \in {inDisk[d].header, "grown"} :
                PutDisk(d, [inDisk[d] EXCEPT !.header = h])
          /\ inSpoiled' = inSpoiled \union {d}
    /\ UNCHANGED <<inRunning, inFinished, inSuccess, inStream, inReported, inStarts>>

\* The backup table at the end of the disk and the protective MBR; errors are only logged.
ResizeBackup(r) ==
    LET d == inWorker[r].disk IN
    /\ inWorker[r].pc = "backup"
    /\ \/ PutDisk(d, [inDisk[d] EXCEPT !.backup = "grown"]) /\ UNCHANGED inFaults
       \/ DiskFault /\ UNCHANGED inDisk
    /\ Goto(r, "format")
    /\ UNCHANGED <<inRunning, inFinished, inSuccess, inStream, inReported, inSpoiled, inStarts>>

\* mkfs.ext4 may be missing (the file system of the image is used) or fail half-way.
FormatData(r) ==
    LET d == inWorker[r].disk IN
    /\ inWorker[r].pc = "format"
    /\ \/ PutDisk(d, [inDisk[d] EXCEPT !.data = "fresh"]) /\ UNCHANGED inFaults
       \/ DiskFault /\ PutDisk(d, [inDisk[d] EXCEPT !.data = "torn"])
       \/ UNCHANGED <<inDisk, inFaults>>
    /\ Goto(r, "fill")
    /\ UNCHANGED <<inRunning, inFinished, inSuccess, inStream, inReported, inSpoiled, inStarts>>

\* The directories and the default configuration, where the partition can be mounted.
FillData(r) ==
    LET d == inWorker[r].disk IN
    /\ inWorker[r].pc = "fill"
    /\ inDisk' = IF inDisk[d].data \in {"image", "fresh"}
                 THEN [inDisk EXCEPT ![d].data = "filled"] ELSE inDisk
    /\ inWorker' = [inWorker EXCEPT ![r] = Resting]
    /\ inSuccess' = 1 /\ inFinished' = 1
    /\ inReported' = inReported \union {d}
    /\ UNCHANGED <<inRunning, inStream, inSpoiled, inStarts, inFaults>>

\* Power is lost and the live system starts again; only the disks remember.
PowerLoss ==
    /\ DiskFault
    /\ inWorker' = [r \in InstallRequests |-> Resting]
    /\ inRunning' = 0 /\ inFinished' = 0 /\ inSuccess' = 0 /\ inStream' = 0
    /\ inSpoiled' = inSpoiled \union
          {d \in Disks : \E r \in OnDisk(d) : inWorker[r].pc \in {"write", "header"}}
    /\ UNCHANGED <<inDisk, inReported, inStarts>>

-----------------------------------------------------------------------------
InstallInit ==
    /\ inWorker = [r \in InstallRequests |-> Resting]
    /\ inRunning = 0 /\ inFinished = 0 /\ inSuccess = 0 /\ inStream = 0
    /\ inDisk = [d \in Disks |-> ForeignDisk]
    /\ inReported = {} /\ inSpoiled = {} /\ inStarts = 0 /\ inFaults = 0

WorkerStep(r) ==
    \/ InstallStart(r) \/ CheckTarget(r) \/ WriteChunk(r) \/ WriteFails(r) \/ SyncImage(r)
    \/ ResizeRead(r) \/ ResizeEntries(r) \/ ResizeHeader(r) \/ ResizeBackup(r)
    \/ FormatData(r) \/ FillData(r)

InstallNext ==
    \/ \E r \in InstallRequests : WorkerStep(r) \/ \E d \in Disks : InstallTest(r, d)
    \/ StreamOpen \/ StreamPoll \/ PowerLoss

InstallSpec == InstallInit /\ [][InstallNext]_inVars

-----------------------------------------------------------------------------
\* The type of the state; no piece is written past the end of the image (copy_file_to_device).
InstallTypeOK ==
    /\ inWorker \in [InstallRequests ->
          [pc: {"idle", "start", "check", "write", "resize", "entries", "header", "backup",
                "format", "fill"},
           disk: Disks, at: 0..(ImageChunks + 1)]]
    /\ inRunning \in {0, 1} /\ inFinished \in {0, 1} /\ inSuccess \in {0, 1}
    /\ inStream \in {0, 1}
    /\ inDisk \in [Disks -> [chunks: SUBSET Image, entries: {"none", "image", "grown"},
                             header: {"none", "image", "grown"},
                             backup: {"none", "image", "grown"},
                             data: {"none", "image", "fresh", "torn", "filled"}]]
    /\ inReported \subseteq Disks /\ inSpoiled \subseteq Disks
    /\ inStarts \in 0..MaxInstalls /\ inFaults \in 0..MaxDiskFaults

\* The firmware reads the primary table, or else the one at the end of the disk.
TableReadable(d) ==
    \/ inDisk[d].header # "none" /\ inDisk[d].header = inDisk[d].entries
    \/ inDisk[d].backup # "none"

\* Where success was reported the disk holds the whole image and a partition table that can
\* be read, whatever writes failed on the way and however often the installation was begun
\* anew; except on a disk that two workers wrote at once (the test of `running' and its
\* setting are two steps), that lost cached writes at the unchecked fsync, where writing the
\* entries or the header failed and may have left them at odds, or that held the image it was
\* written from (install_worker, resize_gpt_data_partition).
InstalledDiskBoots ==
    \A d \in inReported \ inSpoiled : inDisk[d].chunks = Image /\ TableReadable(d)

\* A power loss or an error during the resize costs the partition table only between the
\* write of the entries and that of the header: at every other moment after the image is
\* there one copy can be read.
ResizeKeepsTable ==
    \A d \in Disks \ inSpoiled :
        (\E r \in OnDisk(d) : inWorker[r].pc \in {"resize", "entries", "backup", "format", "fill"})
            => TableReadable(d)

\* Once nobody works on an installation that was begun, `finished' is set, on every error path
\* of install_worker and with several requests at once: the stream of progress, which waits for
\* it and for nothing else, ends.  (`running' stays true until the next boot, whatever happens.)
EndIsReported ==
    inRunning = 1 /\ (\A r \in InstallRequests : inWorker[r].pc \in {"idle", "start"})
        => inFinished = 1

\* What an installation does to the disks of the machine: the target's table can be read from
\* phase to phase, and what is reported boots (install_worker).
DisksKept == ResizeKeepsTable /\ InstalledDiskBoots
=============================================================================
