--------------------------- MODULE ServicesProofs ---------------------------
(***************************************************************************)
(* Proofs about the services beside the core: the installation to a disk   *)
(* (Installer), for any disks, any size of image and any number of         *)
(* requests, faults and power losses; the mount of /data (DataMount), for  *)
(* any disks, partitions and boots; the WiFi manager (WiFi), for any       *)
(* callers, names and networks; and all services side by side              *)
(* (MCServices), with what RequestProofs and DownloadProofs show.          *)
(***************************************************************************)
EXTENDS MCServices, RequestProofs, DownloadProofs, TLAPS

-----------------------------------------------------------------------------
(* Installer: types, and the end of an installation *)

WorkerStates ==
    [pc: {"idle", "start", "check", "write", "resize", "entries", "header", "backup", "format",
          "fill"},
     disk: Disks, at: 0..(ImageChunks + 1)]
Contents ==
    [chunks: SUBSET Image, entries: {"none", "image", "grown"}, header: {"none", "image", "grown"},
     backup: {"none", "image", "grown"}, data: {"none", "image", "fresh", "torn", "filled"}]

USE InstallerAssumption DEF Resting, Image

\* The first piece to be written is piece 1.
Started == \A r \in InstallRequests : inWorker[r].pc = "write" => inWorker[r].at >= 1

LEMMA InstallTypeInit == InstallInit => InstallTypeOK /\ Started
  BY DEF InstallInit, InstallTypeOK, ForeignDisk, Started

\* The worker r moves on, or rests.
LEMMA WorkerType ==
  ASSUME InstallTypeOK, NEW r \in InstallRequests
  PROVE  /\ inWorker[r] \in WorkerStates /\ Resting \in WorkerStates
         /\ inWorker \in [InstallRequests -> WorkerStates]
         /\ \A w \in WorkerStates :
               inWorker' = [inWorker EXCEPT ![r] = w] => inWorker' \in [InstallRequests -> WorkerStates]
         /\ \A pc \in {"idle", "start", "check", "write", "resize", "entries", "header", "backup",
                        "format", "fill"} :
               Goto(r, pc) => inWorker' \in [InstallRequests -> WorkerStates]
<1>1. inWorker \in [InstallRequests -> WorkerStates] /\ Resting \in WorkerStates
  BY DEF InstallTypeOK, WorkerStates
<1>2. ASSUME NEW w \in WorkerStates, inWorker' = [inWorker EXCEPT ![r] = w]
      PROVE  inWorker' \in [InstallRequests -> WorkerStates]
  BY <1>1, <1>2
<1>3. ASSUME NEW pc \in {"idle", "start", "check", "write", "resize", "entries", "header",
                         "backup", "format", "fill"}
      PROVE  [pc |-> pc, disk |-> inWorker[r].disk, at |-> inWorker[r].at] \in WorkerStates
  BY <1>1 DEF WorkerStates
<1> QED
  BY <1>1, <1>2, <1>3 DEF Goto, SetWorker

\* A disk is written.
LEMMA ContentType ==
  ASSUME InstallTypeOK, NEW d \in Disks
  PROVE  /\ inDisk[d] \in Contents /\ inDisk \in [Disks -> Contents]
         /\ \A c \in Contents : PutDisk(d, c) => inDisk' \in [Disks -> Contents]
  BY DEF InstallTypeOK, Contents, PutDisk

\* A piece of the image is added.
LEMMA WithChunkType ==
  ASSUME NEW c \in Contents, NEW n \in Image, NEW d
  PROVE  [c EXCEPT !.chunks = @ \union {n},
                   !.entries = IF n = 1 THEN "image" ELSE @,
                   !.header = IF n = 1 THEN "image" ELSE @,
                   !.backup = IF n = ImageChunks /\ d \notin Roomy THEN "image" ELSE @,
                   !.data = IF n = ImageChunks THEN "image" ELSE @] \in Contents
<1> HIDE DEF Image
<1> QED
  BY DEF Contents

\* The parts of the type that a step of a worker changes.
LEMMA InstallTypeParts ==
  ASSUME InstallTypeOK, inWorker' \in [InstallRequests -> WorkerStates],
         inDisk' \in [Disks -> Contents], inRunning' \in {0, 1}, inFinished' \in {0, 1},
         inSuccess' \in {0, 1}, UNCHANGED <<inStream, inStarts>>,
         inReported' \subseteq Disks, inSpoiled' \subseteq Disks,
         UNCHANGED inFaults \/ DiskFault
  PROVE  InstallTypeOK'
  BY DEF InstallTypeOK, WorkerStates, Contents, DiskFault

LEMMA StartedNext == InstallTypeOK /\ Started /\ [InstallNext]_inVars => Started'
<1> SUFFICES ASSUME InstallTypeOK, Started, [InstallNext]_inVars PROVE Started'
  OBVIOUS
<1>a. /\ DOMAIN inWorker = InstallRequests
      /\ \A r \in InstallRequests : inWorker[r].at \in Nat
  BY DEF InstallTypeOK
<1>1. ASSUME NEW r \in InstallRequests, NEW pc, NEW d, NEW n, SetWorker(r, pc, d, n),
             pc = "write" => n >= 1
      PROVE  Started'
  BY <1>1, <1>a DEF SetWorker, Started
<1>2. ASSUME NEW r \in InstallRequests, inWorker' = [inWorker EXCEPT ![r] = Resting] PROVE Started'
  BY <1>2, <1>a DEF Started
<1>3. ASSUME NEW r \in InstallRequests, NEW d \in Disks, InstallTest(r, d) PROVE Started'
  BY <1>1, <1>3 DEF InstallTest
<1>4. ASSUME NEW r \in InstallRequests, WorkerStep(r) PROVE Started'
  <2>1. CASE inWorker' = [inWorker EXCEPT ![r] = Resting]
    BY <2>1, <1>2
  <2>2. CASE CheckTarget(r) \/ WriteFails(r) \/ FillData(r)
    BY <2>2, <2>1, <1>1 DEF CheckTarget, Begins, WriteFails, FillData, GiveUp
  <2>3. CASE WriteChunk(r)
    BY <2>3, <1>1, <1>a DEF WriteChunk, Started
  <2>4. CASE InstallStart(r) \/ SyncImage(r) \/ ResizeRead(r) \/ ResizeEntries(r) \/ ResizeHeader(r)
               \/ ResizeBackup(r) \/ FormatData(r)
    <3>1. \E pc \in {"check", "resize", "entries", "header", "backup", "format", "fill"} :
             \E d, n : SetWorker(r, pc, d, n)
      BY <2>4 DEF InstallStart, SyncImage, ResizeRead, ResizeEntries, ResizeHeader, ResizeBackup,
                  FormatData, Goto
    <3> QED
      BY <3>1, <1>1
  <2> QED
    BY <1>4, <2>2, <2>3, <2>4 DEF WorkerStep
<1>5. CASE StreamOpen \/ StreamPoll \/ UNCHANGED inVars
  BY <1>5 DEF StreamOpen, StreamPoll, inVars, Started
<1>6. CASE PowerLoss
  BY <1>6 DEF PowerLoss, Started
<1> QED
  BY <1>3, <1>4, <1>5, <1>6 DEF InstallNext

LEMMA WorkerStepType ==
  ASSUME InstallTypeOK, Started, NEW r \in InstallRequests, WorkerStep(r)
  PROVE  InstallTypeOK'
<1> DEFINE d == inWorker[r].disk
<1>a. /\ d \in Disks /\ inWorker[r].at \in 0..(ImageChunks + 1)
      /\ inRunning \in {0, 1} /\ inFinished \in {0, 1} /\ inSuccess \in {0, 1}
      /\ inReported \subseteq Disks /\ inSpoiled \subseteq Disks
  BY DEF InstallTypeOK
<1>b. inDisk \in [Disks -> Contents] /\ inDisk[d] \in Contents
  BY <1>a, ContentType
<1>c. Goto(r, "check") \/ Goto(r, "resize") \/ Goto(r, "entries") \/ Goto(r, "header")
        \/ Goto(r, "backup") \/ Goto(r, "format") \/ Goto(r, "fill")
        \/ inWorker' = [inWorker EXCEPT ![r] = Resting]
      => inWorker' \in [InstallRequests -> WorkerStates]
  BY WorkerType
<1>1. CASE InstallStart(r)
  BY <1>1, <1>a, <1>b, <1>c, InstallTypeParts DEF InstallStart
<1>2. CASE CheckTarget(r)
  <2>1. [pc |-> "write", disk |-> d, at |-> 1] \in WorkerStates
    BY <1>a DEF WorkerStates
  <2>2. inWorker' \in [InstallRequests -> WorkerStates]
    BY <1>2, <1>c, <2>1, WorkerType DEF CheckTarget, Begins, SetWorker, GiveUp
  <2> QED
    <3>1. inReported' \subseteq Disks /\ inSpoiled' \subseteq Disks
      BY <1>2, <1>a DEF CheckTarget, Begins, GiveUp
    <3>2. /\ UNCHANGED <<inDisk, inStream, inStarts>> /\ (UNCHANGED inFaults \/ DiskFault)
          /\ inRunning' \in {0, 1} /\ inFinished' \in {0, 1} /\ inSuccess' \in {0, 1}
      BY <1>2, <1>a DEF CheckTarget, Begins, GiveUp
    <3> QED
      BY <3>1, <3>2, <2>2, <1>b, InstallTypeParts
<1>3. CASE WriteChunk(r)
  <2>1. [pc |-> "write", disk |-> d, at |-> inWorker[r].at + 1] \in WorkerStates
    BY <1>3, <1>a DEF WorkerStates, WriteChunk
  <2>2. inWorker' \in [InstallRequests -> WorkerStates]
    BY <1>3, <2>1, WorkerType DEF WriteChunk, SetWorker
  <2>3. inWorker[r].at \in Image
    BY <1>3, <1>a DEF WriteChunk, Started
  <2>4. WithChunk(d, inWorker[r].at) \in Contents
    <3> HIDE DEF d, Image
    <3>1. \A c \in Contents, n \in Image : \A e :
             [c EXCEPT !.chunks = @ \union {n},
                       !.entries = IF n = 1 THEN "image" ELSE @,
                       !.header = IF n = 1 THEN "image" ELSE @,
                       !.backup = IF n = ImageChunks /\ e \notin Roomy THEN "image" ELSE @,
                       !.data = IF n = ImageChunks THEN "image" ELSE @] \in Contents
      BY WithChunkType
    <3> QED
      BY <1>b, <2>3, <3>1, ZenonT(40) DEF WithChunk
  <2> QED
    BY <1>3, <1>a, <2>2, <2>4, ContentType, InstallTypeParts DEF WriteChunk
<1>4. CASE WriteFails(r)
  BY <1>4, <1>a, <1>b, <1>c, InstallTypeParts DEF WriteFails, GiveUp
<1>5. CASE SyncImage(r)
  <2>1. \A c \in Image : [inDisk[d] EXCEPT !.chunks = @ \ {c}] \in Contents
    BY <1>b DEF Contents
  <2>2. inDisk' \in [Disks -> Contents]
    BY <1>5, <1>a, <1>b, <2>1, ContentType DEF SyncImage
  <2> QED
    BY <1>5, <1>a, <1>c, <2>2, InstallTypeParts DEF SyncImage
<1>6. CASE ResizeRead(r)
  BY <1>6, <1>a, <1>b, <1>c, InstallTypeParts DEF ResizeRead
<1>7. CASE ResizeEntries(r)
  <2>1. [inDisk[d] EXCEPT !.entries = "grown"] \in Contents
    BY <1>b DEF Contents
  <2>2. inDisk' \in [Disks -> Contents]
    BY <1>7, <1>a, <1>b, <2>1, ContentType DEF ResizeEntries
  <2> QED
    BY <1>7, <1>a, <1>c, <2>2, InstallTypeParts DEF ResizeEntries
<1>8. CASE ResizeHeader(r)
  <2>1. \A x \in {inDisk[d].header, "grown"} : [inDisk[d] EXCEPT !.header = x] \in Contents
    BY <1>b DEF Contents
  <2>2. inDisk' \in [Disks -> Contents]
    BY <1>8, <1>a, <1>b, <2>1, ContentType DEF ResizeHeader
  <2> QED
    BY <1>8, <1>a, <1>c, <2>2, InstallTypeParts DEF ResizeHeader
<1>9. CASE ResizeBackup(r)
  <2>1. [inDisk[d] EXCEPT !.backup = "grown"] \in Contents
    BY <1>b DEF Contents
  <2>2. inDisk' \in [Disks -> Contents]
    BY <1>9, <1>a, <1>b, <2>1, ContentType DEF ResizeBackup
  <2> QED
    BY <1>9, <1>a, <1>c, <2>2, InstallTypeParts DEF ResizeBackup
<1>10. CASE FormatData(r)
  <2>1. \A x \in {"fresh", "torn"} : [inDisk[d] EXCEPT !.data = x] \in Contents
    BY <1>b DEF Contents
  <2>2. inDisk' \in [Disks -> Contents]
    BY <1>10, <1>a, <1>b, <2>1, ContentType DEF FormatData
  <2> QED
    BY <1>10, <1>a, <1>c, <2>2, InstallTypeParts DEF FormatData
<1>11. CASE FillData(r)
  <2>1. inDisk' \in [Disks -> Contents]
    BY <1>11, <1>a, <1>b DEF FillData, Contents
  <2> QED
    BY <1>11, <1>a, <1>c, <2>1, InstallTypeParts DEF FillData
<1> QED
  BY <1>1, <1>2, <1>3, <1>4, <1>5, <1>6, <1>7, <1>8, <1>9, <1>10, <1>11 DEF WorkerStep

LEMMA InstallTypeNext == InstallTypeOK /\ Started /\ [InstallNext]_inVars => InstallTypeOK'
<1> SUFFICES ASSUME InstallTypeOK, Started, [InstallNext]_inVars PROVE InstallTypeOK'
  OBVIOUS
<1>1. ASSUME NEW r \in InstallRequests, NEW d \in Disks, InstallTest(r, d) PROVE InstallTypeOK'
  BY <1>1 DEF InstallTest, InstallTypeOK, SetWorker
<1>2. ASSUME NEW r \in InstallRequests, WorkerStep(r) PROVE InstallTypeOK'
  BY <1>2, WorkerStepType
<1>3. CASE StreamOpen \/ StreamPoll
  BY <1>3 DEF StreamOpen, StreamPoll, InstallTypeOK
<1>4. CASE PowerLoss
  BY <1>4 DEF PowerLoss, InstallTypeOK, DiskFault
<1>5. CASE UNCHANGED inVars
  BY <1>5 DEF inVars, InstallTypeOK
<1> QED
  BY <1>1, <1>2, <1>3, <1>4, <1>5 DEF InstallNext

\* Every reachable state has its type (child_main.cpp, install_worker).
THEOREM InstallTypeCorrect == InstallSpec => []InstallTypeOK
  BY InstallTypeInit, InstallTypeNext, StartedNext, PTL DEF InstallSpec

\* The last worker that stops has set `finished'.
LEMMA EndNext == InstallTypeOK /\ EndIsReported /\ [InstallNext]_inVars => EndIsReported'
<1> SUFFICES ASSUME InstallTypeOK, EndIsReported, [InstallNext]_inVars PROVE EndIsReported'
  OBVIOUS
<1>a. DOMAIN inWorker = InstallRequests
  BY DEF InstallTypeOK
<1>1. ASSUME NEW r \in InstallRequests, NEW d \in Disks, InstallTest(r, d) PROVE EndIsReported'
  BY <1>1 DEF InstallTest, EndIsReported
<1>2. ASSUME NEW r \in InstallRequests, NEW pc, NEW d, NEW n, pc \notin {"idle", "start"},
             SetWorker(r, pc, d, n)
      PROVE  EndIsReported'
  <2>1. inWorker'[r].pc = pc
    BY <1>2, <1>a DEF SetWorker
  <2> QED
    BY <1>2, <2>1 DEF EndIsReported
<1>3. ASSUME NEW r \in InstallRequests, WorkerStep(r) PROVE EndIsReported'
  <2>1. \/ inFinished' = 1
        \/ \E pc \in {"check", "write", "resize", "entries", "header", "backup", "format", "fill"} :
              \E d, n : SetWorker(r, pc, d, n)
    BY <1>3 DEF WorkerStep, InstallStart, CheckTarget, Begins, WriteChunk, WriteFails, SyncImage, ResizeRead,
                ResizeEntries, ResizeHeader, ResizeBackup, FormatData, FillData, Goto, GiveUp
  <2> QED
    BY <2>1, <1>2 DEF EndIsReported
<1>4. CASE StreamOpen \/ StreamPoll
  BY <1>4 DEF StreamOpen, StreamPoll, EndIsReported
<1>5. CASE PowerLoss
  BY <1>5 DEF PowerLoss, EndIsReported
<1>6. CASE UNCHANGED inVars
  BY <1>6 DEF inVars, EndIsReported
<1> QED
  BY <1>1, <1>3, <1>4, <1>5, <1>6 DEF InstallNext

\* Once nobody works on an installation that was begun, `finished' is set, which the stream of
\* its progress waits for (install_worker, the progress stream).
THEOREM EndsAreReported == InstallSpec => []EndIsReported
<1>1. InstallInit => EndIsReported
  BY DEF InstallInit, EndIsReported
<1> QED
  BY <1>1, InstallTypeInit, InstallTypeNext, StartedNext, EndNext, PTL DEF InstallSpec

-----------------------------------------------------------------------------
(* Installer: what it does to the disks *)

Later == {"resize", "entries", "header", "backup", "format", "fill"}
Working == Later \union {"write"}

\* What a disk c holds while the worker in state w is the only one to write it.
Phase(w, c) ==
    /\ w.pc = "write" => /\ \A n \in Image : n < w.at => n \in c.chunks
                         /\ w.at > 1 => c.header = "image" /\ c.entries = "image"
    /\ w.pc \in Later => c.chunks = Image
    /\ w.pc = "header" => c.entries = "grown"
    /\ w.pc \in Later \ {"header"} => c.header # "none" /\ c.header = c.entries

\* What a disk holds that is reported as installed.
Bootable(c) == c.chunks = Image /\ c.header # "none" /\ c.header = c.entries

\* A disk that is not spoiled has one worker, in step with what the disk holds, and none any
\* more once success is reported.
DiskInv == \A d \in Disks : d \notin inSpoiled =>
    /\ \A r, s \in OnDisk(d) : r = s
    /\ \A r \in OnDisk(d) : Phase(inWorker[r], inDisk[d])
    /\ d \in inReported => OnDisk(d) = {} /\ Bootable(inDisk[d])

\* Worker r moves to state w, the others stay where they are.
LEMMA WorkersAfter ==
  ASSUME InstallTypeOK, NEW r \in InstallRequests, NEW w, inWorker' = [inWorker EXCEPT ![r] = w]
  PROVE  inWorker'[r] = w /\ \A s \in InstallRequests : s # r => inWorker'[s] = inWorker[s]
  BY DEF InstallTypeOK

\* A worker on a disk goes on to its next phase.
LEMMA WorkerMoves ==
  ASSUME InstallTypeOK, DiskInv, NEW r \in InstallRequests, NEW w, NEW c,
         inWorker[r].pc \in Working, w.pc \in Working, w.disk = inWorker[r].disk,
         inWorker' = [inWorker EXCEPT ![r] = w], PutDisk(inWorker[r].disk, c),
         inSpoiled \subseteq inSpoiled', UNCHANGED inReported,
         inWorker[r].disk \notin inSpoiled' /\ Phase(inWorker[r], inDisk[inWorker[r].disk])
            => Phase(w, c)
  PROVE  DiskInv'
<1> DEFINE d == inWorker[r].disk
<1>1. d \in Disks /\ DOMAIN inDisk = Disks
  BY DEF InstallTypeOK
<1>2. inDisk'[d] = c /\ \A e \in Disks : e # d => inDisk'[e] = inDisk[e]
  BY <1>1 DEF PutDisk
<1>3. r \in OnDisk(d) /\ \A e \in Disks : r \in OnDisk(e) => e = d
  BY DEF OnDisk, Working, Later
<1>4. inWorker'[r] = w /\ \A s \in InstallRequests : s # r => inWorker'[s] = inWorker[s]
  BY WorkersAfter
<1>5. /\ \A e \in Disks : OnDisk(e)' = OnDisk(e)
      /\ \A e \in Disks : \A s \in OnDisk(e) : s # r => inWorker'[s] = inWorker[s]
  BY <1>4 DEF OnDisk, Working, Later
<1> QED
  <2> SUFFICES ASSUME NEW e \in Disks, e \notin inSpoiled'
               PROVE  /\ \A p, s \in OnDisk(e)' : p = s
                      /\ \A p \in OnDisk(e)' : Phase(inWorker'[p], inDisk'[e])
                      /\ e \in inReported => OnDisk(e)' = {} /\ Bootable(inDisk'[e])
    BY DEF DiskInv, Phase, Bootable
  <2>1. /\ \A p, s \in OnDisk(e) : p = s
        /\ \A p \in OnDisk(e) : Phase(inWorker[p], inDisk[e])
        /\ e \in inReported => OnDisk(e) = {} /\ Bootable(inDisk[e])
    BY DEF DiskInv
  <2>2. CASE e = d
    BY <2>1, <2>2, <1>1, <1>2, <1>3, <1>4, <1>5
  <2>3. CASE e # d
    BY <2>1, <2>3, <1>2, <1>3, <1>4, <1>5
  <2> QED
    BY <2>2, <2>3

\* A step that touches no disk and puts no new worker on one.
LEMMA DisksRest ==
  ASSUME DiskInv, UNCHANGED <<inDisk, inReported>>, inSpoiled \subseteq inSpoiled',
         \A d \in Disks : OnDisk(d)' \subseteq OnDisk(d),
         \A d \in Disks : \A r \in OnDisk(d)' : inWorker'[r] = inWorker[r]
  PROVE  DiskInv'
<1> SUFFICES ASSUME NEW e \in Disks, e \notin inSpoiled'
             PROVE  /\ \A p, s \in OnDisk(e)' : p = s
                    /\ \A p \in OnDisk(e)' : Phase(inWorker'[p], inDisk[e])
                    /\ e \in inReported => OnDisk(e)' = {} /\ Bootable(inDisk[e])
  BY DEF DiskInv, Phase, Bootable
<1>1. /\ \A p, s \in OnDisk(e) : p = s
      /\ \A p \in OnDisk(e) : Phase(inWorker[p], inDisk[e])
      /\ e \in inReported => OnDisk(e) = {} /\ Bootable(inDisk[e])
  BY DEF DiskInv
<1> QED
  BY <1>1

\* A worker gives up before or while it writes.
LEMMA WorkerStops ==
  ASSUME InstallTypeOK, DiskInv, NEW r \in InstallRequests, NEW w,
         inWorker' = [inWorker EXCEPT ![r] = w], w.pc \in {"idle", "start", "check"},
         UNCHANGED <<inDisk, inReported, inSpoiled>>
  PROVE  DiskInv'
<1>1. inWorker'[r] = w /\ \A s \in InstallRequests : s # r => inWorker'[s] = inWorker[s]
  BY WorkersAfter
<1>2. \A d \in Disks : /\ OnDisk(d)' \subseteq OnDisk(d)
                       /\ \A s \in OnDisk(d)' : inWorker'[s] = inWorker[s]
  BY <1>1 DEF OnDisk
<1> QED
  BY <1>2, DisksRest

LEMMA WorkerStepDisks ==
  ASSUME InstallTypeOK, Started, DiskInv, NEW r \in InstallRequests, WorkerStep(r)
  PROVE  DiskInv'
<1> DEFINE d == inWorker[r].disk
           c == inDisk[d]
           n == inWorker[r].at
           At(pc) == [pc |-> pc, disk |-> d, at |-> n]
<1>a. d \in Disks /\ inDisk \in [Disks -> Contents] /\ c \in Contents /\ n \in 0..(ImageChunks + 1)
  BY ContentType DEF InstallTypeOK
<1>b. PutDisk(d, c) <=> UNCHANGED inDisk
  BY <1>a DEF PutDisk
<1>c. ASSUME NEW pc \in Working, NEW pd \in Working, NEW e, inWorker[r].pc = pc, Goto(r, pd),
             PutDisk(d, e), inSpoiled \subseteq inSpoiled', UNCHANGED inReported,
             d \notin inSpoiled' /\ Phase(inWorker[r], c) => Phase(At(pd), e)
      PROVE  DiskInv'
  <2>1. At(pd).pc \in Working /\ At(pd).disk = d /\ inWorker' = [inWorker EXCEPT ![r] = At(pd)]
    BY <1>c DEF Goto, SetWorker
  <2> QED
    BY <1>c, <2>1, WorkerMoves
<1>1. CASE InstallStart(r)
  <2>1. inWorker' = [inWorker EXCEPT ![r] = At("check")] /\ At("check").pc = "check"
    BY <1>1 DEF InstallStart, Goto, SetWorker
  <2> QED
    BY <1>1, <2>1, WorkerStops DEF InstallStart
<1>2. CASE CheckTarget(r)
  <2>1. CASE GiveUp(r) /\ UNCHANGED <<inReported, inSpoiled>>
    BY <1>2, <2>1, WorkerStops DEF CheckTarget, GiveUp
  <2>2. CASE Begins(r)
    <3> DEFINE w == [pc |-> "write", disk |-> d, at |-> 1]
    <3>1. inWorker' = [inWorker EXCEPT ![r] = w] /\ UNCHANGED inDisk
      BY <1>2, <2>2 DEF Begins, SetWorker, CheckTarget
    <3>2. /\ inWorker'[r] = w /\ \A s \in InstallRequests : s # r => inWorker'[s] = inWorker[s]
          /\ \A e \in Disks : e # d => OnDisk(e)' = OnDisk(e)
          /\ OnDisk(d)' = OnDisk(d) \union {r}
          /\ \A e \in Disks : OnDisk(e)' \subseteq InstallRequests
          /\ r \notin OnDisk(d)
      BY <1>2, <1>a, <3>1 DEF OnDisk, CheckTarget, InstallTypeOK
    <3>3. /\ inReported' = inReported \ {d}
          /\ inSpoiled' = IF Clash(r, d) THEN inSpoiled \union {d} ELSE inSpoiled \ {d}
      BY <2>2 DEF Begins
    <3> QED
      <4> SUFFICES ASSUME NEW e \in Disks, e \notin inSpoiled'
                   PROVE  /\ \A p, s \in OnDisk(e)' : p = s
                          /\ \A p \in OnDisk(e)' : Phase(inWorker'[p], inDisk'[e])
                          /\ e \in inReported' => OnDisk(e)' = {} /\ Bootable(inDisk'[e])
        BY DEF DiskInv, Phase, Bootable
      <4>1. CASE e = d
        <5>1. OnDisk(d) = {}
          BY <3>2, <3>3, <4>1 DEF Clash
        <5>2. Phase(w, inDisk[e])
          BY DEF Phase, Later
        <5> QED
          BY <3>1, <3>2, <3>3, <4>1, <5>1, <5>2
      <4>2. CASE e # d
        <5>1. e \notin inSpoiled
          BY <3>3, <4>2
        <5>2. /\ \A p, s \in OnDisk(e) : p = s
              /\ \A p \in OnDisk(e) : Phase(inWorker[p], inDisk[e])
              /\ e \in inReported => OnDisk(e) = {} /\ Bootable(inDisk[e])
          BY <5>1 DEF DiskInv
        <5>3. r \notin OnDisk(e)
          BY <4>2 DEF OnDisk
        <5> QED
          BY <3>1, <3>2, <3>3, <4>2, <5>2, <5>3
      <4> QED
        BY <4>1, <4>2
  <2> QED
    BY <1>2, <2>1, <2>2 DEF CheckTarget
<1>3. CASE WriteChunk(r)
  <2> DEFINE w == [pc |-> "write", disk |-> d, at |-> n + 1]
             e == WithChunk(d, n)
  <2>1. /\ inWorker' = [inWorker EXCEPT ![r] = w] /\ PutDisk(d, e) /\ inWorker[r].pc = "write"
        /\ UNCHANGED <<inSpoiled, inReported>> /\ n <= ImageChunks
    BY <1>3 DEF WriteChunk, SetWorker
  <2>2. n >= 1 /\ n \in Nat
    BY <2>1, <1>a DEF Started
  <2>3. e.chunks = c.chunks \union {n}
    BY <1>a DEF WithChunk, Contents
  <2>4. /\ n = 1 => e.header = "image" /\ e.entries = "image"
        /\ n # 1 => e.header = c.header /\ e.entries = c.entries
    BY <1>a DEF WithChunk, Contents
  <2>5. ASSUME Phase(inWorker[r], c) PROVE Phase(w, e)
    <3>1. \A m \in Image : m < n + 1 => m \in c.chunks \union {n}
      BY <2>1, <2>2, <2>5 DEF Phase
    <3>2. e.header = "image" /\ e.entries = "image"
      BY <2>1, <2>2, <2>4, <2>5 DEF Phase
    <3> HIDE DEF e
    <3> QED
      BY <2>3, <3>1, <3>2 DEF Phase, Later
  <2>6. w.pc \in Working /\ w.disk = d /\ inWorker[r].pc \in Working
    BY <2>1 DEF Working
  <2> HIDE DEF w, e
  <2> QED
    BY <2>1, <2>5, <2>6, WorkerMoves
<1>4. CASE WriteFails(r)
  BY <1>4, WorkerStops DEF WriteFails, GiveUp
<1>5. CASE SyncImage(r)
  <2>1. inWorker[r].pc = "write" /\ n > ImageChunks /\ Goto(r, "resize") /\ UNCHANGED inReported
    BY <1>5 DEF SyncImage
  <2>2. CASE UNCHANGED <<inDisk, inSpoiled>>
    <3>1. ASSUME Phase(inWorker[r], c) PROVE Phase(At("resize"), c)
      <4>1. c.chunks = Image
        <5>1. c.chunks \subseteq Image
          BY <1>a DEF Contents
        <5>2. \A m \in Image : m < n
          BY <2>1, <1>a
        <5> QED
          BY <2>1, <3>1, <5>1, <5>2 DEF Phase
      <4>2. c.header = "image" /\ c.entries = "image"
        BY <2>1, <3>1, <1>a DEF Phase
      <4> QED
        BY <4>1, <4>2 DEF Phase, Later
    <3> QED
      BY <2>1, <2>2, <3>1, <1>b, <1>c DEF Working, Later
  <2>3. CASE inSpoiled' = inSpoiled \union {d} /\ \E e : PutDisk(d, e)
    BY <2>1, <2>3, <1>c DEF Working, Later
  <2> QED
    BY <1>5, <2>2, <2>3 DEF SyncImage
<1>6. CASE ResizeRead(r)
  <2>1. /\ inWorker[r].pc = "resize" /\ UNCHANGED <<inDisk, inReported, inSpoiled>>
        /\ Goto(r, "format") \/ Goto(r, "entries")
    BY <1>6 DEF ResizeRead
  <2>2. \A pd \in {"format", "entries"} : Phase(inWorker[r], c) => Phase(At(pd), c)
    BY <2>1 DEF Phase, Later
  <2> QED
    BY <2>1, <2>2, <1>b, <1>c DEF Working, Later
<1>7. CASE ResizeEntries(r)
  <2>1. /\ inWorker[r].pc = "entries" /\ UNCHANGED inReported
        /\ \/ /\ PutDisk(d, [c EXCEPT !.entries = "grown"]) /\ Goto(r, "header")
              /\ UNCHANGED inSpoiled
           \/ UNCHANGED <<inDisk, inSpoiled>> /\ Goto(r, "format")
           \/ /\ Goto(r, "format") /\ inSpoiled' = inSpoiled \union {d}
              /\ PutDisk(d, [c EXCEPT !.entries = "grown"])
    BY <1>7 DEF ResizeEntries
  <2>2. Phase(inWorker[r], c) => Phase(At("format"), c)
    BY <2>1 DEF Phase, Later
  <2>3. Phase(inWorker[r], c) => Phase(At("header"), [c EXCEPT !.entries = "grown"])
    BY <2>1, <1>a DEF Phase, Later, Contents
  <2> QED
    BY <2>1, <2>2, <2>3, <1>b, <1>c DEF Working, Later
<1>8. CASE ResizeHeader(r)
  <2>1. /\ inWorker[r].pc = "header" /\ UNCHANGED inReported
        /\ \/ PutDisk(d, [c EXCEPT !.header = "grown"]) /\ Goto(r, "backup") /\ UNCHANGED inSpoiled
           \/ /\ Goto(r, "format") /\ inSpoiled' = inSpoiled \union {d}
              /\ \E h : PutDisk(d, [c EXCEPT !.header = h])
    BY <1>8 DEF ResizeHeader
  <2>2. Phase(inWorker[r], c) => Phase(At("backup"), [c EXCEPT !.header = "grown"])
    BY <2>1, <1>a DEF Phase, Later, Contents
  <2> QED
    BY <2>1, <2>2, <1>b, <1>c DEF Working, Later
<1>9. CASE ResizeBackup(r)
  <2>1. /\ inWorker[r].pc = "backup" /\ UNCHANGED <<inReported, inSpoiled>> /\ Goto(r, "format")
        /\ PutDisk(d, [c EXCEPT !.backup = "grown"]) \/ UNCHANGED inDisk
    BY <1>9 DEF ResizeBackup
  <2>2. Phase(inWorker[r], c) => Phase(At("format"), c)
                                 /\ Phase(At("format"), [c EXCEPT !.backup = "grown"])
    BY <2>1, <1>a DEF Phase, Later, Contents
  <2> QED
    BY <2>1, <2>2, <1>b, <1>c DEF Working, Later
<1>10. CASE FormatData(r)
  <2>1. /\ inWorker[r].pc = "format" /\ UNCHANGED <<inReported, inSpoiled>> /\ Goto(r, "fill")
        /\ (\E x : PutDisk(d, [c EXCEPT !.data = x])) \/ UNCHANGED inDisk
    BY <1>10 DEF FormatData
  <2>2. Phase(inWorker[r], c) => Phase(At("fill"), c)
                                 /\ \A x : Phase(At("fill"), [c EXCEPT !.data = x])
    BY <2>1, <1>a DEF Phase, Later, Contents
  <2> QED
    BY <2>1, <2>2, <1>b, <1>c DEF Working, Later
<1>11. CASE FillData(r)
  <2>1. /\ inWorker[r].pc = "fill" /\ inWorker' = [inWorker EXCEPT ![r] = Resting]
        /\ inReported' = inReported \union {d} /\ UNCHANGED inSpoiled
    BY <1>11 DEF FillData
  <2>2. /\ inDisk'[d].chunks = c.chunks /\ inDisk'[d].header = c.header
        /\ inDisk'[d].entries = c.entries /\ \A e \in Disks : e # d => inDisk'[e] = inDisk[e]
    BY <1>11, <1>a DEF FillData, Contents
  <2>3. r \in OnDisk(d)
    BY <2>1 DEF OnDisk
  <2>4. /\ \A e \in Disks : OnDisk(e)' = OnDisk(e) \ {r}
        /\ \A e \in Disks : \A s \in OnDisk(e)' : inWorker'[s] = inWorker[s]
    <3>1. inWorker'[r] = Resting /\ \A s \in InstallRequests : s # r => inWorker'[s] = inWorker[s]
      BY <2>1, WorkersAfter
    <3> QED
      BY <3>1 DEF OnDisk
  <2> QED
    <3> SUFFICES ASSUME NEW e \in Disks, e \notin inSpoiled
                 PROVE  /\ \A p, s \in OnDisk(e)' : p = s
                        /\ \A p \in OnDisk(e)' : Phase(inWorker'[p], inDisk'[e])
                        /\ e \in inReported' => OnDisk(e)' = {} /\ Bootable(inDisk'[e])
      BY <2>1 DEF DiskInv, Phase, Bootable
    <3>1. /\ \A p, s \in OnDisk(e) : p = s
          /\ \A p \in OnDisk(e) : Phase(inWorker[p], inDisk[e])
          /\ e \in inReported => OnDisk(e) = {} /\ Bootable(inDisk[e])
      BY DEF DiskInv
    <3>2. CASE e = d
      <4>1. OnDisk(e)' = {}
        BY <3>1, <3>2, <2>3, <2>4
      <4>2. Bootable(inDisk'[e])
        BY <3>1, <3>2, <2>1, <2>2, <2>3 DEF Bootable, Phase, Later
      <4> QED
        BY <4>1, <4>2
    <3>3. CASE e # d
      <4>1. r \notin OnDisk(e)
        BY <3>3 DEF OnDisk
      <4> QED
        BY <4>1, <3>1, <3>3, <2>1, <2>2, <2>4
    <3> QED
      BY <3>2, <3>3
<1> QED
  BY <1>1, <1>2, <1>3, <1>4, <1>5, <1>6, <1>7, <1>8, <1>9, <1>10, <1>11 DEF WorkerStep

LEMMA DisksNext ==
  InstallTypeOK /\ Started /\ DiskInv /\ [InstallNext]_inVars => DiskInv'
<1> SUFFICES ASSUME InstallTypeOK, Started, DiskInv, [InstallNext]_inVars
             PROVE  DiskInv'
  OBVIOUS
<1>1. ASSUME NEW r \in InstallRequests, NEW d \in Disks, InstallTest(r, d)
      PROVE  DiskInv'
  <2>1. /\ inWorker' = [inWorker EXCEPT ![r] = [pc |-> "start", disk |-> d, at |-> 0]]
        /\ UNCHANGED <<inDisk, inReported, inSpoiled>>
    BY <1>1 DEF InstallTest, SetWorker
  <2> QED
    BY <2>1, WorkerStops
<1>2. ASSUME NEW r \in InstallRequests, WorkerStep(r)
      PROVE  DiskInv'
  BY <1>2, WorkerStepDisks
<1>3. CASE StreamOpen \/ StreamPoll \/ UNCHANGED inVars
  BY <1>3, DisksRest DEF StreamOpen, StreamPoll, inVars, OnDisk
<1>4. CASE PowerLoss
  <2>1. \A d \in Disks : OnDisk(d)' = {}
    BY <1>4 DEF PowerLoss, OnDisk
  <2> QED
    BY <1>4, <2>1, DisksRest DEF PowerLoss
<1> QED
  BY <1>1, <1>2, <1>3, <1>4 DEF InstallNext

\* The table of the target can be read from phase to phase, and what is reported as installed holds the whole image: for any disks, any size of the image
\* and any interleaving of requests, faults and power losses (install_worker,
\* resize_gpt_data_partition).
THEOREM DisksAreKept == InstallSpec => []DisksKept
<1>1. InstallInit => DiskInv
  <2> SUFFICES ASSUME InstallInit PROVE DiskInv
    OBVIOUS
  <2>1. \A d \in Disks : OnDisk(d) = {}
    BY DEF InstallInit, OnDisk
  <2>2. inReported = {}
    BY DEF InstallInit
  <2> QED
    BY <2>1, <2>2 DEF DiskInv
<1>2. InstallTypeOK /\ DiskInv => DisksKept
  <2> SUFFICES ASSUME InstallTypeOK, DiskInv PROVE DisksKept
    OBVIOUS
  <2>1. ResizeKeepsTable
    <3> SUFFICES ASSUME NEW d \in Disks \ inSpoiled, NEW r \in OnDisk(d),
                        inWorker[r].pc \in {"resize", "entries", "backup", "format", "fill"}
                 PROVE  TableReadable(d)
      BY DEF ResizeKeepsTable
    <3>1. Phase(inWorker[r], inDisk[d])
      BY DEF DiskInv
    <3> QED
      BY <3>1 DEF Phase, Later, TableReadable
  <2>2. InstalledDiskBoots
    <3> SUFFICES ASSUME NEW d \in inReported \ inSpoiled, d \in Disks
                 PROVE  inDisk[d].chunks = Image /\ TableReadable(d)
      BY DEF InstalledDiskBoots, InstallTypeOK
    <3>1. Bootable(inDisk[d])
      BY DEF DiskInv
    <3> QED
      BY <3>1 DEF Bootable, TableReadable
  <2> QED
    BY <2>1, <2>2 DEF DisksKept
<1> QED
  BY <1>1, <1>2, InstallTypeInit, InstallTypeNext, StartedNext, DisksNext, PTL DEF InstallSpec
-----------------------------------------------------------------------------
(* DataMount: types *)

HIDE InstallerAssumption DEF Resting, Image
USE DataMountAssumption DEF Parts, Tmpfs, Ends, dmDisk, dmHistory, NoFault

\* Only a partition that the kernel shows is worked on.
Active == dmPc \notin {"next", "done"} => dmPart \in Parts /\ Visible(dmPart)

LEMMA MountTypeInit == DataMountInit => DataMountTypeOK /\ Active
  BY DEF DataMountInit, DataMountTypeOK, Active, FileSystems

LEMMA ActiveNext == DataMountTypeOK /\ Active /\ [DataMountNext]_dmVars => Active'
<1> SUFFICES ASSUME DataMountTypeOK, Active, [DataMountNext]_dmVars PROVE Active'
  OBVIOUS
<1> USE DEF GoOn, NextPart, Active
<1>1. CASE TryPartition
  <2>1. dmPart \in 1..Tmpfs
    BY DEF DataMountTypeOK
  <2> QED
    BY <1>1, <2>1 DEF TryPartition, Visible
<1>2. CASE ReadSuperblock
  BY <1>2 DEF ReadSuperblock, Visible
<1>3. CASE GrowTable
  BY <1>3 DEF GrowTable, Visible
<1>4. CASE WriteEntries
  BY <1>4 DEF WriteEntries, Visible
<1>5. CASE WriteHeader
  BY <1>5 DEF WriteHeader, Visible
<1>6. CASE WriteBackup
  <2>1. dmPart' = dmPart /\ dmPart \in Parts /\ dmKernel[DiskOf[dmPart]] # 0
    BY <1>6 DEF WriteBackup, Visible
  <2>2. dmKernel'[DiskOf[dmPart]] # 0
    BY <1>6, <2>1 DEF WriteBackup, DataMountTypeOK
  <2> QED
    BY <2>1, <2>2 DEF Visible
<1>7. CASE MountData
  BY <1>7 DEF MountData, Visible
<1>8. CASE RecreateData
  BY <1>8 DEF RecreateData, Visible
<1>9. CASE PowerCycle
  BY <1>9 DEF PowerCycle, Visible
<1>10. CASE UNCHANGED dmVars
  BY <1>10 DEF dmVars, Visible
<1> QED
  BY <1>1, <1>2, <1>3, <1>4, <1>5, <1>6, <1>7, <1>8, <1>9, <1>10 DEF DataMountNext

\* The parts of the type: where init_mount_data is, the tables, the contents, the history.
PlaceType == dmPc \in {"next", "probe", "grow", "entries", "header", "backup", "mount", "format",
                       "done"}
             /\ dmPart \in 1..Tmpfs /\ dmMounted \in 0..Tmpfs
TableType == /\ dmEntries \in [DataDisks -> Ends] /\ dmHeader \in [DataDisks -> Ends]
             /\ dmBackup \in [DataDisks -> 0..DiskEnd] /\ dmKernel \in [DataDisks -> 0..DiskEnd]
             /\ dmFsEnd \in [DataDisks -> Ends]
ContentsType == dmFs \in [Parts -> FileSystems] /\ dmLost \subseteq Parts \X FileSystems
HistoryType == /\ dmFaulty \subseteq Parts /\ dmTorn \subseteq DataDisks
               /\ dmBoots \in 1..MaxBoots /\ dmFaults \in 0..MaxMountFaults

LEMMA MountTypeIs == DataMountTypeOK <=> PlaceType /\ TableType /\ ContentsType /\ HistoryType
  BY DEF DataMountTypeOK, PlaceType, TableType, ContentsType, HistoryType

\* The partition that is worked on, its disk and the end the kernel has for it.
LEMMA ActiveIs ==
  ASSUME PlaceType, TableType, Active, dmPc \notin {"next", "done"}
  PROVE  /\ dmPart \in Parts /\ dmPart + 1 \in 1..Tmpfs /\ DiskOf[dmPart] \in DataDisks
         /\ dmKernel[DiskOf[dmPart]] \in Ends
  BY DEF Active, Visible, PlaceType, TableType

LEMMA PlaceNext == PlaceType /\ TableType /\ Active /\ [DataMountNext]_dmVars => PlaceType'
<1> SUFFICES ASSUME PlaceType, TableType, Active, [DataMountNext]_dmVars PROVE PlaceType'
  OBVIOUS
<1> USE ActiveIs DEF GoOn, NextPart, PlaceType
<1>1. CASE TryPartition
  BY <1>1 DEF TryPartition
<1>2. CASE ReadSuperblock
  BY <1>2 DEF ReadSuperblock
<1>3. CASE GrowTable
  BY <1>3 DEF GrowTable
<1>4. CASE WriteEntries
  BY <1>4 DEF WriteEntries
<1>5. CASE WriteHeader
  BY <1>5 DEF WriteHeader
<1>6. CASE WriteBackup
  BY <1>6 DEF WriteBackup
<1>7. CASE MountData
  BY <1>7 DEF MountData
<1>8. CASE RecreateData
  BY SMTT(30), <1>8 DEF RecreateData
<1>9. CASE PowerCycle
  BY <1>9 DEF PowerCycle
<1>10. CASE UNCHANGED dmVars
  BY <1>10 DEF dmVars
<1> QED
  BY <1>1, <1>2, <1>3, <1>4, <1>5, <1>6, <1>7, <1>8, <1>9, <1>10 DEF DataMountNext

LEMMA TableNext == PlaceType /\ TableType /\ Active /\ [DataMountNext]_dmVars => TableType'
<1> SUFFICES ASSUME PlaceType, TableType, Active, [DataMountNext]_dmVars PROVE TableType'
  OBVIOUS
<1>a. dmPc \notin {"next", "done"} =>
        /\ dmPart \in Parts /\ DiskOf[dmPart] \in DataDisks /\ dmKernel[DiskOf[dmPart]] \in Ends
  BY ActiveIs
<1>b. /\ \A f \in [DataDisks -> Ends], d \in DataDisks, v \in Ends :
            [f EXCEPT ![d] = v] \in [DataDisks -> Ends]
      /\ \A f \in [DataDisks -> 0..DiskEnd], d \in DataDisks :
            [f EXCEPT ![d] = DiskEnd] \in [DataDisks -> 0..DiskEnd]
      /\ DiskEnd \in Ends
  OBVIOUS
<1> HIDE DEF Ends
<1> USE DEF TableType
<1>1. CASE TryPartition
  BY <1>1 DEF TryPartition
<1>2. CASE ReadSuperblock
  BY <1>2 DEF ReadSuperblock
<1>3. CASE GrowTable
  BY <1>3 DEF GrowTable
<1>4. CASE WriteEntries
  <2>1. /\ dmPc \notin {"next", "done"} /\ UNCHANGED <<dmHeader, dmBackup, dmKernel, dmFsEnd>>
        /\ dmEntries' = [dmEntries EXCEPT ![DiskOf[dmPart]] = DiskEnd] \/ UNCHANGED dmEntries
    BY <1>4 DEF WriteEntries, WriteTable
  <2>2. dmEntries' \in [DataDisks -> Ends]
    BY ZenonT(40), <2>1, <1>a, <1>b
  <2> QED
    BY <2>1, <2>2
<1>5. CASE WriteHeader
  <2>1. /\ dmPc \notin {"next", "done"} /\ UNCHANGED <<dmEntries, dmBackup, dmKernel, dmFsEnd>>
        /\ dmHeader' = [dmHeader EXCEPT ![DiskOf[dmPart]] = DiskEnd] \/ UNCHANGED dmHeader
    BY <1>5 DEF WriteHeader, WriteTable
  <2>2. dmHeader' \in [DataDisks -> Ends]
    BY ZenonT(40), <2>1, <1>a, <1>b
  <2> QED
    BY <2>1, <2>2
<1>6. CASE WriteBackup
  <2>1. /\ dmPc \notin {"next", "done"} /\ UNCHANGED <<dmEntries, dmHeader, dmFsEnd>>
        /\ dmBackup' = [dmBackup EXCEPT ![DiskOf[dmPart]] = DiskEnd] \/ UNCHANGED dmBackup
        /\ dmKernel' = [dmKernel EXCEPT ![DiskOf[dmPart]] = DiskEnd] \/ UNCHANGED dmKernel
    BY <1>6 DEF WriteBackup
  <2> DEFINE S == 0..DiskEnd
  <2>2. DiskEnd \in S /\ dmBackup \in [DataDisks -> S] /\ dmKernel \in [DataDisks -> S]
    OBVIOUS
  <2>3. dmBackup' \in [DataDisks -> S] /\ dmKernel' \in [DataDisks -> S]
    <3>1. \A f \in [DataDisks -> S], d \in DataDisks : [f EXCEPT ![d] = DiskEnd] \in [DataDisks -> S]
      BY <2>2
    <3>2. DiskOf[dmPart] \in DataDisks
      BY <2>1, <1>a
    <3> HIDE DataMountAssumption DEF S, TableType
    <3> QED
      BY <2>1, <2>2, <3>1, <3>2
  <2> QED
    BY <2>1, <2>3
<1>7. CASE MountData
  <2>1. dmFsEnd' \in [DataDisks -> Ends]
    BY <1>7, <1>a, <1>b DEF MountData
  <2> QED
    BY <1>7, <2>1 DEF MountData
<1>8. CASE RecreateData
  <2>1. dmFsEnd' \in [DataDisks -> Ends]
    BY <1>8, <1>a, <1>b DEF RecreateData
  <2> QED
    BY <1>8, <2>1 DEF RecreateData
<1>9. CASE PowerCycle
  <2>1. \A d \in DataDisks : KernelView(d) \in 0..DiskEnd
    BY DEF KernelView, Ends
  <2> QED
    BY <1>9, <2>1 DEF PowerCycle
<1>10. CASE UNCHANGED dmVars
  BY <1>10 DEF dmVars
<1> QED
  BY <1>1, <1>2, <1>3, <1>4, <1>5, <1>6, <1>7, <1>8, <1>9, <1>10 DEF DataMountNext

LEMMA ContentsNext ==
  PlaceType /\ TableType /\ ContentsType /\ Active /\ [DataMountNext]_dmVars => ContentsType'
<1> SUFFICES ASSUME PlaceType, TableType, ContentsType, Active, [DataMountNext]_dmVars
             PROVE  ContentsType'
  OBVIOUS
<1>a. dmPc \notin {"next", "done"} =>
        /\ dmPart \in Parts /\ DiskOf[dmPart] \in DataDisks /\ dmKernel[DiskOf[dmPart]] \in Ends
  BY ActiveIs
<1> USE DEF ContentsType, FileSystems
<1>1. CASE TryPartition
  BY <1>1 DEF TryPartition
<1>2. CASE ReadSuperblock
  BY <1>2 DEF ReadSuperblock
<1>3. CASE GrowTable
  BY <1>3 DEF GrowTable
<1>4. CASE WriteEntries
  BY <1>4 DEF WriteEntries
<1>5. CASE WriteHeader
  BY <1>5 DEF WriteHeader
<1>6. CASE WriteBackup
  BY <1>6 DEF WriteBackup
<1>7. CASE MountData
  BY <1>7 DEF MountData
<1>8. CASE RecreateData
  <2>1. dmFs' \in [Parts -> FileSystems]
    BY <1>8, <1>a DEF RecreateData
  <2>2. dmLost' \subseteq Parts \X FileSystems
    BY <1>8, <1>a DEF RecreateData, Lose
  <2> QED
    BY <2>1, <2>2
<1>9. CASE PowerCycle
  BY <1>9 DEF PowerCycle
<1>10. CASE UNCHANGED dmVars
  BY <1>10 DEF dmVars
<1> QED
  BY <1>1, <1>2, <1>3, <1>4, <1>5, <1>6, <1>7, <1>8, <1>9, <1>10 DEF DataMountNext

LEMMA HistoryNext ==
  PlaceType /\ TableType /\ HistoryType /\ Active /\ [DataMountNext]_dmVars => HistoryType'
<1> SUFFICES ASSUME PlaceType, TableType, HistoryType, Active, [DataMountNext]_dmVars
             PROVE  HistoryType'
  OBVIOUS
<1>a. dmPc \notin {"next", "done"} =>
        /\ dmPart \in Parts /\ DiskOf[dmPart] \in DataDisks /\ dmKernel[DiskOf[dmPart]] \in Ends
  BY ActiveIs
<1>b. dmPc \notin {"next", "done"} =>
        (MountFault \/ NoFault => dmFaulty' \subseteq Parts /\ dmFaults' \in 0..MaxMountFaults)
  <2> SUFFICES ASSUME dmPc \notin {"next", "done"}, MountFault \/ NoFault
               PROVE  dmFaulty' \subseteq Parts /\ dmFaults' \in 0..MaxMountFaults
    OBVIOUS
  <2>1. dmFaults' \in 0..MaxMountFaults
    BY DEF MountFault, HistoryType
  <2>2. dmPart \in Parts /\ dmFaulty \subseteq Parts
    BY <1>a DEF HistoryType
  <2> HIDE DEF Parts
  <2>3. dmFaulty' \subseteq Parts
    BY <2>2, Zenon DEF MountFault
  <2> QED
    BY <2>1, <2>3
<1>c. /\ UNCHANGED dmTorn => dmTorn' \subseteq DataDisks
      /\ UNCHANGED dmBoots => dmBoots' \in 1..MaxBoots
  BY DEF HistoryType
<1> HIDE DEF NoFault
<1> USE DEF HistoryType
<1>1. CASE TryPartition
  BY <1>1 DEF TryPartition, NoFault
<1>2. CASE ReadSuperblock
  BY <1>2, <1>b, <1>c DEF ReadSuperblock
<1>3. CASE GrowTable
  BY <1>3, <1>b, <1>c DEF GrowTable
<1>4. CASE WriteEntries
  BY <1>4, <1>a, <1>b, <1>c DEF WriteEntries, WriteTable
<1>5. CASE WriteHeader
  BY <1>5, <1>a, <1>b, <1>c DEF WriteHeader, WriteTable
<1>6. CASE WriteBackup
  BY <1>6, <1>b, <1>c DEF WriteBackup
<1>7. CASE MountData
  BY <1>7, <1>b, <1>c DEF MountData
<1>8. CASE RecreateData
  BY <1>8, <1>b, <1>c DEF RecreateData
<1>9. CASE PowerCycle
  <2>1. dmTorn' \subseteq DataDisks
    BY <1>9, <1>a DEF PowerCycle
  <2>2. dmBoots' \in 1..MaxBoots
    BY <1>9 DEF PowerCycle
  <2> QED
    BY <1>9, <2>1, <2>2 DEF PowerCycle
<1>10. CASE UNCHANGED dmVars
  BY <1>10 DEF dmVars
<1> QED
  BY <1>1, <1>2, <1>3, <1>4, <1>5, <1>6, <1>7, <1>8, <1>9, <1>10 DEF DataMountNext

LEMMA MountTypeNext == DataMountTypeOK /\ Active /\ [DataMountNext]_dmVars => DataMountTypeOK'
<1> SUFFICES ASSUME DataMountTypeOK, Active, [DataMountNext]_dmVars
             PROVE  PlaceType' /\ TableType' /\ ContentsType' /\ HistoryType'
  BY DEF DataMountTypeOK, PlaceType, TableType, ContentsType, HistoryType
<1> QED
  BY MountTypeIs, PlaceNext, TableNext, ContentsNext, HistoryNext

\* Every reachable state has its type: no table entry ends beyond the disk (init.cpp).
THEOREM DataMountTypeCorrect == DataMountSpec => []DataMountTypeOK
  BY MountTypeInit, MountTypeNext, ActiveNext, PTL DEF DataMountSpec

-----------------------------------------------------------------------------
(* DataMount: the data of the user *)

\* A partition on which every call succeeded is worked on only if its superblock is that of an
\* ext4 file system, and reaches the format only if the kernel refused it; those before it in
\* the order were ruled out, or a call on them failed.
SearchInv ==
    /\ dmPc \in {"grow", "entries", "header", "backup", "mount"} /\ dmPart \notin dmFaulty =>
          HasMagic(dmPart)
    /\ dmPc = "format" /\ dmPart \notin dmFaulty => dmFs[dmPart] = "alien"
    /\ dmPc = "done" => dmMounted = dmPart
    /\ \A p \in Parts : p < dmPart /\ Visible(p) /\ dmFs[p] = "ext4" => p \in dmFaulty

DataInv == DataMountTypeOK /\ Active /\ SearchInv /\ NoLossWithoutFault /\ ScannedDisksKept

LEMMA SearchNext == DataMountTypeOK /\ Active /\ SearchInv /\ [DataMountNext]_dmVars => SearchInv'
<1> SUFFICES ASSUME DataMountTypeOK, Active, SearchInv, [DataMountNext]_dmVars PROVE SearchInv'
  OBVIOUS
<1>a. /\ dmPart \in 1..Tmpfs /\ dmFs \in [Parts -> FileSystems]
      /\ dmPc \notin {"next", "done"} => dmPart \in Parts
  BY DEF DataMountTypeOK, Active
<1> USE DEF SearchInv, GoOn, NextPart, MountFault, HasMagic, Mountable
<1>1. CASE TryPartition
  BY SMTT(30), <1>1, <1>a DEF TryPartition, Visible
<1>2. CASE ReadSuperblock
  BY <1>2, <1>a DEF ReadSuperblock, Visible
<1>3. CASE GrowTable
  BY <1>3, <1>a DEF GrowTable, Visible
<1>4. CASE WriteEntries
  BY <1>4, <1>a DEF WriteEntries, WriteTable, Visible
<1>5. CASE WriteHeader
  BY <1>5, <1>a DEF WriteHeader, WriteTable, Visible
<1>6. CASE WriteBackup
  <2>1. \A p \in Parts : Visible(p)' => Visible(p)
    <3>1. DiskOf[dmPart] \in DataDisks /\ dmKernel[DiskOf[dmPart]] # 0
      BY <1>6, <1>a DEF WriteBackup, Active, Visible
    <3>2. dmKernel' = [dmKernel EXCEPT ![DiskOf[dmPart]] = DiskEnd] \/ dmKernel' = dmKernel
      BY <1>6 DEF WriteBackup
    <3>3. DOMAIN dmKernel = DataDisks
      BY DEF DataMountTypeOK
    <3> QED
      BY <3>1, <3>2, <3>3 DEF Visible
  <2>2. /\ dmPc = "backup" /\ dmPc' = "mount" /\ UNCHANGED <<dmPart, dmFs>>
        /\ dmFaulty \subseteq dmFaulty'
    BY <1>6 DEF WriteBackup
  <2> QED
    BY <2>1, <2>2
<1>7. CASE MountData
  BY <1>7, <1>a DEF MountData, Visible
<1>8. CASE RecreateData
  <2>1. /\ dmPc = "format" /\ dmPc' \in {"next", "done"} /\ UNCHANGED dmKernel
        /\ dmFaulty \subseteq dmFaulty'
        /\ \/ dmPart' = dmPart + 1 /\ dmPc' = "next" /\ (dmPart \in dmFaulty' \/ dmFs' = dmFs)
           \/ dmPart' = dmPart /\ dmPc' = "done" /\ dmMounted' = dmPart
        /\ \A p \in Parts : dmFs'[p] = "ext4" => dmFs[p] = "ext4"
    BY <1>8, <1>a DEF RecreateData
  <2> QED
    BY <2>1, <1>a DEF Visible
<1>9. CASE PowerCycle
  BY <1>9 DEF PowerCycle
<1>10. CASE UNCHANGED dmVars
  BY <1>10, <1>a DEF dmVars, Visible
<1> QED
  BY <1>1, <1>2, <1>3, <1>4, <1>5, <1>6, <1>7, <1>8, <1>9, <1>10 DEF DataMountNext

\* What is formatted had an expected name and was refused, or a call on it had failed.
LEMMA LossNext ==
  DataMountTypeOK /\ Active /\ SearchInv /\ NoLossWithoutFault /\ ScannedDisksKept
    /\ [DataMountNext]_dmVars => NoLossWithoutFault' /\ ScannedDisksKept'
<1> SUFFICES ASSUME DataMountTypeOK, Active, SearchInv, NoLossWithoutFault, ScannedDisksKept,
                    [DataMountNext]_dmVars
             PROVE  NoLossWithoutFault' /\ ScannedDisksKept'
  OBVIOUS
<1> USE DEF NoLossWithoutFault, ScannedDisksKept, Candidate
<1>1. CASE TryPartition
  BY <1>1 DEF TryPartition
<1>2. CASE ReadSuperblock
  BY <1>2 DEF ReadSuperblock
<1>3. CASE GrowTable
  BY <1>3 DEF GrowTable
<1>4. CASE WriteEntries
  BY <1>4 DEF WriteEntries
<1>5. CASE WriteHeader
  BY <1>5 DEF WriteHeader
<1>6. CASE WriteBackup
  BY <1>6 DEF WriteBackup
<1>7. CASE MountData
  BY <1>7 DEF MountData
<1>8. CASE RecreateData
  <2>1. dmPc = "format" /\ dmPart \in Parts /\ DOMAIN dmFs = Parts
    BY <1>8 DEF RecreateData, Active, DataMountTypeOK
  <2>2. \/ UNCHANGED <<dmLost, dmFs>>
        \/ /\ Lose(dmPart) /\ Candidate(dmPart)
           /\ dmFs' \in {[dmFs EXCEPT ![dmPart] = "new"], [dmFs EXCEPT ![dmPart] = "torn"]}
    BY <1>8 DEF RecreateData
  <2>3. \A l \in dmLost' : l \in dmLost \/ (l = <<dmPart, "alien">> /\ Candidate(dmPart))
    BY <2>1, <2>2 DEF Lose, SearchInv
  <2>4. NoLossWithoutFault'
    BY <2>3
  <2>5. ScannedDisksKept'
    BY <2>1, <2>2
  <2> QED
    BY <2>4, <2>5
<1>9. CASE PowerCycle
  BY <1>9 DEF PowerCycle
<1>10. CASE UNCHANGED dmVars
  BY <1>10 DEF dmVars
<1> QED
  BY <1>1, <1>2, <1>3, <1>4, <1>5, <1>6, <1>7, <1>8, <1>9, <1>10 DEF DataMountNext

\* Nothing is formatted without a fault, nothing that is not ours at all, and nothing mountable
\* is passed over, for any disks and partitions and over any number of boots
\* (init_mount_data, try_mount_data_partition).
THEOREM DataIsKept == DataMountSpec => []DataKept
<1>1. DataMountInit => DataInv
  <2> SUFFICES ASSUME DataMountInit PROVE DataInv
    OBVIOUS
  <2>1. SearchInv
    BY DEF DataMountInit, SearchInv
  <2>2. NoLossWithoutFault /\ ScannedDisksKept
    BY DEF DataMountInit, NoLossWithoutFault, ScannedDisksKept
  <2> QED
    BY <2>1, <2>2, MountTypeInit DEF DataInv
<1>2. DataInv /\ [DataMountNext]_dmVars => DataInv'
  BY MountTypeNext, ActiveNext, SearchNext, LossNext DEF DataInv
<1>3. DataInv => DataKept
  BY DEF DataInv, SearchInv, DataKept, NothingSkipped
<1> QED
  BY <1>1, <1>2, <1>3, PTL DEF DataMountSpec

-----------------------------------------------------------------------------
(* DataMount: the partition table and the file system in it *)

\* Both copies of the primary table reach the end of the disk: it has been grown.
Grown(d) == dmEntries[d] = DiskEnd /\ dmHeader[d] = DiskEnd

\* A size x fits into the partition whichever copy of the table the next boot takes.
Within(d, x) ==
    /\ x <= dmEntries[d] /\ x <= dmHeader[d]
    /\ dmBackup[d] = 0 \/ x <= dmBackup[d] \/ Grown(d)

\* Of the table nothing but its end changes, the backup last; what the kernel knows and how far
\* the file system reaches fit into it.  A header that does not match the entries is the one
\* that is about to be written, or the table was half written.
DiskTable(d) ==
    /\ dmBackup[d] # 0 => /\ dmEntries[d] \in {dmBackup[d], DiskEnd}
                          /\ dmHeader[d] \in {dmBackup[d], DiskEnd}
    /\ dmBackup[d] = DiskEnd => Grown(d)
    /\ Within(d, dmKernel[d]) /\ Within(d, dmFsEnd[d])
    /\ d \notin dmTorn =>
          \/ dmEntries[d] = dmHeader[d] \/ dmBackup[d] # 0
          \/ dmPc = "header" /\ DiskOf[dmPart] = d
    /\ dmPc = "header" /\ DiskOf[dmPart] = d /\ d \notin dmTorn => dmEntries[d] = DiskEnd
    /\ dmPc = "backup" /\ DiskOf[dmPart] = d => Grown(d)

TableInv == \A d \in DataDisks : DiskTable(d)

LEMMA TableInvNext == DataMountTypeOK /\ Active /\ TableInv /\ [DataMountNext]_dmVars => TableInv'
<1> SUFFICES ASSUME DataMountTypeOK, Active, TableInv, [DataMountNext]_dmVars PROVE TableInv'
  OBVIOUS
<1>a. \A d \in DataDisks : /\ dmEntries[d] \in Ends /\ dmHeader[d] \in Ends /\ dmFsEnd[d] \in Ends
                           /\ dmBackup[d] \in 0..DiskEnd /\ dmKernel[d] \in 0..DiskEnd
  BY DEF DataMountTypeOK
<1>b. dmPc \notin {"next", "done"} => DiskOf[dmPart] \in DataDisks
  BY DEF Active
<1>c. /\ DOMAIN dmEntries = DataDisks /\ DOMAIN dmHeader = DataDisks /\ DOMAIN dmBackup = DataDisks
      /\ DOMAIN dmKernel = DataDisks /\ DOMAIN dmFsEnd = DataDisks
  BY DEF DataMountTypeOK
<1>d. ASSUME UNCHANGED <<dmEntries, dmHeader, dmBackup, dmKernel, dmTorn>>,
             \A d \in DataDisks : dmFsEnd'[d] \in {dmFsEnd[d], dmKernel[d]},
             dmPc # "header", dmPc' \notin {"header", "backup"}
      PROVE  TableInv'
  <2> SUFFICES ASSUME NEW d \in DataDisks PROVE DiskTable(d)'
    BY DEF TableInv
  <2>1. DiskTable(d)
    BY DEF TableInv
  <2>2. UNCHANGED <<dmEntries[d], dmHeader[d], dmBackup[d], dmKernel[d]>>
    BY <1>d
  <2> QED
    BY <1>d, <2>1, <2>2 DEF DiskTable, Within, Grown
<1> USE DEF GoOn, NextPart
<1>1. CASE TryPartition
  BY <1>1, <1>d DEF TryPartition
<1>2. CASE ReadSuperblock
  BY <1>2, <1>d DEF ReadSuperblock
<1>3. CASE GrowTable
  BY <1>3, <1>d DEF GrowTable
<1>4. CASE WriteEntries
  <2> DEFINE e == DiskOf[dmPart]
  <2>1. /\ dmPc = "entries" /\ dmPc' = "header" /\ e \in DataDisks
        /\ UNCHANGED <<dmPart, dmHeader, dmBackup, dmKernel, dmFsEnd>>
        /\ \/ dmEntries' = [dmEntries EXCEPT ![e] = DiskEnd] /\ dmTorn' = dmTorn
           \/ dmEntries' = dmEntries /\ dmTorn' = dmTorn \union {e}
    BY <1>4, <1>b DEF WriteEntries, WriteTable
  <2> SUFFICES ASSUME NEW d \in DataDisks PROVE DiskTable(d)'
    BY DEF TableInv
  <2>2. DiskTable(d)
    BY DEF TableInv
  <2>3. /\ d # e => dmEntries'[d] = dmEntries[d] /\ (d \in dmTorn' <=> d \in dmTorn)
        /\ d = e => \/ dmEntries'[d] = DiskEnd /\ (d \in dmTorn' <=> d \in dmTorn)
                    \/ dmEntries'[d] = dmEntries[d] /\ d \in dmTorn'
    BY <2>1, <1>c
  <2>4. /\ dmEntries[d] \in Ends /\ dmHeader[d] \in Ends /\ dmFsEnd[d] \in Ends
        /\ dmBackup[d] \in 0..DiskEnd /\ dmKernel[d] \in 0..DiskEnd
    BY <1>a
  <2>5. /\ dmHeader'[d] = dmHeader[d] /\ dmBackup'[d] = dmBackup[d] /\ dmKernel'[d] = dmKernel[d]
        /\ dmFsEnd'[d] = dmFsEnd[d]
        /\ dmPc = "entries" /\ dmPc' = "header"
        /\ DiskOf[dmPart] = e /\ DiskOf[dmPart'] = e
    BY <2>1
  <2> HIDE DEF e
  <2> USE DEF DiskTable, Within, Grown
  <2>6. CASE d = e
    BY SMTT(30), <2>2, <2>3, <2>4, <2>5, <2>6
  <2>7. CASE d # e
    BY <2>2, <2>3, <2>4, <2>5, <2>7
  <2> QED
    BY <2>6, <2>7
<1>5. CASE WriteHeader
  <2> DEFINE e == DiskOf[dmPart]
  <2>1. /\ dmPc = "header" /\ e \in DataDisks
        /\ dmPc' = IF dmEntries[e] = DiskEnd /\ dmHeader'[e] = DiskEnd THEN "backup" ELSE "mount"
        /\ UNCHANGED <<dmPart, dmEntries, dmBackup, dmKernel, dmFsEnd>>
        /\ \/ dmHeader' = [dmHeader EXCEPT ![e] = DiskEnd] /\ dmTorn' = dmTorn
           \/ dmHeader' = dmHeader /\ dmTorn' = dmTorn \union {e}
    BY <1>5, <1>b DEF WriteHeader, WriteTable
  <2> SUFFICES ASSUME NEW d \in DataDisks PROVE DiskTable(d)'
    BY DEF TableInv
  <2>2. DiskTable(d)
    BY DEF TableInv
  <2>3. /\ d # e => dmHeader'[d] = dmHeader[d] /\ (d \in dmTorn' <=> d \in dmTorn)
        /\ d = e => \/ dmHeader'[d] = DiskEnd /\ (d \in dmTorn' <=> d \in dmTorn)
                    \/ dmHeader'[d] = dmHeader[d] /\ d \in dmTorn'
    BY <2>1, <1>c
  <2>4. /\ dmEntries[d] \in Ends /\ dmHeader[d] \in Ends /\ dmFsEnd[d] \in Ends
        /\ dmBackup[d] \in 0..DiskEnd /\ dmKernel[d] \in 0..DiskEnd
    BY <1>a
  <2>5. /\ dmEntries'[d] = dmEntries[d] /\ dmBackup'[d] = dmBackup[d] /\ dmKernel'[d] = dmKernel[d]
        /\ dmFsEnd'[d] = dmFsEnd[d]
        /\ dmPc = "header" /\ dmPc' \in {"backup", "mount"}
        /\ dmPc' = "backup" => dmEntries[e] = DiskEnd /\ dmHeader'[e] = DiskEnd
        /\ DiskOf[dmPart] = e /\ DiskOf[dmPart'] = e
    BY <2>1
  <2> HIDE DEF e
  <2> USE DEF DiskTable, Within, Grown
  <2>6. CASE d = e
    BY SMTT(30), <2>2, <2>3, <2>4, <2>5, <2>6
  <2>7. CASE d # e
    BY <2>2, <2>3, <2>4, <2>5, <2>7
  <2> QED
    BY <2>6, <2>7
<1>6. CASE WriteBackup
  <2> DEFINE e == DiskOf[dmPart]
  <2>1. /\ dmPc = "backup" /\ e \in DataDisks /\ dmPc' = "mount"
        /\ UNCHANGED <<dmPart, dmEntries, dmHeader, dmFsEnd, dmTorn>>
        /\ dmBackup' = [dmBackup EXCEPT ![e] = DiskEnd] \/ dmBackup' = dmBackup
        /\ dmKernel' = [dmKernel EXCEPT ![e] = DiskEnd] \/ dmKernel' = dmKernel
    BY <1>6, <1>b DEF WriteBackup
  <2> SUFFICES ASSUME NEW d \in DataDisks PROVE DiskTable(d)'
    BY DEF TableInv
  <2>2. DiskTable(d)
    BY DEF TableInv
  <2>3. /\ d # e => dmBackup'[d] = dmBackup[d] /\ dmKernel'[d] = dmKernel[d]
        /\ d = e => /\ dmBackup'[d] \in {dmBackup[d], DiskEnd}
                    /\ dmKernel'[d] \in {dmKernel[d], DiskEnd}
    BY <2>1, <1>c
  <2>4. /\ dmEntries[d] \in Ends /\ dmHeader[d] \in Ends /\ dmFsEnd[d] \in Ends
        /\ dmBackup[d] \in 0..DiskEnd /\ dmKernel[d] \in 0..DiskEnd
    BY <1>a
  <2> HIDE DEF e
  <2>5. CASE d = e
    BY <2>1, <2>2, <2>3, <2>4, <2>5 DEF DiskTable, Within, Grown, e
  <2>6. CASE d # e
    BY <2>1, <2>2, <2>3, <2>4, <2>6 DEF DiskTable, Within, Grown, e
  <2> QED
    BY <2>5, <2>6
<1>7. CASE MountData
  <2>1. /\ UNCHANGED <<dmEntries, dmHeader, dmBackup, dmKernel, dmTorn>>
        /\ dmPc = "mount" /\ dmPc' \notin {"header", "backup"}
    BY <1>7 DEF MountData
  <2>2. \A d \in DataDisks : dmFsEnd'[d] \in {dmFsEnd[d], dmKernel[d]}
    BY <1>7, <1>c DEF MountData
  <2> QED
    BY <2>1, <2>2, <1>d
<1>8. CASE RecreateData
  <2>1. /\ UNCHANGED <<dmEntries, dmHeader, dmBackup, dmKernel, dmTorn>>
        /\ dmPc = "format" /\ dmPc' \notin {"header", "backup"}
    BY <1>8 DEF RecreateData
  <2>2. \A d \in DataDisks : dmFsEnd'[d] \in {dmFsEnd[d], dmKernel[d]}
    BY <1>8, <1>c DEF RecreateData
  <2> QED
    BY <2>1, <2>2, <1>d
<1>9. CASE PowerCycle
  <2>1. /\ dmPc' = "next" /\ UNCHANGED <<dmEntries, dmHeader, dmBackup, dmFsEnd>>
        /\ dmTorn' = IF dmPc = "header" THEN dmTorn \union {DiskOf[dmPart]} ELSE dmTorn
        /\ \A d \in DataDisks : dmKernel'[d] = KernelView(d)
    BY <1>9 DEF PowerCycle
  <2> SUFFICES ASSUME NEW d \in DataDisks PROVE DiskTable(d)'
    BY DEF TableInv
  <2>2. DiskTable(d)
    BY DEF TableInv
  <2>3. /\ dmEntries[d] \in Ends /\ dmHeader[d] \in Ends /\ dmFsEnd[d] \in Ends
        /\ dmBackup[d] \in 0..DiskEnd /\ dmKernel'[d] = KernelView(d)
    BY <1>a, <2>1
  <2> QED
    <3>1. /\ dmEntries'[d] = dmEntries[d] /\ dmHeader'[d] = dmHeader[d] /\ dmBackup'[d] = dmBackup[d]
          /\ dmFsEnd'[d] = dmFsEnd[d] /\ dmPc' = "next" /\ (d \in dmTorn => d \in dmTorn')
          /\ dmPc = "header" /\ DiskOf[dmPart] = d => d \in dmTorn'
      BY <2>1
    <3>2. Within(d, KernelView(d))
      BY SMTT(30), <2>2, <2>3 DEF DiskTable, Within, Grown, KernelView
    <3>3. Within(d, dmKernel[d])'
      BY <2>3, <3>1, <3>2 DEF Within, Grown
    <3> QED
      BY <2>2, <3>1, <3>3 DEF DiskTable, Within, Grown
<1>10. CASE UNCHANGED dmVars
  BY <1>10 DEF dmVars, TableInv, DiskTable, Within, Grown
<1> QED
  BY <1>1, <1>2, <1>3, <1>4, <1>5, <1>6, <1>7, <1>8, <1>9, <1>10 DEF DataMountNext

\* Growing the data partition leaves a table that can be read and a file system within it,
\* whichever write fails and whenever power is lost, for any disks and over any number of
\* boots (grow_gpt_partition, grow_ext4_online).
THEOREM GrowthIsAlwaysSafe == DataMountSpec => []GrowthIsSafe
<1>1. DataMountInit => TableInv
  <2> SUFFICES ASSUME DataMountInit, NEW d \in DataDisks PROVE DiskTable(d)
    BY DEF TableInv
  <2>1. /\ dmEntries[d] \in Ends /\ dmHeader[d] = dmEntries[d] /\ dmKernel[d] = dmEntries[d]
        /\ dmBackup[d] \in {0, dmEntries[d]} /\ dmFsEnd[d] \in Ends /\ dmFsEnd[d] <= dmEntries[d]
        /\ dmPc = "next"
    BY DEF DataMountInit
  <2> QED
    BY <2>1 DEF DiskTable, Within, Grown
<1>2. DataMountTypeOK /\ TableInv => GrowthIsSafe
  <2> SUFFICES ASSUME DataMountTypeOK, TableInv, NEW d \in DataDisks
               PROVE  /\ KernelView(d) # 0 => dmFsEnd[d] <= KernelView(d)
                      /\ d \notin dmTorn =>
                            KernelView(d) # 0 \/ (dmPc = "header" /\ DiskOf[dmPart] = d)
    BY DEF GrowthIsSafe, FileSystemFits, TableSurvives
  <2>1. /\ dmEntries[d] \in Ends /\ dmHeader[d] \in Ends /\ dmFsEnd[d] \in Ends
        /\ dmBackup[d] \in 0..DiskEnd
    BY DEF DataMountTypeOK
  <2>2. DiskTable(d)
    BY DEF TableInv
  <2> QED
    BY SMTT(30), <2>1, <2>2 DEF DiskTable, Within, Grown, KernelView
<1> QED
  BY <1>1, <1>2, MountTypeInit, MountTypeNext, ActiveNext, TableInvNext, PTL DEF DataMountSpec

HIDE DataMountAssumption DEF Parts, Tmpfs, Ends, dmDisk, dmHistory, NoFault

-----------------------------------------------------------------------------
(* WiFi: types *)

NetTables == [NetIds -> [ssid: Ssids \union {Absent, 0}, key: Keys]]
CallStates ==
    [op: Ops \union {"none"}, at: Commands \union {"none"}, waiting: {0, 1},
     ssid: Ssids \union {0}, psk: Keys \union {"short"}, id: NetIds, new: {0, 1},
     seen: {0, 1}, calm: {0, 1}, told: {"nothing", "success", "error"}]
Queries == [c: Commands, id: NetIds, ssid: Ssids \union {0}, psk: Keys \union {"short"}]
Answers ==
    {r \in [kind: {"ok", "fail", "none", "list", "status", "id"}, id: NetIds \union {0, 1},
            nets: NetTables] : r.kind = "id" => r.id \in NetIds}

\* The commands that each operation of the manager sends.
Steps(op) ==
    CASE op = "connect" -> {"list", "add", "ssid", "key", "bssid", "select", "status", "remove",
                            "save"}
      [] op = "forget" -> {"list", "remove", "save"}
      [] op = "list" -> {"list"}
      [] op = "status" -> {"status"}
      [] op = "disconnect" -> {"disconnect"}
      [] OTHER -> {}

UnderWay(k) == k.op # "none" /\ k.told = "nothing"
GoodCalls == {k \in CallStates : UnderWay(k) => k.at \in Steps(k.op)}

\* The type, with the datagrams under way.
WiFiBase ==
    /\ WiFiTypeOK
    /\ wfCall \in [WifiCallers -> GoodCalls]
    /\ wfRequests \in Seq(Queries) /\ wfReplies \in Seq(Answers)
    /\ wfLate \in Nat /\ wfDaemons \in Nat

\* The parts of it that are not about calls.
NetsOK ==
    /\ wfNets \in NetTables /\ wfConf \in NetTables
    /\ wfCurrent \in NetIds \union {Absent} /\ wfLinked \in {0, 1}
WireOK == wfSocket \in {0, 1} /\ wfRequests \in Seq(Queries) /\ wfReplies \in Seq(Answers)
CallsOK == wfCall \in [WifiCallers -> GoodCalls]
WiFiCountsOK ==
    /\ wfSpoiled \subseteq Ssids /\ wfCalls \in 0..MaxWifiCalls
    /\ wfLate \in Nat /\ wfDaemons \in Nat /\ wfLate + wfDaemons \in 0..MaxUpsets

LEMMA WiFiBaseIs == WiFiBase <=> NetsOK /\ WireOK /\ CallsOK /\ WiFiCountsOK
<1>1. ASSUME NetsOK, WireOK, CallsOK, WiFiCountsOK PROVE WiFiBase
  <2>1. wfCall \in [WifiCallers -> CallStates]
    BY <1>1 DEF CallsOK, GoodCalls
  <2>2. \A k \in DOMAIN wfRequests : wfRequests[k].c \in Commands
    <3>1. wfRequests \in Seq(Queries) /\ \A q \in Queries : q.c \in Commands
      BY <1>1 DEF WireOK, Queries
    <3> QED
      BY <3>1
  <2>3. {wfNets, wfConf} \subseteq NetTables
    BY <1>1 DEF NetsOK
  <2>4. WiFiTypeOK
    BY <1>1, <2>1, <2>2, <2>3 DEF WiFiTypeOK, CallStates, NetTables, NetsOK, WireOK, WiFiCountsOK
  <2> QED
    BY <1>1, <2>4 DEF WiFiBase, CallsOK, WireOK, WiFiCountsOK
<1>2. ASSUME WiFiBase PROVE NetsOK /\ WireOK /\ CallsOK /\ WiFiCountsOK
  <2>1. wfNets \in NetTables /\ wfConf \in NetTables
    BY <1>2 DEF WiFiBase, WiFiTypeOK, NetTables
  <2> QED
    BY <1>2, <2>1 DEF WiFiBase, WiFiTypeOK, NetsOK, WireOK, CallsOK, WiFiCountsOK
<1> QED
  BY <1>1, <1>2

LEMMA WiFiFacts ==
  /\ 0 \in NetIds /\ NetIds \subseteq Nat /\ Absent \notin NetIds /\ NoNet \in [ssid: Ssids \union {Absent, 0}, key: Keys]
  /\ NoNets \in NetTables /\ Rest \in GoodCalls /\ MaxWifiCalls \in Nat /\ MaxUpsets \in Nat
  /\ Ok \in Answers /\ Fail \in Answers /\ Silence \in Answers
<1>1. 0 \in NetIds /\ NetIds \subseteq Nat /\ Absent \notin NetIds
  BY WiFiAssumption DEF NetIds, Absent
<1>2. NoNet \in [ssid: Ssids \union {Absent, 0}, key: Keys]
  BY DEF NoNet, Net, Keys
<1>3. NoNets \in NetTables
  BY <1>2 DEF NoNets, NetTables
<1>4. Rest \in GoodCalls
  BY <1>1 DEF Rest, GoodCalls, CallStates, UnderWay, Keys
<1>5. \A kind \in {"ok", "fail", "none"} : Reply(kind, 0, NoNets) \in Answers
  BY <1>3 DEF Reply, Answers
<1> QED
  BY <1>1, <1>2, <1>3, <1>4, <1>5, WiFiAssumption DEF Ok, Fail, Silence

\* The first of some networks is one of them.
LEMMA FirstOfType ==
  ASSUME NEW S \in SUBSET NetIds, S # {}
  PROVE  FirstOf(S) \in S
<1>1. S \subseteq Nat
  BY WiFiFacts
<1>2. PICK n \in S : \A m \in S : n <= m
  BY <1>1, LeastOf
<1> QED
  BY <1>2 DEF FirstOf

\* What follows a reply is a legal state of the call.
LEMMA SendsGood ==
  ASSUME NEW k \in GoodCalls, UnderWay(k), NEW cmd \in Steps(k.op) \intersect Commands
  PROVE  /\ Sends(k, cmd) \in GoodCalls
         /\ \A n \in NetIds, b \in {0, 1} : /\ [Sends(k, cmd) EXCEPT !.id = n] \in GoodCalls
                                            /\ [Sends(k, cmd) EXCEPT !.new = b] \in GoodCalls
                                            /\ [Sends(k, cmd) EXCEPT !.id = n, !.new = b] \in GoodCalls
  BY ZenonT(40) DEF Sends, GoodCalls, CallStates, UnderWay

LEMMA ReturnsGood ==
  ASSUME NEW k \in GoodCalls, NEW told \in {"success", "error"}
  PROVE  Returns(k, told) \in GoodCalls
  BY DEF Returns, GoodCalls, CallStates, UnderWay

LEMMA AfterReplyGood ==
  ASSUME NEW k \in GoodCalls, UnderWay(k), NEW r \in Answers
  PROVE  AfterReply(k, r) \subseteq GoodCalls
<1>a. k.at \in Steps(k.op) /\ k.op \in Ops
  BY DEF GoodCalls, UnderWay, CallStates
<1>b. Returns(k, "success") \in GoodCalls /\ Returns(k, "error") \in GoodCalls
  BY ReturnsGood
<1>c. k.op = "connect" => /\ k.at \in {"list", "add", "ssid", "key", "bssid", "select", "status",
                                       "remove", "save"}
                          /\ \A cmd \in {"add", "ssid", "key", "bssid", "select", "status",
                                         "remove", "save"} : cmd \in Steps(k.op) \intersect Commands
  BY <1>a DEF Steps, Commands
<1>d. k.op = "forget" => /\ k.at \in {"list", "remove", "save"}
                         /\ \A cmd \in {"remove", "save"} : cmd \in Steps(k.op) \intersect Commands
  BY <1>a DEF Steps, Commands
<1>e. /\ k.op = "list" => k.at = "list"
      /\ k.op = "status" => k.at = "status"
      /\ k.op = "disconnect" => k.at = "disconnect"
  BY <1>a DEF Steps
<1>f. ASSUME NEW cmd \in {"add", "ssid", "key", "bssid", "select", "status", "remove", "save"},
             k.op = "connect" \/ (k.op = "forget" /\ cmd \in {"remove", "save"})
      PROVE  /\ Sends(k, cmd) \in GoodCalls
             /\ \A n \in NetIds, b \in {0, 1} : /\ [Sends(k, cmd) EXCEPT !.id = n] \in GoodCalls
                                                /\ [Sends(k, cmd) EXCEPT !.new = b] \in GoodCalls
                                                /\ [Sends(k, cmd) EXCEPT !.id = n, !.new = b] \in GoodCalls
  BY <1>c, <1>d, <1>f, SendsGood
<1>1. CASE k.at = "list"
  <2> DEFINE found == FoundIn(r, k.ssid)
  <2>1. found # {} => FirstOf(found) \in NetIds
    <3>1. found \in SUBSET NetIds
      BY DEF FoundIn
    <3> QED
      BY <3>1, FirstOfType
  <2>2. AfterReply(k, r) = AfterList(k, r)
    BY <1>1 DEF AfterReply
  <2>3. CASE k.op = "connect" /\ found # {}
    <3>1. AfterReply(k, r) = {[Sends(k, "bssid") EXCEPT !.id = FirstOf(found), !.new = 0]}
      BY <2>2, <2>3 DEF AfterList
    <3> HIDE DEF found
    <3>2. PICK n \in NetIds : n = FirstOf(found)
      BY <2>1, <2>3
    <3>3. [Sends(k, "bssid") EXCEPT !.id = n, !.new = 0] \in GoodCalls
      BY <2>3, <1>f
    <3> QED
      BY <3>1, <3>2, <3>3
  <2>4. CASE k.op = "connect" /\ found = {}
    <3>1. AfterReply(k, r) = {[Sends(k, "add") EXCEPT !.new = 1]}
      BY <2>2, <2>4 DEF AfterList
    <3> QED
      BY <3>1, <2>4, <1>f, WiFiFacts
  <2>5. CASE k.op = "forget" /\ found # {}
    <3>1. AfterReply(k, r) = {[Sends(k, "remove") EXCEPT !.id = FirstOf(found)]}
      BY <2>2, <2>5 DEF AfterList
    <3> HIDE DEF found
    <3>2. PICK n \in NetIds : n = FirstOf(found)
      BY <2>1, <2>5
    <3>3. [Sends(k, "remove") EXCEPT !.id = n] \in GoodCalls
      BY <2>5, <1>f
    <3> QED
      BY <3>1, <3>2, <3>3
  <2>6. CASE ~(k.op = "connect") /\ ~(k.op = "forget" /\ found # {})
    <3>1. AfterList(k, r) = {Returns(k, IF k.op = "list" THEN "success" ELSE "error")}
      <4>1. /\ ~(k.op = "connect" /\ FoundIn(r, k.ssid) # {})
            /\ ~(k.op = "connect" /\ FoundIn(r, k.ssid) = {})
            /\ ~(k.op = "forget" /\ FoundIn(r, k.ssid) # {})
        BY <2>6
      <4> QED
        BY <4>1, Zenon DEF AfterList
    <3> QED
      BY <3>1, <2>2, <1>b
  <2> QED
    BY <2>3, <2>4, <2>5, <2>6
<1>2. CASE k.at = "add"
  <2>1. k.op = "connect"
    BY <1>2, <1>a, <1>d, <1>e DEF Ops
  <2>2. AfterReply(k, r) = {IF r.kind = "id" THEN [Sends(k, "ssid") EXCEPT !.id = r.id]
                            ELSE Returns(k, "error")}
    BY <1>2 DEF AfterReply
  <2>3. r.kind = "id" => r.id \in NetIds
    BY DEF Answers
  <2>4. r.kind = "id" => [Sends(k, "ssid") EXCEPT !.id = r.id] \in GoodCalls
    BY <2>1, <2>3, <1>f
  <2> QED
    BY <2>2, <2>4, <1>b
<1>3. CASE k.at \in {"ssid", "key", "bssid", "select"}
  <2>1. k.op = "connect"
    BY <1>3, <1>a, <1>d, <1>e DEF Ops
  <2>2. AfterReply(k, r) \subseteq {Sends(k, "key"), Sends(k, "bssid"), Sends(k, "select"),
                                     Sends(k, "status"), Returns(k, "error")}
    <3>1. CASE k.at = "ssid"
      BY <3>1 DEF AfterReply, OnOk
    <3>2. CASE k.at = "key"
      BY <3>2 DEF AfterReply, OnOk
    <3>3. CASE k.at = "bssid"
      BY <3>3 DEF AfterReply, OnOk
    <3>4. CASE k.at = "select"
      BY <3>4 DEF AfterReply, OnOk
    <3> QED
      BY <1>3, <3>1, <3>2, <3>3, <3>4
  <2> QED
    BY <2>1, <2>2, <1>b, <1>f
<1>4. CASE k.at = "status"
  <2>1. k.op \in {"connect", "status"}
    BY <1>4, <1>a, <1>d, <1>e DEF Ops
  <2>2. AfterReply(k, r) = AfterStatus(k, r)
    BY <1>4 DEF AfterReply
  <2>3. k.op = "connect" => AfterStatus(k, r) \subseteq
           {Sends(k, "save"), Sends(k, "status"), Sends(k, "remove"), Returns(k, "error")}
    BY DEF AfterStatus
  <2>4. k.op = "status" => AfterStatus(k, r) = {Returns(k, "success")}
    BY DEF AfterStatus
  <2> QED
    BY <2>1, <2>2, <2>3, <2>4, <1>b, <1>f
<1>5. CASE k.at = "remove"
  <2>1. k.op \in {"connect", "forget"}
    BY <1>5, <1>a, <1>e DEF Ops
  <2>2. k.op = "connect" => AfterReply(k, r) = {Returns(k, "error")}
    BY <1>5 DEF AfterReply
  <2>3. k.op = "forget" => AfterReply(k, r) \subseteq {Sends(k, "save"), Returns(k, "error")}
    BY <1>5 DEF AfterReply, OnOk
  <2> QED
    BY <2>1, <2>2, <2>3, <1>b, <1>f
<1>6. CASE k.at \in {"disconnect", "save"}
  <2>1. AfterReply(k, r) \subseteq {Returns(k, "success"), Returns(k, "error")}
    BY <1>6 DEF AfterReply, OnOk
  <2> QED
    BY <2>1, <1>b
<1> QED
  BY <1>a, <1>c, <1>d, <1>e, <1>1, <1>2, <1>3, <1>4, <1>5, <1>6 DEF Ops

\* One call goes on.
LEMMA CallGoesOn ==
  ASSUME CallsOK, NEW c \in WifiCallers, NEW r \in Answers, InCall(c)
  PROVE  \A next \in AfterReply(wfCall[c], r) :
            next \in GoodCalls /\ [next EXCEPT !.calm = 0] \in GoodCalls
<1>1. wfCall[c] \in GoodCalls /\ UnderWay(wfCall[c])
  BY DEF CallsOK, InCall, UnderWay
<1>2. \A k \in GoodCalls : [k EXCEPT !.calm = 0] \in GoodCalls
  BY DEF GoodCalls, CallStates, UnderWay
<1> QED
  BY <1>1, <1>2, AfterReplyGood

LEMMA CallStartType ==
  ASSUME WiFiBase, NEW c \in WifiCallers, NEW op \in Ops, NEW ssid \in Ssids \union {0},
         NEW psk \in Keys \union {"short"}, psk = "short" => ssid \in Ssids,
         CallStart(c, op, ssid, psk)
  PROVE  WiFiBase'
<1>a. NetsOK /\ WireOK /\ CallsOK /\ WiFiCountsOK
  BY WiFiBaseIs
<1> DEFINE others == {d \in WifiCallers \ {c} : InCall(d)}
           calm == IF others = {} THEN 1 ELSE 0
           seen == IF wfLinked = 1 /\ wfNets[wfCurrent].ssid = ssid THEN 1 ELSE 0
           new == [Rest EXCEPT !.op = op, !.at = FirstCommand(op), !.ssid = ssid, !.psk = psk,
                               !.calm = calm, !.seen = seen]
<1>1. calm \in {0, 1} /\ seen \in {0, 1}
  OBVIOUS
<1>2. FirstCommand(op) \in Steps(op) /\ FirstCommand(op) \in Commands
  <2>1. op \in {"connect", "forget", "list"} => FirstCommand(op) = "list"
    BY DEF FirstCommand
  <2>2. op = "disconnect" => FirstCommand(op) = "disconnect"
    BY DEF FirstCommand
  <2>3. op = "status" => FirstCommand(op) = "status"
    BY DEF FirstCommand
  <2> QED
    BY <2>1, <2>2, <2>3 DEF Steps, Commands, Ops
<1>3. wfCall' = [d \in WifiCallers |->
          IF d = c THEN new
          ELSE IF d \in others THEN [wfCall[d] EXCEPT !.calm = 0] ELSE wfCall[d]]
  BY DEF CallStart
<1>4. new \in GoodCalls
  <2> HIDE DEF calm, seen
  <2>1. Rest \in CallStates
    BY WiFiFacts DEF GoodCalls
  <2>2. new \in CallStates
    BY <2>1, <1>1, <1>2 DEF CallStates
  <2>3. new.op = op /\ new.at = FirstCommand(op)
    BY <2>1 DEF CallStates
  <2> HIDE DEF new
  <2> QED
    BY <2>2, <2>3, <1>2 DEF GoodCalls
<1>5. \A k \in GoodCalls : [k EXCEPT !.calm = 0] \in GoodCalls
  BY DEF GoodCalls, CallStates, UnderWay
<1>6. CallsOK'
  <2> HIDE DEF new, others
  <2> QED
    BY <1>3, <1>4, <1>5, <1>a DEF CallsOK
<1>7. wfSpoiled' \subseteq Ssids
  <2>1. wfSpoiled' = IF others # {} THEN Ssids
                     ELSE IF psk = "short" THEN wfSpoiled \union {ssid} ELSE wfSpoiled
    BY DEF CallStart
  <2> HIDE DEF others
  <2> QED
    BY <2>1, <1>a DEF WiFiCountsOK
<1>8. wfCalls < MaxWifiCalls /\ wfCalls' = wfCalls + 1
      /\ UNCHANGED <<wfSocket, wfRequests, wfReplies, wfDaemon, wfLate, wfDaemons>>
  BY DEF CallStart
<1>9. NetsOK' /\ WireOK'
  BY <1>8, <1>a DEF NetsOK, WireOK, wfDaemon
<1>10. WiFiCountsOK'
  <2>1. wfCalls' \in 0..MaxWifiCalls
    BY <1>8, <1>a, WiFiFacts DEF WiFiCountsOK
  <2> QED
    BY <2>1, <1>7, <1>8, <1>a DEF WiFiCountsOK
<1>11. (NetsOK /\ WireOK /\ CallsOK /\ WiFiCountsOK)' => WiFiBase'
  BY WiFiBaseIs, PTL
<1> QED
  BY <1>6, <1>9, <1>10, <1>11

\* A reply is one of those that the manager understands.
LEMMA ReplyTypes ==
  /\ \A nets \in NetTables : Reply("list", 0, nets) \in Answers
  /\ \A b \in {0, 1} : Reply("status", b, NoNets) \in Answers
  /\ \A n \in NetIds : Reply("id", n, NoNets) \in Answers
  BY WiFiFacts DEF Reply, Answers

LEMMA DaemonAnswersType ==
  ASSUME WiFiBase, DaemonAnswers
  PROVE  WiFiBase'
<1>a. NetsOK /\ WireOK /\ CallsOK /\ WiFiCountsOK
  BY WiFiBaseIs
<1>b. PICK q \in Queries : q = Head(wfRequests)
  BY <1>a DEF DaemonAnswers, WireOK
<1>c. q.id \in NetIds /\ q.ssid \in Ssids \union {0}
  BY DEF Queries
<1>d. wfNets \in NetTables /\ wfConf \in NetTables /\ wfLinked \in {0, 1}
      /\ wfCurrent \in NetIds \union {Absent}
  BY <1>a DEF NetsOK
<1>e. /\ \A n \in NetIds : [wfNets EXCEPT ![n] = NoNet] \in NetTables
      /\ \A n \in NetIds : [wfNets EXCEPT ![n] = Net(0, "none")] \in NetTables
      /\ \A n \in NetIds, s \in Ssids \union {0} : [wfNets EXCEPT ![n].ssid = s] \in NetTables
      /\ \A n \in NetIds, k \in Keys : [wfNets EXCEPT ![n].key = k] \in NetTables
  BY <1>d, WiFiFacts DEF NetTables, Net, Keys
<1>f. NewId \in NetIds \union {Absent}
  <2>1. Above \in SUBSET NetIds
    BY DEF Above
  <2> QED
    BY <2>1, FirstOfType DEF NewId
<1>1. NetsOK'
  <2>1. wfNets' \in NetTables
    <3>1. \/ wfNets' = wfNets
          \/ wfNets' = [wfNets EXCEPT ![NewId] = Net(0, "none")] /\ NewId # Absent
          \/ wfNets' = [wfNets EXCEPT ![q.id].ssid = q.ssid]
          \/ wfNets' = [wfNets EXCEPT ![q.id].key = q.psk] /\ q.psk \in Keys
          \/ wfNets' = [wfNets EXCEPT ![q.id] = NoNet]
      BY <1>b DEF DaemonAnswers, wfDaemon
    <3> QED
      BY <3>1, <1>c, <1>d, <1>e, <1>f
  <2>2. wfConf' \in NetTables
    <3>1. wfConf' = wfConf \/ wfConf' = wfNets
      BY DEF DaemonAnswers, wfDaemon
    <3> QED
      BY <3>1, <1>d
  <2>3. wfCurrent' \in NetIds \union {Absent} /\ wfLinked' \in {0, 1}
    <3>1. wfCurrent' = wfCurrent \/ wfCurrent' = q.id \/ wfCurrent' = Absent
      BY <1>b DEF DaemonAnswers, wfDaemon
    <3>2. wfLinked' = wfLinked \/ wfLinked' = 0
      BY <1>b DEF DaemonAnswers, wfDaemon
    <3> QED
      BY <3>1, <3>2, <1>c, <1>d
  <2> QED
    BY <2>1, <2>2, <2>3 DEF NetsOK
<1>2. WireOK'
  <2>1. \E r \in Answers : wfReplies' = Append(wfReplies, r)
    <3>1. \/ wfReplies' = Append(wfReplies, Ok)
          \/ wfReplies' = Append(wfReplies, Fail)
          \/ wfReplies' = Append(wfReplies, Reply("list", 0, wfNets))
          \/ wfReplies' = Append(wfReplies, Reply("status", wfLinked, NoNets))
          \/ NewId # Absent /\ wfReplies' = Append(wfReplies, Reply("id", NewId, NoNets))
      BY <1>b DEF DaemonAnswers
    <3>2. /\ Ok \in Answers /\ Fail \in Answers /\ Reply("list", 0, wfNets) \in Answers
          /\ Reply("status", wfLinked, NoNets) \in Answers
          /\ NewId # Absent => Reply("id", NewId, NoNets) \in Answers
      BY <1>d, <1>f, WiFiFacts, ReplyTypes
    <3> QED
      BY <3>1, <3>2
  <2>2. wfRequests # <<>> /\ wfRequests' = Tail(wfRequests) /\ wfSocket' = wfSocket
    BY DEF DaemonAnswers
  <2>3. wfReplies' \in Seq(Answers)
    BY <2>1, <1>a DEF WireOK
  <2>4. wfRequests' \in Seq(Queries)
    BY <2>2, <1>a DEF WireOK
  <2> QED
    BY <2>2, <2>3, <2>4, <1>a DEF WireOK
<1>3. CallsOK' /\ WiFiCountsOK'
  <2>1. UNCHANGED <<wfCall, wfSocket, wfSpoiled, wfCalls, wfLate, wfDaemons>>
    BY DEF DaemonAnswers
  <2> QED
    BY <2>1, <1>a DEF CallsOK, WiFiCountsOK
<1>4. (NetsOK /\ WireOK /\ CallsOK /\ WiFiCountsOK)' => WiFiBase'
  BY WiFiBaseIs, PTL
<1> QED
  BY <1>1, <1>2, <1>3, <1>4

\* Every step keeps the types.
LEMMA WiFiBaseNext == WiFiBase /\ [WiFiNext]_wfVars => WiFiBase'
<1> SUFFICES ASSUME WiFiBase, [WiFiNext]_wfVars PROVE WiFiBase'
  OBVIOUS
<1>a. NetsOK /\ WireOK /\ CallsOK /\ WiFiCountsOK
  BY WiFiBaseIs
<1>b. (NetsOK /\ WireOK /\ CallsOK /\ WiFiCountsOK)' => WiFiBase'
  BY WiFiBaseIs, PTL
<1>c. ASSUME NEW c \in WifiCallers, NEW k \in GoodCalls, wfCall' = [wfCall EXCEPT ![c] = k]
      PROVE  CallsOK'
  BY <1>c, <1>a DEF CallsOK
<1>d. \A k \in GoodCalls : /\ [k EXCEPT !.calm = 0] \in GoodCalls
                           /\ [k EXCEPT !.seen = 1] \in GoodCalls
                           /\ [k EXCEPT !.waiting = 1] \in GoodCalls
  BY DEF GoodCalls, CallStates, UnderWay
<1>1. ASSUME NEW c \in WifiCallers, NEW s \in Ssids, NEW k \in {"right", "wrong", "short"},
             CallStart(c, "connect", s, k)
      PROVE  WiFiBase'
  <2>1. "connect" \in Ops /\ k \in Keys \union {"short"}
    BY DEF Ops, Keys
  <2> QED
    BY <1>1, <2>1, CallStartType
<1>2. ASSUME NEW c \in WifiCallers, NEW s \in Ssids, CallStart(c, "forget", s, "none") PROVE WiFiBase'
  <2>1. "forget" \in Ops /\ "none" \in Keys \union {"short"} /\ "none" # "short"
    BY DEF Ops, Keys
  <2> QED
    BY <1>2, <2>1, CallStartType
<1>3. ASSUME NEW c \in WifiCallers, NEW op \in {"disconnect", "list", "status"},
             CallStart(c, op, 0, "none")
      PROVE  WiFiBase'
  <2>1. op \in Ops /\ "none" \in Keys \union {"short"} /\ "none" # "short"
    BY DEF Ops, Keys
  <2> QED
    BY <1>3, <2>1, CallStartType
<1>4. ASSUME NEW c \in WifiCallers, SendCommand(c) PROVE WiFiBase'
  <2>1. wfCall[c] \in GoodCalls /\ UnderWay(wfCall[c])
    BY <1>4, <1>a DEF CallsOK, SendCommand, InCall, UnderWay
  <2>2. wfCall[c].at \in Commands
    BY <2>1 DEF GoodCalls, UnderWay, Steps, Commands
  <2>3. [c |-> wfCall[c].at, id |-> wfCall[c].id, ssid |-> wfCall[c].ssid, psk |-> wfCall[c].psk] \in Queries
    BY <2>1, <2>2 DEF GoodCalls, CallStates, Queries
  <2>4. wfCall' = [wfCall EXCEPT ![c] = [wfCall[c] EXCEPT !.waiting = 1]]
    BY <1>4 DEF SendCommand
  <2>5. CallsOK'
    BY <2>1, <2>4, <1>c, <1>d
  <2>6. wfRequests' \in Seq(Queries)
    BY <2>3, <1>4, <1>a DEF SendCommand, WireOK
  <2>7. UNCHANGED <<wfSocket, wfReplies, wfDaemon, wfSpoiled, wfCalls, wfLate, wfDaemons>>
    BY <1>4 DEF SendCommand
  <2> QED
    BY <1>a, <1>b, <2>5, <2>6, <2>7 DEF WireOK, NetsOK, WiFiCountsOK, wfDaemon
<1>5. ASSUME NEW c \in WifiCallers, SendFails(c) PROVE WiFiBase'
  <2>1. CallsOK'
    <3>1. PICK next \in AfterReply(wfCall[c], Silence) :
             wfCall' = [wfCall EXCEPT ![c] = [next EXCEPT !.calm = 0]]
      BY <1>5 DEF SendFails
    <3>2. [next EXCEPT !.calm = 0] \in GoodCalls
      BY <1>5, <1>a, CallGoesOn, WiFiFacts DEF SendFails
    <3> QED
      BY <3>1, <3>2, <1>c
  <2>2. /\ wfSocket' = 1 /\ wfReplies' = <<>>
        /\ UNCHANGED <<wfRequests, wfDaemon, wfSpoiled, wfCalls, wfLate, wfDaemons>>
    BY <1>5 DEF SendFails
  <2> QED
    BY <1>a, <1>b, <2>1, <2>2 DEF WireOK, NetsOK, WiFiCountsOK, wfDaemon
<1>6. ASSUME NEW c \in WifiCallers, TakeReply(c) PROVE WiFiBase'
  <2>1. PICK r \in Answers : r = Head(wfReplies)
    BY <1>6, <1>a DEF TakeReply, WireOK
  <2>2. CallsOK'
    <3>1. PICK next \in AfterReply(wfCall[c], r) : wfCall' = [wfCall EXCEPT ![c] = next]
      BY <1>6, <2>1 DEF TakeReply
    <3>2. next \in GoodCalls
      BY <1>6, <1>a, CallGoesOn DEF TakeReply
    <3> QED
      BY <3>1, <3>2, <1>c
  <2>3. /\ wfReplies # <<>> /\ wfReplies' = Tail(wfReplies)
        /\ UNCHANGED <<wfSocket, wfRequests, wfDaemon, wfSpoiled, wfCalls, wfLate, wfDaemons>>
    BY <1>6 DEF TakeReply
  <2>4. WireOK'
    BY <2>3, <1>a DEF WireOK
  <2> QED
    BY <1>a, <1>b, <2>2, <2>3, <2>4 DEF NetsOK, WiFiCountsOK, wfDaemon
<1>7. ASSUME NEW c \in WifiCallers, ReplyTimeout(c) PROVE WiFiBase'
  <2>1. CallsOK'
    <3>1. PICK next \in AfterReply(wfCall[c], Silence) : wfCall' = [wfCall EXCEPT ![c] = next]
      BY <1>7 DEF ReplyTimeout
    <3>2. next \in GoodCalls
      BY <1>7, <1>a, CallGoesOn, WiFiFacts DEF ReplyTimeout
    <3> QED
      BY <3>1, <3>2, <1>c
  <2>2. UNCHANGED <<wfSocket, wfRequests, wfReplies, wfDaemon, wfCalls, wfDaemons>>
    BY <1>7 DEF ReplyTimeout
  <2>3. \/ UNCHANGED <<wfLate, wfSpoiled>>
        \/ wfLate + wfDaemons < MaxUpsets /\ wfLate' = wfLate + 1 /\ wfSpoiled' = Ssids
    BY <1>7 DEF ReplyTimeout, Upset
  <2>4. WiFiCountsOK'
    BY <2>2, <2>3, <1>a, WiFiFacts DEF WiFiCountsOK
  <2> QED
    BY <1>a, <1>b, <2>1, <2>2, <2>4 DEF WireOK, NetsOK, wfDaemon
<1>8. CASE LinkUp
  <2>1. CallsOK'
    <3>1. wfCall' = [c \in WifiCallers |->
             IF InCall(c) /\ wfNets[wfCurrent].ssid = wfCall[c].ssid
             THEN [wfCall[c] EXCEPT !.seen = 1] ELSE wfCall[c]]
      BY <1>8 DEF LinkUp
    <3> QED
      BY <3>1, <1>a, <1>d DEF CallsOK
  <2>2. /\ wfLinked' = 1
        /\ UNCHANGED <<wfSocket, wfRequests, wfReplies, wfNets, wfConf, wfCurrent, wfSpoiled, wfCalls,
                       wfLate, wfDaemons>>
    BY <1>8 DEF LinkUp
  <2> QED
    BY <1>a, <1>b, <2>1, <2>2 DEF WireOK, NetsOK, WiFiCountsOK
<1>9. CASE DaemonRestarts
  <2>1. CallsOK'
    <3>1. wfCall' = [c \in WifiCallers |-> IF InCall(c) THEN [wfCall[c] EXCEPT !.calm = 0]
                                           ELSE wfCall[c]]
      BY <1>9 DEF DaemonRestarts
    <3> QED
      BY <3>1, <1>a, <1>d DEF CallsOK
  <2>2. /\ wfLate + wfDaemons < MaxUpsets /\ wfDaemons' = wfDaemons + 1
        /\ wfNets' = wfConf /\ wfLinked' = 0 /\ wfCurrent' \in NetIds \union {Absent}
        /\ wfRequests' = <<>> /\ wfSocket' = 0
        /\ UNCHANGED <<wfReplies, wfConf, wfSpoiled, wfCalls, wfLate>>
    BY <1>9 DEF DaemonRestarts, Upset
  <2>3. WiFiCountsOK'
    BY <2>2, <1>a, WiFiFacts DEF WiFiCountsOK
  <2> QED
    BY <1>a, <1>b, <2>1, <2>2, <2>3 DEF WireOK, NetsOK
<1>10. CASE UNCHANGED wfVars
  BY <1>10, <1>a, <1>b DEF wfVars, NetsOK, WireOK, CallsOK, WiFiCountsOK
<1> QED
  BY <1>1, <1>2, <1>3, <1>4, <1>5, <1>6, <1>7, <1>8, <1>9, <1>10, DaemonAnswersType DEF WiFiNext

LEMMA WiFiBaseInit == WiFiInit => WiFiBase
<1> SUFFICES ASSUME WiFiInit PROVE NetsOK /\ WireOK /\ CallsOK /\ WiFiCountsOK
  BY WiFiBaseIs
<1>1. wfConf \in NetTables
  <2>1. \A s \in Ssids, k \in {"right", "wrong"} : [NoNets EXCEPT ![0] = Net(s, k)] \in NetTables
    BY WiFiFacts DEF NetTables, Net, Keys
  <2> QED
    BY <2>1, WiFiFacts DEF WiFiInit
<1> QED
  BY <1>1, WiFiFacts DEF WiFiInit, NetsOK, WireOK, CallsOK, WiFiCountsOK

\* The state of the manager and of the daemon has its type: a command names a network that the
\* table can hold, also when the reply that led to it was meant for another command (wpa, connect,
\* forget).
THEOREM WiFiTypeCorrect == WiFiSpec => []WiFiTypeOK
<1>1. WiFiBase => WiFiTypeOK
  BY DEF WiFiBase
<1> QED
  BY <1>1, WiFiBaseInit, WiFiBaseNext, PTL DEF WiFiSpec

-----------------------------------------------------------------------------
(* WiFi: a call and what is under way in the socket *)

\* A request that the call k has sent as its command cmd, and the replies that may come to it;
\* "any" stands for what an earlier call has left.
Own(k, cmd, q) ==
    \/ cmd = "any"
    \/ /\ q.c = cmd /\ q.ssid = k.ssid /\ q.psk = k.psk
       /\ cmd \notin {"list", "add"} => q.id = k.id
Fits(cmd, r) ==
    /\ cmd = "list" => r.kind = "list"
    /\ cmd = "status" => r.kind = "status"
    /\ cmd = "add" => r.kind \in {"id", "fail"}
    /\ cmd \in {"ssid", "key", "bssid", "select", "remove", "save", "disconnect"} =>
          r.kind \in {"ok", "fail"}

\* The j-th datagram under way, replies before requests, is about the command cmd of k.
Outstanding == Len(wfReplies) + Len(wfRequests)
Item(j, k, cmd) ==
    IF j <= Len(wfReplies) THEN Fits(cmd, wfReplies[j])
    ELSE Own(k, cmd, wfRequests[j - Len(wfReplies)])

\* Before what the call k now waits for, if it waits, there is nothing, a, or a and b.
Pend0(k) == Outstanding = k.waiting /\ (k.waiting = 1 => Item(1, k, k.at))
Pend1(k, a) ==
    Outstanding = 1 + k.waiting /\ Item(1, k, a) /\ (k.waiting = 1 => Item(2, k, k.at))
Pend2(k, a, b) ==
    /\ Outstanding = 2 + k.waiting /\ Item(1, k, a) /\ Item(2, k, b)
    /\ k.waiting = 1 => Item(3, k, k.at)

\* What a reply does to a call.
LEMMA AfterReplyKeeps ==
  ASSUME NEW k \in GoodCalls, UnderWay(k), NEW r \in Answers, NEW next \in AfterReply(k, r)
  PROVE  /\ next.op = k.op /\ next.ssid = k.ssid /\ next.psk = k.psk /\ next.seen = k.seen
         /\ next.calm = k.calm /\ next.waiting = 0
<1>a. k.at \in Steps(k.op) /\ k.op \in Ops /\ k \in CallStates
  BY DEF GoodCalls, UnderWay, CallStates
<1>b. k.at \in {"list", "add", "ssid", "key", "bssid", "select", "status", "remove", "save",
                "disconnect"} /\ (k.at = "remove" => k.op \in {"connect", "forget"})
  BY <1>a DEF Steps, Ops
<1> DEFINE Kept(n) == /\ n.op = k.op /\ n.ssid = k.ssid /\ n.psk = k.psk /\ n.seen = k.seen
                      /\ n.calm = k.calm /\ n.waiting = 0
<1>c. \A told : Kept(Returns(k, told))
  BY <1>a DEF Returns, CallStates
<1>d. /\ \A cmd : Kept(Sends(k, cmd))
      /\ \A cmd, n : Kept([Sends(k, cmd) EXCEPT !.id = n])
      /\ \A cmd, n : Kept([Sends(k, cmd) EXCEPT !.new = n])
      /\ \A cmd, n, b : Kept([Sends(k, cmd) EXCEPT !.id = n, !.new = b])
  BY <1>a DEF Sends, CallStates
<1> HIDE DEF Kept
<1>1. CASE k.at = "list"
  <2>1. next \in AfterList(k, r)
    BY <1>1 DEF AfterReply
  <2>2. \/ \E cmd, n : next = [Sends(k, cmd) EXCEPT !.id = n, !.new = 0]
        \/ \E cmd : next = [Sends(k, cmd) EXCEPT !.new = 1]
        \/ \E cmd, n : next = [Sends(k, cmd) EXCEPT !.id = n]
        \/ \E told : next = Returns(k, told)
    <3>1. CASE k.op = "connect" /\ FoundIn(r, k.ssid) # {}
      BY <2>1, <3>1 DEF AfterList
    <3>2. CASE k.op = "connect" /\ FoundIn(r, k.ssid) = {}
      BY <2>1, <3>2 DEF AfterList
    <3>3. CASE k.op = "forget" /\ FoundIn(r, k.ssid) # {}
      BY <2>1, <3>3 DEF AfterList
    <3>4. CASE /\ ~(k.op = "connect" /\ FoundIn(r, k.ssid) # {})
               /\ ~(k.op = "connect" /\ FoundIn(r, k.ssid) = {})
               /\ ~(k.op = "forget" /\ FoundIn(r, k.ssid) # {})
      <4>1. AfterList(k, r) = {Returns(k, IF k.op = "list" THEN "success" ELSE "error")}
        BY <3>4, Zenon DEF AfterList
      <4> QED
        BY <2>1, <4>1
    <3> QED
      BY <3>1, <3>2, <3>3, <3>4
  <2>3. Kept(next)
    <3>1. ASSUME NEW cmd, NEW n, next = [Sends(k, cmd) EXCEPT !.id = n, !.new = 0] PROVE Kept(next)
      BY <3>1, <1>d, Zenon
    <3>2. ASSUME NEW cmd, next = [Sends(k, cmd) EXCEPT !.new = 1] PROVE Kept(next)
      BY <3>2, <1>d, Zenon
    <3>3. ASSUME NEW cmd, NEW n, next = [Sends(k, cmd) EXCEPT !.id = n] PROVE Kept(next)
      BY <3>3, <1>d, Zenon
    <3> QED
      BY <2>2, <3>1, <3>2, <3>3, <1>c, Zenon
  <2> QED
    BY <2>3 DEF Kept
<1>2. CASE k.at = "add"
  <2>1. next = [Sends(k, "ssid") EXCEPT !.id = r.id] \/ next = Returns(k, "error")
    <3>1. AfterReply(k, r) = {IF r.kind = "id" THEN [Sends(k, "ssid") EXCEPT !.id = r.id]
                              ELSE Returns(k, "error")}
      BY <1>2 DEF AfterReply
    <3> QED
      BY <3>1
  <2>2. Kept(next)
    <3>1. ASSUME NEW n, next = [Sends(k, "ssid") EXCEPT !.id = n] PROVE Kept(next)
      BY <3>1, <1>d, Zenon
    <3>2. \E n : n = r.id
      OBVIOUS
    <3> QED
      BY <2>1, <3>1, <3>2, <1>c
  <2> QED
    BY <2>2 DEF Kept
<1>3. CASE k.at \notin {"list", "add"}
  <2>1. \/ \E cmd : next = Sends(k, cmd)
        \/ \E told : next = Returns(k, told)
    <3>1. CASE k.at = "status"
      BY <3>1 DEF AfterReply, AfterStatus
    <3>2. CASE k.at \in {"ssid", "key", "select", "disconnect"}
      BY <3>2 DEF AfterReply, OnOk
    <3>3. CASE k.at \in {"bssid", "save"}
      BY <3>3 DEF AfterReply
    <3>4. CASE k.at = "remove"
      BY <3>4, <1>b DEF AfterReply, OnOk
    <3> QED
      BY <1>3, <1>b, <3>1, <3>2, <3>3, <3>4
  <2>2. Kept(next)
    BY <2>1, <1>c, <1>d
  <2> QED
    BY <2>2 DEF Kept
<1> QED
  BY <1>1, <1>2, <1>3

\* How connect() goes on.
LEMMA ConnectGoesOn ==
  ASSUME NEW k \in GoodCalls, UnderWay(k), k.op = "connect", NEW r \in Answers,
         NEW next \in AfterReply(k, r)
  PROVE  /\ k.at = "list" =>
               \/ /\ next.at = "bssid" /\ next.new = 0 /\ next.told = "nothing"
                  /\ r.kind = "list" /\ r.nets[next.id].ssid = k.ssid
               \/ next.at = "add" /\ next.new = 1 /\ next.told = "nothing"
         /\ k.at = "add" =>
               \/ /\ r.kind = "id" /\ next.at = "ssid" /\ next.id = r.id /\ next.new = k.new
                  /\ next.told = "nothing"
               \/ r.kind # "id" /\ next.told = "error"
         /\ k.at \notin {"list", "add"} => next.id = k.id /\ next.new = k.new
         /\ k.at = "ssid" => \/ r.kind = "ok" /\ next.at = "key" /\ next.told = "nothing"
                             \/ r.kind # "ok" /\ next.told = "error"
         /\ k.at = "key" => \/ r.kind = "ok" /\ next.at = "bssid" /\ next.told = "nothing"
                            \/ r.kind # "ok" /\ next.told = "error"
         /\ k.at = "bssid" => next.at = "select" /\ next.told = "nothing"
         /\ k.at = "select" => \/ r.kind = "ok" /\ next.at = "status" /\ next.told = "nothing"
                               \/ r.kind # "ok" /\ next.told = "error"
         /\ k.at = "status" =>
               \/ r.kind = "status" /\ r.id = 1 /\ next.at = "save" /\ next.told = "nothing"
               \/ /\ ~(r.kind = "status" /\ r.id = 1)
                  /\ \/ next.at = "status" /\ next.told = "nothing"
                     \/ k.new = 1 /\ next.at = "remove" /\ next.told = "nothing"
                     \/ k.new # 1 /\ next.told = "error"
         /\ k.at = "remove" => next.told = "error"
         /\ k.at = "save" => next.told = "success"
<1>a. k \in CallStates /\ k.told = "nothing"
  BY DEF GoodCalls, UnderWay
<1>b. \A told : /\ Returns(k, told).told = told /\ Returns(k, told).id = k.id
                /\ Returns(k, told).new = k.new
  BY <1>a DEF Returns, CallStates
<1>c. \A cmd : /\ Sends(k, cmd).at = cmd /\ Sends(k, cmd).told = "nothing"
               /\ Sends(k, cmd).id = k.id /\ Sends(k, cmd).new = k.new
  BY <1>a DEF Sends, CallStates
<1>1. CASE k.at = "list"
  <2>1. CASE FoundIn(r, k.ssid) # {}
    <3>1. PICK n \in FoundIn(r, k.ssid) : n = FirstOf(FoundIn(r, k.ssid))
      BY <2>1, FirstOfType DEF FoundIn
    <3>2. next = [Sends(k, "bssid") EXCEPT !.id = n, !.new = 0]
      BY <1>1, <2>1, <3>1 DEF AfterReply, AfterList
    <3>3. next.at = "bssid" /\ next.new = 0 /\ next.told = "nothing" /\ next.id = n
      BY <3>2, <1>a DEF Sends, CallStates
    <3> QED
      BY <3>1, <3>3, <1>1 DEF FoundIn
  <2>2. CASE FoundIn(r, k.ssid) = {}
    <3>1. next = [Sends(k, "add") EXCEPT !.new = 1]
      BY <1>1, <2>2 DEF AfterReply, AfterList
    <3>2. next.at = "add" /\ next.new = 1 /\ next.told = "nothing"
      BY <3>1, <1>a DEF Sends, CallStates
    <3> QED
      BY <3>2, <1>1
  <2> QED
    BY <2>1, <2>2
<1>2. CASE k.at = "add"
  <2>1. AfterReply(k, r) = {IF r.kind = "id" THEN [Sends(k, "ssid") EXCEPT !.id = r.id]
                            ELSE Returns(k, "error")}
    BY <1>2 DEF AfterReply
  <2>2. CASE r.kind = "id"
    <3>1. next = [Sends(k, "ssid") EXCEPT !.id = r.id]
      BY <2>1, <2>2
    <3>2. next.at = "ssid" /\ next.told = "nothing" /\ next.id = r.id /\ next.new = k.new
      BY <3>1, <1>a DEF Sends, CallStates
    <3> QED
      BY <3>2, <2>2, <1>2
  <2>3. CASE r.kind # "id"
    <3>1. next = Returns(k, "error")
      BY <2>1, <2>3
    <3> QED
      BY <3>1, <2>3, <1>b, <1>2
  <2> QED
    BY <2>2, <2>3
<1>3. CASE k.at = "ssid"
  <2>1. next = IF r.kind = "ok" THEN Sends(k, "key") ELSE Returns(k, "error")
    BY <1>3 DEF AfterReply, OnOk
  <2> QED
    BY <2>1, <1>3, <1>b, <1>c
<1>4. CASE k.at = "key"
  <2>1. next = IF r.kind = "ok" THEN Sends(k, "bssid") ELSE Returns(k, "error")
    BY <1>4 DEF AfterReply, OnOk
  <2> QED
    BY <2>1, <1>4, <1>b, <1>c
<1>5. CASE k.at = "bssid"
  <2>1. next = Sends(k, "select")
    BY <1>5 DEF AfterReply
  <2> QED
    BY <2>1, <1>5, <1>c
<1>6. CASE k.at = "select"
  <2>1. next = IF r.kind = "ok" THEN Sends(k, "status") ELSE Returns(k, "error")
    BY <1>6 DEF AfterReply, OnOk
  <2> QED
    BY <2>1, <1>6, <1>b, <1>c
<1>7. CASE k.at = "status"
  <2>1. next \in AfterStatus(k, r)
    BY <1>7 DEF AfterReply
  <2>2. CASE r.kind = "status" /\ r.id = 1
    <3>1. next = Sends(k, "save")
      BY <2>1, <2>2 DEF AfterStatus
    <3> QED
      BY <3>1, <2>2, <1>7, <1>c
  <2>3. CASE ~(r.kind = "status" /\ r.id = 1)
    <3>1. \/ next = Sends(k, "status")
          \/ k.new = 1 /\ next = Sends(k, "remove")
          \/ k.new # 1 /\ next = Returns(k, "error")
      BY <2>1, <2>3 DEF AfterStatus
    <3> QED
      BY <3>1, <2>3, <1>7, <1>b, <1>c
  <2> QED
    BY <2>2, <2>3
<1>8. CASE k.at = "remove"
  <2>1. next = Returns(k, "error")
    BY <1>8 DEF AfterReply
  <2> QED
    BY <2>1, <1>8, <1>b
<1>9. CASE k.at = "save"
  <2>1. next = Returns(k, "success")
    BY <1>9 DEF AfterReply
  <2> QED
    BY <2>1, <1>9, <1>b
<1>10. k.at \in {"list", "add", "ssid", "key", "bssid", "select", "status", "remove", "save"}
  BY DEF GoodCalls, UnderWay, Steps
<1> QED
  BY <1>1, <1>2, <1>3, <1>4, <1>5, <1>6, <1>7, <1>8, <1>9, <1>10

\* The other operations end, or go on with a removal or a save.
LEMMA OthersGoOn ==
  ASSUME NEW k \in GoodCalls, UnderWay(k), k.op # "connect", NEW r \in Answers,
         NEW next \in AfterReply(k, r)
  PROVE  next.told # "nothing" \/ next.at \in {"remove", "save"}
<1>a. k \in CallStates /\ k.op \in Ops /\ k.at \in Steps(k.op)
  BY DEF GoodCalls, UnderWay, CallStates
<1>b. \A told : Returns(k, told).told = told
  BY <1>a DEF Returns, CallStates
<1>c. \A cmd : Sends(k, cmd).at = cmd /\ \A n : [Sends(k, cmd) EXCEPT !.id = n].at = cmd
  BY <1>a DEF Sends, CallStates
<1>1. CASE k.at = "list"
  <2>1. next \in AfterList(k, r)
    BY <1>1 DEF AfterReply
  <2>2. CASE k.op = "forget" /\ FoundIn(r, k.ssid) # {}
    <3>1. next = [Sends(k, "remove") EXCEPT !.id = FirstOf(FoundIn(r, k.ssid))]
      BY <2>1, <2>2 DEF AfterList
    <3>2. next.at = "remove"
      BY <3>1, <1>a DEF Sends, CallStates
    <3> QED
      BY <3>2
  <2>3. CASE ~(k.op = "forget" /\ FoundIn(r, k.ssid) # {})
    <3>1. /\ ~(k.op = "connect" /\ FoundIn(r, k.ssid) # {})
          /\ ~(k.op = "connect" /\ FoundIn(r, k.ssid) = {})
      OBVIOUS
    <3>2. AfterList(k, r) = {Returns(k, IF k.op = "list" THEN "success" ELSE "error")}
      BY <2>3, <3>1, Zenon DEF AfterList
    <3>3. next = Returns(k, "success") \/ next = Returns(k, "error")
      BY <2>1, <3>2
    <3> QED
      BY <3>3, <1>b
  <2> QED
    BY <2>2, <2>3
<1>2. CASE k.at = "status"
  <2>1. k.op = "status"
    BY <1>2, <1>a DEF Steps, Ops
  <2>2. next = Returns(k, "success")
    BY <1>2, <2>1 DEF AfterReply, AfterStatus
  <2> QED
    BY <2>2, <1>b
<1>3. CASE k.at = "remove"
  <2>1. k.op = "forget"
    BY <1>3, <1>a DEF Steps, Ops
  <2>2. next = Sends(k, "save") \/ next = Returns(k, "error")
    BY <1>3, <2>1 DEF AfterReply, OnOk
  <2> QED
    BY <2>2, <1>b, <1>c
<1>4. CASE k.at \in {"save", "disconnect"}
  <2>1. next = Returns(k, "success") \/ next = Returns(k, "error")
    BY <1>4 DEF AfterReply, OnOk
  <2> QED
    BY <2>1, <1>b
<1>5. k.at \in {"list", "status", "remove", "save", "disconnect"}
  BY <1>a DEF Steps, Ops
<1> QED
  BY <1>1, <1>2, <1>3, <1>4, <1>5

\* The daemon answers each command with a reply of its kind.
LEMMA AnswerFits ==
  ASSUME WiFiBase, DaemonAnswers
  PROVE  \E r \in Answers : wfReplies' = Append(wfReplies, r) /\ Fits(Head(wfRequests).c, r)
<1>a. NetsOK /\ NewId \in NetIds \union {Absent}
  <2>1. Above \in SUBSET NetIds
    BY DEF Above
  <2> QED
    BY <2>1, FirstOfType, WiFiBaseIs DEF NewId
<1>b. /\ Ok \in Answers /\ Fail \in Answers /\ Reply("list", 0, wfNets) \in Answers
      /\ Reply("status", wfLinked, NoNets) \in Answers
      /\ NewId # Absent => Reply("id", NewId, NoNets) \in Answers
  BY <1>a, WiFiFacts, ReplyTypes DEF NetsOK
<1>c. /\ Ok.kind = "ok" /\ Fail.kind = "fail" /\ Reply("list", 0, wfNets).kind = "list"
      /\ Reply("status", wfLinked, NoNets).kind = "status"
      /\ Reply("id", NewId, NoNets).kind = "id"
  BY DEF Ok, Fail, Reply
<1> DEFINE q == Head(wfRequests)
<1>1. \/ q.c = "list" /\ wfReplies' = Append(wfReplies, Reply("list", 0, wfNets))
      \/ q.c = "status" /\ wfReplies' = Append(wfReplies, Reply("status", wfLinked, NoNets))
      \/ q.c = "add" /\ NewId # Absent /\ wfReplies' = Append(wfReplies, Reply("id", NewId, NoNets))
      \/ q.c = "add" /\ wfReplies' = Append(wfReplies, Fail)
      \/ /\ q.c \notin {"list", "status", "add"}
         /\ wfReplies' = Append(wfReplies, Ok) \/ wfReplies' = Append(wfReplies, Fail)
  BY DEF DaemonAnswers
<1>2. CASE q.c = "list" /\ wfReplies' = Append(wfReplies, Reply("list", 0, wfNets))
  BY <1>2, <1>b, <1>c DEF Fits
<1>3. CASE q.c = "status" /\ wfReplies' = Append(wfReplies, Reply("status", wfLinked, NoNets))
  BY <1>3, <1>b, <1>c DEF Fits
<1>4. CASE q.c = "add" /\ NewId # Absent /\ wfReplies' = Append(wfReplies, Reply("id", NewId, NoNets))
  BY <1>4, <1>b, <1>c DEF Fits
<1>5. CASE q.c = "add" /\ wfReplies' = Append(wfReplies, Fail)
  BY <1>5, <1>b, <1>c DEF Fits
<1>6. CASE q.c \notin {"list", "status", "add"} /\ wfReplies' = Append(wfReplies, Ok)
  BY <1>6, <1>b, <1>c DEF Fits
<1>7. CASE q.c \notin {"list", "status", "add"} /\ wfReplies' = Append(wfReplies, Fail)
  BY <1>7, <1>b, <1>c DEF Fits
<1> QED
  BY <1>1, <1>2, <1>3, <1>4, <1>5, <1>6, <1>7

\* What happens to the datagrams when the daemon answers, a command is sent, a reply is taken.
LEMMA ItemAnswer ==
  ASSUME WiFiBase, DaemonAnswers
  PROVE  /\ Outstanding' = Outstanding
         /\ \A j \in 1..Outstanding : \A k, cmd : Item(j, k, cmd) => Item(j, k, cmd)'
<1>a. wfRequests \in Seq(Queries) /\ wfReplies \in Seq(Answers) /\ wfRequests # <<>>
      /\ wfRequests' = Tail(wfRequests)
  BY WiFiBaseIs DEF DaemonAnswers, WireOK
<1>b. PICK r \in Answers : wfReplies' = Append(wfReplies, r) /\ Fits(Head(wfRequests).c, r)
  BY AnswerFits
<1>1. /\ Len(wfReplies) \in Nat /\ Len(wfRequests) \in Nat \ {0}
      /\ Len(wfReplies') = Len(wfReplies) + 1 /\ Len(wfRequests') = Len(wfRequests) - 1
      /\ \A j \in 1..Len(wfReplies) : wfReplies'[j] = wfReplies[j]
      /\ wfReplies'[Len(wfReplies) + 1] = r
      /\ \A j \in 1..(Len(wfRequests) - 1) : wfRequests'[j] = wfRequests[j + 1]
      /\ wfRequests[1] = Head(wfRequests)
  BY <1>a, <1>b
<1>2. Outstanding' = Outstanding
  BY <1>1 DEF Outstanding
<1>3. ASSUME NEW j \in 1..Outstanding, NEW k, NEW cmd, Item(j, k, cmd) PROVE Item(j, k, cmd)'
  <2>1. CASE j <= Len(wfReplies)
    BY <1>1, <1>3, <2>1 DEF Item, Outstanding
  <2>2. CASE j = Len(wfReplies) + 1
    <3>1. Own(k, cmd, Head(wfRequests))
      BY <1>1, <1>3, <2>2 DEF Item
    <3>2. Fits(cmd, r)
      BY <3>1, <1>b DEF Own, Fits
    <3> QED
      BY <1>1, <2>2, <3>2 DEF Item
  <2>3. CASE j > Len(wfReplies) + 1
    <3>1. j - Len(wfReplies') \in 1..(Len(wfRequests) - 1) /\ ~(j <= Len(wfReplies'))
          /\ ~(j <= Len(wfReplies)) /\ (j - Len(wfReplies')) + 1 = j - Len(wfReplies)
      BY <1>1, <2>3 DEF Outstanding
    <3>2. wfRequests'[j - Len(wfReplies')] = wfRequests[j - Len(wfReplies)]
      BY <1>1, <3>1
    <3> QED
      BY <1>3, <3>1, <3>2 DEF Item, Own
  <2> QED
    BY <2>1, <2>2, <2>3, <1>1 DEF Outstanding
<1> QED
  BY <1>2, <1>3

LEMMA ItemSend ==
  ASSUME WireOK, NEW q \in Queries, wfReplies' = wfReplies, wfRequests' = Append(wfRequests, q)
  PROVE  /\ Outstanding \in Nat /\ Outstanding' = Outstanding + 1
         /\ \A j \in 1..Outstanding : \A k, cmd : Item(j, k, cmd) => Item(j, k, cmd)'
         /\ \A j, k, cmd : j = Outstanding + 1 /\ Own(k, cmd, q) => Item(j, k, cmd)'
<1>1. /\ Len(wfReplies) \in Nat /\ Len(wfRequests) \in Nat /\ Len(wfReplies') = Len(wfReplies)
      /\ Len(wfRequests') = Len(wfRequests) + 1
      /\ \A j \in 1..Len(wfRequests) : wfRequests'[j] = wfRequests[j]
      /\ wfRequests'[Len(wfRequests) + 1] = q
  BY DEF WireOK
<1>2. ASSUME NEW j \in 1..Outstanding, NEW k, NEW cmd, Item(j, k, cmd) PROVE Item(j, k, cmd)'
  <2>1. CASE j <= Len(wfReplies)
    BY <1>2, <2>1 DEF Item
  <2>2. CASE ~(j <= Len(wfReplies))
    <3>1. j - Len(wfReplies) \in 1..Len(wfRequests)
      BY <1>1, <2>2 DEF Outstanding
    <3>2. wfRequests'[j - Len(wfReplies)] = wfRequests[j - Len(wfReplies)]
      BY <1>1, <3>1
    <3> QED
      BY <1>2, <2>2, <3>2 DEF Item, Own
  <2> QED
    BY <2>1, <2>2
<1>3. ASSUME NEW j, NEW k, NEW cmd, j = Outstanding + 1, Own(k, cmd, q) PROVE Item(j, k, cmd)'
  <2>1. ~(j <= Len(wfReplies)) /\ j - Len(wfReplies) = Len(wfRequests) + 1
    BY <1>1, <1>3 DEF Outstanding
  <2>2. wfRequests'[j - Len(wfReplies')] = q /\ ~(j <= Len(wfReplies'))
    BY <1>1, <2>1
  <2> QED
    BY <1>3, <2>2 DEF Item, Own
<1> QED
  BY <1>1, <1>2, <1>3 DEF Outstanding

LEMMA ItemTake ==
  ASSUME WireOK, wfReplies # <<>>, wfReplies' = Tail(wfReplies), wfRequests' = wfRequests
  PROVE  /\ Outstanding \in Nat /\ Outstanding' = Outstanding - 1
         /\ \A j \in Nat \ {0} : \A k, cmd : Item(j + 1, k, cmd) => Item(j, k, cmd)'
         /\ \A k, cmd : Item(1, k, cmd) => Fits(cmd, Head(wfReplies))
<1>1. /\ Len(wfReplies) \in Nat \ {0} /\ Len(wfRequests) \in Nat
      /\ Len(wfReplies') = Len(wfReplies) - 1
      /\ \A j \in 1..(Len(wfReplies) - 1) : wfReplies'[j] = wfReplies[j + 1]
      /\ Head(wfReplies) = wfReplies[1]
  BY DEF WireOK
<1>2. ASSUME NEW j \in Nat \ {0}, NEW k, NEW cmd, Item(j + 1, k, cmd) PROVE Item(j, k, cmd)'
  <2>1. CASE j + 1 <= Len(wfReplies)
    BY <1>1, <1>2, <2>1 DEF Item, Fits
  <2>2. CASE ~(j + 1 <= Len(wfReplies))
    <3>1. ~(j <= Len(wfReplies')) /\ j - Len(wfReplies') = j + 1 - Len(wfReplies)
      BY <1>1, <2>2
    <3> QED
      BY <1>2, <2>2, <3>1 DEF Item, Own
  <2> QED
    BY <2>1, <2>2
<1>3. ASSUME NEW k, NEW cmd, Item(1, k, cmd) PROVE Fits(cmd, Head(wfReplies))
  BY <1>1, <1>3 DEF Item
<1> QED
  BY <1>1, <1>2, <1>3 DEF Outstanding

\* Two states of a call have sent the same.
LEMMA ItemOther ==
  ASSUME NEW k, NEW k2, k2.ssid = k.ssid, k2.psk = k.psk, NEW j, NEW cmd, Item(j, k, cmd),
         k2.id = k.id \/ cmd \in {"any", "list", "add"}
  PROVE  Item(j, k2, cmd)
  BY DEF Item, Own

LEMMA ItemSame ==
  ASSUME wfReplies' = wfReplies, wfRequests' = wfRequests
  PROVE  Outstanding' = Outstanding /\ \A j, k, cmd : Item(j, k, cmd) => Item(j, k, cmd)'
  BY DEF Outstanding, Item, Own, Fits

\* Before what the call waits for, as the datagrams move.
LEMMA PendAnswer ==
  ASSUME WiFiBase, DaemonAnswers, NEW k \in GoodCalls
  PROVE  /\ Pend0(k) => Pend0(k)'
         /\ \A a : Pend1(k, a) => Pend1(k, a)'
         /\ \A a, b : Pend2(k, a, b) => Pend2(k, a, b)'
<1>1. k.waiting \in {0, 1}
  BY DEF GoodCalls, CallStates
<1>2. Outstanding' = Outstanding
  BY ItemAnswer
<1>3. \A j \in 1..Outstanding : \A cmd : Item(j, k, cmd) => Item(j, k, cmd)'
  BY ItemAnswer
<1>4. Pend0(k) => Pend0(k)'
  BY <1>1, <1>2, <1>3 DEF Pend0
<1>5. ASSUME NEW a, Pend1(k, a) PROVE Pend1(k, a)'
  BY <1>1, <1>2, <1>3, <1>5 DEF Pend1
<1>6. ASSUME NEW a, NEW b, Pend2(k, a, b) PROVE Pend2(k, a, b)'
  BY <1>1, <1>2, <1>3, <1>6 DEF Pend2
<1> QED
  BY <1>4, <1>5, <1>6

LEMMA PendSend ==
  ASSUME WireOK, NEW k \in GoodCalls, NEW k2 \in GoodCalls, NEW q \in Queries,
         k.waiting = 0, k2.waiting = 1, k2.ssid = k.ssid, k2.psk = k.psk, k2.id = k.id,
         k2.at = k.at, q.c = k.at, q.ssid = k.ssid, q.psk = k.psk, q.id = k.id,
         wfReplies' = wfReplies, wfRequests' = Append(wfRequests, q)
  PROVE  /\ Pend0(k) => Pend0(k2)'
         /\ \A a : Pend1(k, a) => Pend1(k2, a)'
         /\ \A a, b : Pend2(k, a, b) => Pend2(k2, a, b)'
<1>1. Outstanding \in Nat /\ Outstanding' = Outstanding + 1
  BY ItemSend
<1>2. ASSUME NEW j \in 1..Outstanding, NEW cmd, Item(j, k, cmd) PROVE Item(j, k2, cmd)'
  <2>1. Item(j, k, cmd)'
    BY <1>2, ItemSend
  <2> QED
    BY <2>1 DEF Item, Own
<1>3. ASSUME NEW j, j = Outstanding + 1 PROVE Item(j, k2, k2.at)'
  <2>1. Own(k2, k2.at, q)
    BY DEF Own
  <2> QED
    BY <1>3, <2>1, ItemSend
<1>4. Pend0(k) => Pend0(k2)'
  BY <1>1, <1>2, <1>3 DEF Pend0
<1>5. ASSUME NEW a, Pend1(k, a) PROVE Pend1(k2, a)'
  BY <1>1, <1>2, <1>3, <1>5 DEF Pend1
<1>6. ASSUME NEW a, NEW b, Pend2(k, a, b) PROVE Pend2(k2, a, b)'
  BY <1>1, <1>2, <1>3, <1>6 DEF Pend2
<1> QED
  BY <1>4, <1>5, <1>6

LEMMA PendTake ==
  ASSUME WireOK, NEW k \in GoodCalls, NEW k2 \in GoodCalls, k.waiting = 1, k2.waiting = 0,
         k2.ssid = k.ssid, k2.psk = k.psk, k2.id = k.id \/ k.at \in {"list", "add"},
         wfReplies # <<>>, wfReplies' = Tail(wfReplies), wfRequests' = wfRequests
  PROVE  /\ Pend0(k) => Pend0(k2)' /\ Fits(k.at, Head(wfReplies))
         /\ \A a : Pend1(k, a) => Pend1(k2, k.at)' /\ Fits(a, Head(wfReplies))
         /\ \A a, b : Pend2(k, a, b) /\ (k2.id = k.id \/ b \in {"any", "list", "add"}) =>
               Pend2(k2, b, k.at)' /\ Fits(a, Head(wfReplies))
<1>1. Outstanding \in Nat /\ Outstanding' = Outstanding - 1
  BY ItemTake
<1>2. ASSUME NEW j \in Nat \ {0}, NEW cmd, Item(j + 1, k, cmd),
             k2.id = k.id \/ cmd \in {"any", "list", "add"}
      PROVE  Item(j, k2, cmd)'
  <2>1. Item(j, k, cmd)'
    BY <1>2, ItemTake
  <2> QED
    BY <1>2, <2>1 DEF Item, Own
<1>3. \A cmd : Item(1, k, cmd) => Fits(cmd, Head(wfReplies))
  BY ItemTake
<1>4. Pend0(k) => Pend0(k2)' /\ Fits(k.at, Head(wfReplies))
  BY <1>1, <1>3 DEF Pend0
<1>5. ASSUME NEW a, Pend1(k, a) PROVE Pend1(k2, k.at)' /\ Fits(a, Head(wfReplies))
  <2>1. Item(1, k2, k.at)'
    BY <1>2, <1>5, 1 + 1 = 2 DEF Pend1
  <2> QED
    BY <1>1, <1>3, <1>5, <2>1 DEF Pend1
<1>6. ASSUME NEW a, NEW b, Pend2(k, a, b), k2.id = k.id \/ b \in {"any", "list", "add"}
      PROVE  Pend2(k2, b, k.at)' /\ Fits(a, Head(wfReplies))
  <2>1. Item(1, k2, b)'
    BY <1>2, <1>6, 1 + 1 = 2 DEF Pend2
  <2>2. Item(2, k2, k.at)'
    BY <1>2, <1>6, 2 + 1 = 3 DEF Pend2
  <2> QED
    BY <1>1, <1>3, <1>6, <2>1, <2>2 DEF Pend2
<1> QED
  BY <1>4, <1>5, <1>6

LEMMA PendLate ==
  ASSUME NEW k \in GoodCalls, NEW k2 \in GoodCalls, k.waiting = 1, k2.waiting = 0,
         k2.ssid = k.ssid, k2.psk = k.psk, k2.id = k.id \/ k.at = "list",
         wfReplies' = wfReplies, wfRequests' = wfRequests
  PROVE  /\ Pend0(k) => Pend1(k2, k.at)'
         /\ \A a : Pend1(k, a) /\ (k2.id = k.id \/ a = "any") => Pend2(k2, a, k.at)'
<1>1. Outstanding' = Outstanding
  BY ItemSame
<1>2. ASSUME NEW j, NEW cmd, Item(j, k, cmd), k2.id = k.id \/ cmd \in {"any", "list", "add"}
      PROVE  Item(j, k2, cmd)'
  <2>1. Item(j, k, cmd)'
    BY <1>2, ItemSame
  <2> QED
    BY <1>2, <2>1 DEF Item, Own
<1>3. Pend0(k) => Pend1(k2, k.at)'
  BY <1>1, <1>2 DEF Pend0, Pend1
<1>4. ASSUME NEW a, Pend1(k, a), k2.id = k.id \/ a = "any" PROVE Pend2(k2, a, k.at)'
  BY <1>1, <1>2, <1>4 DEF Pend1, Pend2
<1> QED
  BY <1>3, <1>4

LEMMA PendSame ==
  ASSUME NEW k, NEW k2, k2.ssid = k.ssid, k2.psk = k.psk, k2.id = k.id, k2.at = k.at,
         k2.waiting = k.waiting, wfReplies' = wfReplies, wfRequests' = wfRequests
  PROVE  /\ Pend0(k) => Pend0(k2)'
         /\ \A a : Pend1(k, a) => Pend1(k2, a)'
         /\ \A a, b : Pend2(k, a, b) => Pend2(k2, a, b)'
<1>1. Outstanding' = Outstanding
  BY ItemSame
<1>2. ASSUME NEW j, NEW cmd, Item(j, k, cmd) PROVE Item(j, k2, cmd)'
  <2>1. Item(j, k, cmd)'
    BY <1>2, ItemSame
  <2> QED
    BY <2>1 DEF Item, Own
<1> QED
  BY <1>1, <1>2 DEF Pend0, Pend1, Pend2

-----------------------------------------------------------------------------
(* WiFi: what connect() reports *)

\* The network of the call k has its name; it is selected, and a link to it has been seen.
Found(k) == wfNets[k.id].ssid = k.ssid
Selected(k) == wfCurrent = k.id /\ (wfLinked = 1 => k.seen = 1)
Replied(kind) == wfReplies # <<>> /\ wfReplies[1].kind = kind

\* While it polls, a connect gets no answer but those to SELECT_NETWORK and to STATUS.
Polling(k) ==
    /\ \A j \in 1..Len(wfReplies) :
          /\ wfReplies[j].kind \in {"ok", "fail", "status"}
          /\ wfReplies[j].kind = "status" /\ wfReplies[j].id = 1 => k.seen = 1
    /\ \A j \in 1..Len(wfRequests) :
          \/ wfRequests[j].c = "status"
          \/ j = 1 /\ wfRequests[j].c = "select" /\ wfRequests[j].id = k.id
    /\ wfRequests = <<>> \/ wfRequests[1].c = "status" => Selected(k)

\* How far two late replies can put a connect out of step with the daemon: after each command
\* either what it has been told is true or a reply of the wrong kind will end it.
Stage(k) ==
    /\ k.at = "list" =>
          \/ Pend0(k)
          \/ /\ Pend1(k, "any")
             /\ k.waiting = 1 /\ Replied("list") => wfReplies[1].nets = wfNets
          \/ Pend2(k, "any", "any")
    /\ k.at = "add" => Pend0(k) \/ Pend1(k, "list") \/ Pend2(k, "any", "list")
    /\ k.at = "ssid" => (Pend0(k) /\ (Replied("ok") => Found(k))) \/ Pend2(k, "list", "add")
    /\ k.at = "key" => Pend0(k) /\ Found(k)
    /\ k.at = "bssid" => \/ Found(k) /\ (Pend0(k) \/ Pend1(k, "list"))
                         \/ Pend2(k, "any", "list")
    /\ k.at = "select" =>
          \/ /\ Found(k) /\ (Pend0(k) \/ Pend1(k, "bssid"))
             /\ k.waiting = 1 /\ wfRequests = <<>> => Selected(k)
          \/ Pend2(k, "list", "bssid")
    /\ k.at = "status" => Found(k) /\ Polling(k)
    /\ k.at = "save" => k.seen = 1

Waiting == {c \in WifiCallers : InCall(c) /\ wfCall[c].waiting = 1}
LagInv == Outstanding <= wfLate + Cardinality(Waiting)
AloneInv ==
    \A c \in WifiCallers : InCall(c) /\ (wfCall[c].calm = 1 \/ wfSpoiled # Ssids) =>
        \A d \in WifiCallers : InCall(d) => d = c
SocketInv == wfSocket = 0 => wfRequests = <<>>
ListInv ==
    wfSocket = 1 /\ wfRequests = <<>> /\ wfReplies # <<>>
        /\ wfReplies[Len(wfReplies)].kind = "list" => wfReplies[Len(wfReplies)].nets = wfNets
Planned(k) ==
    /\ k.at \in {"add", "ssid", "key"} => k.new = 1
    /\ k.op = "connect" => k.ssid \in Ssids /\ k.psk # "none"
    /\ k.psk = "short" => k.ssid \in wfSpoiled
PlanInv ==
    /\ wfSpoiled # Ssids => wfLate = 0
    /\ \A c \in WifiCallers, k \in GoodCalls : k = wfCall[c] /\ UnderWay(k) => Planned(k)
Staged(k) ==
    k.op = "connect" /\ k.calm = 1 /\ wfLate <= 2 =>
        /\ UnderWay(k) /\ (k.at # "list" \/ k.waiting = 1) => wfSocket = 1
        /\ UnderWay(k) => Stage(k)
        /\ k.told = "success" => k.seen = 1
StageInv == \A c \in WifiCallers, k \in GoodCalls : k = wfCall[c] => Staged(k)

\* Without late replies and calls at the same time each reply is that to the last command.
Aligned(k) == Pend0(k) /\ (k.at = "key" \/ (k.at = "ssid" /\ Replied("ok")) => Found(k))
AlignedInv ==
    wfSpoiled # Ssids /\ wfSocket = 1 =>
        \A c \in WifiCallers, k \in GoodCalls : k = wfCall[c] /\ UnderWay(k) => Aligned(k)

\* A network without the right key is one that a connect under way will remove, if need be.
Dirty(net) == net.ssid \in Ssids \ wfSpoiled /\ net.key # "right"
Handles(k, n) ==
    /\ k.op = "connect" /\ k.new = 1 /\ k.id = n /\ k.ssid = wfNets[n].ssid
    /\ \/ k.at = "ssid" /\ Replied("ok")
       \/ k.at = "key" /\ (wfReplies # <<>> => Replied("ok") /\ wfNets[n].key = k.psk)
       \/ k.at = "bssid" /\ wfNets[n].key = k.psk
       \/ /\ k.at = "select" /\ wfNets[n].key = k.psk
          /\ wfReplies # <<>> => Replied("ok") /\ wfCurrent = n /\ wfLinked = 0
       \/ /\ k.at = "status" /\ wfNets[n].key = k.psk /\ wfCurrent = n /\ wfLinked = 0
          /\ wfReplies # <<>> => wfReplies[1].id = 0
       \/ k.at = "remove" /\ wfReplies = <<>>
DirtyInv ==
    /\ \A n \in NetIds : ~Dirty(wfConf[n])
    /\ \A n \in NetIds : Dirty(wfNets[n]) =>
          /\ wfSocket = 1
          /\ \E c \in WifiCallers, k \in GoodCalls :
                k = wfCall[c] /\ UnderWay(k) /\ Handles(k, n)

HonestInv ==
    /\ WiFiBase /\ LagInv /\ AloneInv /\ SocketInv /\ ListInv /\ PlanInv /\ StageInv
    /\ AlignedInv /\ DirtyInv

\* What the length of the queue says of its parts.
LEMMA QueueLengths ==
  ASSUME WireOK
  PROVE  /\ Outstanding \in Nat
         /\ Outstanding = 0 => wfReplies = <<>> /\ wfRequests = <<>>
         /\ wfReplies = <<>> => Outstanding = Len(wfRequests) /\ Len(wfReplies) = 0
         /\ wfReplies # <<>> => Len(wfReplies) \in Nat \ {0}
         /\ wfRequests # <<>> => Len(wfRequests) \in Nat \ {0}
         /\ wfRequests = <<>> => Outstanding = Len(wfReplies) /\ Len(wfRequests) = 0
         /\ wfReplies = <<>> /\ wfRequests = <<>> => Outstanding = 0
         /\ Outstanding = 1 /\ wfReplies # <<>> => wfRequests = <<>> /\ Len(wfReplies) = 1
         /\ Outstanding = 1 /\ wfRequests # <<>> => wfReplies = <<>> /\ Len(wfRequests) = 1
<1>1. /\ Len(wfReplies) \in Nat /\ Len(wfRequests) \in Nat
      /\ wfReplies = <<>> <=> Len(wfReplies) = 0
      /\ wfRequests = <<>> <=> Len(wfRequests) = 0
  BY DEF WireOK
<1> QED
  BY <1>1 DEF Outstanding

\* A connect keeps its stage when it sends a command.
LEMMA StageSend ==
  ASSUME WiFiBase, ListInv, wfSocket = 1, NEW k \in GoodCalls, NEW k2 \in GoodCalls,
         NEW q \in Queries, UnderWay(k), k.op = "connect", Stage(k),
         k.waiting = 0, k2.waiting = 1, k2.ssid = k.ssid, k2.psk = k.psk, k2.id = k.id,
         k2.at = k.at, k2.seen = k.seen, q.c = k.at, q.ssid = k.ssid, q.psk = k.psk, q.id = k.id,
         wfReplies' = wfReplies, wfRequests' = Append(wfRequests, q), UNCHANGED wfDaemon
  PROVE  Stage(k2)'
<1>a. WireOK
  BY WiFiBaseIs
<1>b. wfNets' = wfNets /\ wfCurrent' = wfCurrent /\ wfLinked' = wfLinked
  BY DEF wfDaemon
<1>c. /\ Pend0(k) => Pend0(k2)'
      /\ \A a : Pend1(k, a) => Pend1(k2, a)'
      /\ \A a, b : Pend2(k, a, b) => Pend2(k2, a, b)'
  BY <1>a, PendSend
<1>d. /\ Found(k) => Found(k2)'
      /\ Selected(k) => Selected(k2)'
  BY <1>b DEF Found, Selected
<1>e. /\ wfRequests' # <<>> /\ Len(wfRequests) \in Nat /\ Len(wfRequests') = Len(wfRequests) + 1
      /\ \A j \in 1..Len(wfRequests) : wfRequests'[j] = wfRequests[j]
      /\ wfRequests'[Len(wfRequests) + 1] = q
      /\ wfRequests # <<>> => Len(wfRequests) > 0
  BY <1>a DEF WireOK
<1>1. CASE k.at = "list"
  <2>1. ASSUME Pend1(k, "any"), Replied("list")' PROVE wfReplies'[1].nets = wfNets'
    <3>1. Outstanding = 1 /\ wfReplies # <<>> /\ wfReplies[1].kind = "list"
      BY <2>1 DEF Pend1, Replied
    <3>2. wfRequests = <<>> /\ Len(wfReplies) = 1
      BY <1>a, <3>1, QueueLengths
    <3> QED
      BY <3>1, <3>2, <1>b DEF ListInv
  <2> QED
    BY <1>1, <1>c, <2>1 DEF Stage
<1>2. CASE k.at = "ssid"
  <2>1. Pend0(k) => ~Replied("ok")'
    BY <1>a, QueueLengths DEF Pend0, Replied
  <2> QED
    BY <1>2, <1>c, <2>1 DEF Stage
<1>3. CASE k.at = "status"
  <2>1. Found(k) /\ Polling(k)
    BY <1>3 DEF Stage
  <2>2. Polling(k2)'
    <3>1. \A j \in 1..Len(wfRequests') :
             \/ wfRequests'[j].c = "status"
             \/ j = 1 /\ wfRequests'[j].c = "select" /\ wfRequests'[j].id = k2.id
      <4> SUFFICES ASSUME NEW j \in 1..Len(wfRequests')
                   PROVE  \/ wfRequests'[j].c = "status"
                          \/ j = 1 /\ wfRequests'[j].c = "select" /\ wfRequests'[j].id = k2.id
        OBVIOUS
      <4>1. CASE j = Len(wfRequests) + 1
        BY <4>1, <1>e, <1>3
      <4>2. CASE j \in 1..Len(wfRequests)
        <5>1. wfRequests'[j] = wfRequests[j]
          BY <4>2, <1>e
        <5> QED
          BY <2>1, <4>2, <5>1 DEF Polling
      <4> QED
        BY <4>1, <4>2, <1>e
    <3>2. wfRequests'[1].c = "status" => Selected(k2)'
      <4>1. CASE wfRequests = <<>>
        BY <2>1, <4>1, <1>d DEF Polling
      <4>2. CASE wfRequests # <<>>
        <5>1. wfRequests'[1] = wfRequests[1]
          BY <4>2, <1>e
        <5> QED
          BY <2>1, <4>2, <5>1, <1>d DEF Polling
      <4> QED
        BY <4>1, <4>2
    <3> QED
      BY <2>1, <3>1, <3>2, <1>e DEF Polling
  <2> QED
    BY <2>1, <2>2, <1>d, <1>3 DEF Stage
<1>4. CASE k.at \in {"add", "key", "bssid"}
  BY <1>4, <1>c, <1>d DEF Stage
<1>5. CASE k.at = "select"
  BY <1>5, <1>c, <1>d, <1>e DEF Stage
<1>6. CASE k.at \in {"save", "remove"}
  BY <1>6 DEF Stage
<1>7. k.at \in {"list", "add", "ssid", "key", "bssid", "select", "status", "remove", "save"}
  BY DEF GoodCalls, UnderWay, Steps
<1> QED
  BY <1>1, <1>2, <1>3, <1>4, <1>5, <1>6, <1>7

\* ... and when it takes a reply ...
LEMMA StageTake ==
  ASSUME WiFiBase, ListInv, wfSocket = 1, NEW k \in GoodCalls, UnderWay(k), k.op = "connect",
         k.waiting = 1, Stage(k), wfReplies # <<>>, NEW next \in AfterReply(k, Head(wfReplies)),
         wfReplies' = Tail(wfReplies), wfRequests' = wfRequests, UNCHANGED wfDaemon
  PROVE  (next.told = "nothing" => Stage(next)') /\ (next.told = "success" => next.seen = 1)
<1>a. WireOK /\ Head(wfReplies) \in Answers /\ Head(wfReplies) = wfReplies[1]
  BY WiFiBaseIs DEF WireOK
<1>b. wfNets' = wfNets /\ wfCurrent' = wfCurrent /\ wfLinked' = wfLinked
  BY DEF wfDaemon
<1>c. next \in GoodCalls
  BY <1>a, AfterReplyGood
<1>d. next.ssid = k.ssid /\ next.psk = k.psk /\ next.seen = k.seen /\ next.waiting = 0
  BY <1>a, AfterReplyKeeps
<1> DEFINE r == Head(wfReplies)
<1>e. next.id = k.id \/ k.at \in {"list", "add"}
  BY <1>a, ConnectGoesOn
<1>f. /\ Pend0(k) => Pend0(next)' /\ Fits(k.at, r)
      /\ \A a : Pend1(k, a) => Pend1(next, k.at)' /\ Fits(a, r)
      /\ \A a, b : Pend2(k, a, b) /\ (next.id = k.id \/ b \in {"any", "list", "add"}) =>
            Pend2(next, b, k.at)' /\ Fits(a, r)
  BY <1>a, <1>c, <1>d, <1>e, PendTake
<1>g. Pend0(k) => wfRequests = <<>> /\ Len(wfReplies) = 1 /\ wfReplies' = <<>>
  <2>1. Pend0(k) => wfRequests = <<>> /\ Len(wfReplies) = 1
    BY <1>a, QueueLengths DEF Pend0
  <2> QED
    BY <2>1, <1>a DEF WireOK
<1>h. next.id = k.id => (Found(k) => Found(next)') /\ (Selected(k) => Selected(next)')
  BY <1>b, <1>d DEF Found, Selected
<1>1. CASE k.at = "list"
  <2>1. \/ /\ next.at = "bssid" /\ next.told = "nothing" /\ r.kind = "list"
           /\ r.nets[next.id].ssid = k.ssid
        \/ next.at = "add" /\ next.told = "nothing"
    BY <1>a, <1>1, ConnectGoesOn
  <2>2. r.nets = wfNets /\ next.at = "bssid" => Found(next)'
    BY <2>1, <1>b, <1>d DEF Found
  <2>3. CASE Pend0(k)
    <3>1. r.kind = "list" => r.nets = wfNets
      BY <2>3, <1>a, <1>g DEF ListInv
    <3> QED
      BY <2>1, <2>2, <2>3, <3>1, <1>f DEF Stage
  <2>4. CASE Pend1(k, "any") /\ (k.waiting = 1 /\ Replied("list") => wfReplies[1].nets = wfNets)
    <3>1. r.kind = "list" => r.nets = wfNets
      BY <2>4, <1>a DEF Replied
    <3>2. Pend1(next, "list")'
      BY <2>4, <1>1, <1>f
    <3> QED
      BY <2>1, <2>2, <3>1, <3>2 DEF Stage
  <2>5. CASE Pend2(k, "any", "any")
    <3>1. Pend2(next, "any", "list")'
      BY <2>5, <1>1, <1>f
    <3> QED
      BY <2>1, <3>1 DEF Stage
  <2> QED
    BY <1>1, <2>3, <2>4, <2>5 DEF Stage
<1>2. CASE k.at = "add"
  <2>1. \/ r.kind = "id" /\ next.at = "ssid" /\ next.told = "nothing"
        \/ r.kind # "id" /\ next.told = "error"
    BY <1>a, <1>2, ConnectGoesOn
  <2>2. CASE Pend0(k)
    <3>1. Pend0(next)' /\ ~Replied("ok")'
      BY <2>2, <1>f, <1>g DEF Replied
    <3> QED
      BY <2>1, <3>1 DEF Stage
  <2>3. CASE Pend1(k, "list")
    <3>1. r.kind = "list"
      BY <2>3, <1>f DEF Fits
    <3> QED
      BY <2>1, <3>1
  <2>4. CASE Pend2(k, "any", "list")
    <3>1. Pend2(next, "list", "add")'
      BY <2>4, <1>2, <1>f
    <3> QED
      BY <2>1, <3>1 DEF Stage
  <2> QED
    BY <1>2, <2>2, <2>3, <2>4 DEF Stage
<1>3. CASE k.at = "ssid"
  <2>1. /\ next.id = k.id
        /\ \/ r.kind = "ok" /\ next.at = "key" /\ next.told = "nothing"
           \/ r.kind # "ok" /\ next.told = "error"
    BY <1>a, <1>3, ConnectGoesOn
  <2>2. CASE Pend0(k) /\ (Replied("ok") => Found(k))
    BY <2>1, <2>2, <1>a, <1>f, <1>h DEF Stage, Replied
  <2>3. CASE Pend2(k, "list", "add")
    <3>1. r.kind = "list"
      BY <2>3, <1>f DEF Fits
    <3> QED
      BY <2>1, <3>1
  <2> QED
    BY <1>3, <2>2, <2>3 DEF Stage
<1>4. CASE k.at = "key"
  <2>1. /\ next.id = k.id
        /\ \/ next.at = "bssid" /\ next.told = "nothing"
           \/ next.told = "error"
    BY <1>a, <1>4, ConnectGoesOn
  <2> QED
    BY <1>4, <2>1, <1>f, <1>h DEF Stage
<1>5. CASE k.at = "bssid"
  <2>1. next.id = k.id /\ next.at = "select" /\ next.told = "nothing"
    BY <1>a, <1>5, ConnectGoesOn
  <2>2. CASE Found(k) /\ (Pend0(k) \/ Pend1(k, "list"))
    <3>1. Found(next)' /\ (Pend0(next)' \/ Pend1(next, "bssid")')
      BY <2>1, <2>2, <1>5, <1>f, <1>h
    <3> QED
      BY <2>1, <3>1, <1>d DEF Stage
  <2>3. CASE Pend2(k, "any", "list")
    <3>1. Pend2(next, "list", "bssid")'
      BY <2>3, <1>5, <1>f
    <3> QED
      BY <2>1, <3>1 DEF Stage
  <2> QED
    BY <1>5, <2>2, <2>3 DEF Stage
<1>6. CASE k.at = "select"
  <2>1. /\ next.id = k.id
        /\ \/ r.kind = "ok" /\ next.at = "status" /\ next.told = "nothing"
           \/ r.kind # "ok" /\ next.told = "error"
    BY <1>a, <1>6, ConnectGoesOn
  <2>2. CASE Found(k) /\ Pend0(k) /\ (wfRequests = <<>> => Selected(k))
    <3>1. Found(next)' /\ Selected(next)' /\ wfReplies' = <<>> /\ wfRequests' = <<>>
      BY <2>1, <2>2, <1>g, <1>h
    <3>2. Polling(next)'
      <4>1. 1..Len(wfReplies') = {} /\ 1..Len(wfRequests') = {}
        BY <3>1
      <4> QED
        BY <3>1, <4>1 DEF Polling
    <3> QED
      BY <2>1, <3>1, <3>2 DEF Stage
  <2>3. CASE Found(k) /\ Pend1(k, "bssid") /\ (wfRequests = <<>> => Selected(k))
    <3>1. Found(next)' /\ (wfRequests' = <<>> => Selected(next)')
      BY <2>1, <2>3, <1>h
    <3>2. Pend1(next, "select")'
      BY <2>3, <1>6, <1>f
    <3>3. /\ wfReplies' \in Seq(Answers) /\ wfRequests' \in Seq(Queries)
          /\ Len(wfReplies') + Len(wfRequests') = 1 /\ Item(1, next, "select")'
      BY <1>a, <3>2, <1>d DEF WireOK, Pend1, Outstanding
    <3>4. CASE Len(wfReplies') = 1
      <4>1. Len(wfRequests') = 0 /\ wfRequests' = <<>> /\ wfReplies'[1].kind \in {"ok", "fail"}
        BY <3>3, <3>4 DEF Item, Fits
      <4>2. (\A j \in 1..Len(wfReplies') : j = 1) /\ ~\E j : j \in 1..Len(wfRequests')
        BY <3>4, <4>1, <1>a DEF WireOK
      <4>3. Polling(next)'
        BY <3>1, <4>1, <4>2 DEF Polling
      <4> QED
        BY <2>1, <3>1, <4>3 DEF Stage
    <3>5. CASE Len(wfReplies') = 0
      <4>1. /\ Len(wfRequests') = 1 /\ wfRequests'[1].c = "select" /\ wfRequests'[1].id = next.id
            /\ wfRequests' # <<>>
        BY <3>3, <3>5 DEF Item, Own
      <4>2. (~\E j : j \in 1..Len(wfReplies')) /\ \A j \in 1..Len(wfRequests') : j = 1
        BY <3>5, <4>1, <1>a DEF WireOK
      <4>3. Polling(next)'
        BY <4>1, <4>2 DEF Polling
      <4> QED
        BY <2>1, <3>1, <4>3 DEF Stage
    <3>6. Len(wfReplies') = 0 \/ Len(wfReplies') = 1
      <4>1. /\ Len(wfReplies) \in Nat \ {0} /\ Len(wfReplies') = Len(wfReplies) - 1
            /\ Len(wfRequests') \in Nat
        BY <1>a DEF WireOK
      <4> QED
        BY <3>3, <4>1
    <3> QED
      BY <3>4, <3>5, <3>6
  <2>4. CASE Pend2(k, "list", "bssid")
    <3>1. r.kind = "list"
      BY <2>1, <2>4, <1>f DEF Fits
    <3> QED
      BY <2>1, <3>1
  <2> QED
    BY <1>6, <2>2, <2>3, <2>4 DEF Stage
<1>7. CASE k.at = "status"
  <2>1. /\ next.id = k.id
        /\ \/ r.kind = "status" /\ r.id = 1 /\ next.at = "save" /\ next.told = "nothing"
           \/ next.at \in {"status", "remove"} /\ next.told = "nothing"
           \/ next.told = "error"
    BY <1>a, <1>7, ConnectGoesOn
  <2>2. Found(k) /\ Polling(k)
    BY <1>7 DEF Stage
  <2>3. r.kind = "status" /\ r.id = 1 => next.seen = 1
    <3>1. 1 \in 1..Len(wfReplies)
      BY <1>a DEF WireOK
    <3> QED
      BY <1>a, <1>d, <2>2, <3>1 DEF Polling
  <2>4. Polling(next)'
    <3>1. /\ Len(wfReplies) \in Nat \ {0} /\ Len(wfReplies') = Len(wfReplies) - 1
          /\ \A j \in 1..(Len(wfReplies) - 1) : wfReplies'[j] = wfReplies[j + 1]
      BY <1>a DEF WireOK
    <3>2. \A j \in 1..Len(wfReplies') :
             /\ wfReplies'[j].kind \in {"ok", "fail", "status"}
             /\ wfReplies'[j].kind = "status" /\ wfReplies'[j].id = 1 => next.seen = 1
      <4> SUFFICES ASSUME NEW j \in 1..Len(wfReplies')
                   PROVE  /\ wfReplies'[j].kind \in {"ok", "fail", "status"}
                          /\ wfReplies'[j].kind = "status" /\ wfReplies'[j].id = 1 => next.seen = 1
        OBVIOUS
      <4>1. j + 1 \in 1..Len(wfReplies) /\ wfReplies'[j] = wfReplies[j + 1]
        BY <3>1
      <4> QED
        BY <4>1, <2>2, <1>d DEF Polling
    <3> QED
      BY <2>1, <2>2, <3>2, <1>h DEF Polling
  <2> QED
    BY <2>1, <2>2, <2>3, <2>4, <1>h DEF Stage
<1>8. CASE k.at = "save"
  BY <1>8, <1>a, <1>d, ConnectGoesOn DEF Stage
<1>9. CASE k.at = "remove"
  BY <1>9, <1>a, ConnectGoesOn
<1>10. k.at \in {"list", "add", "ssid", "key", "bssid", "select", "status", "remove", "save"}
  BY DEF GoodCalls, UnderWay, Steps
<1> QED
  BY <1>1, <1>2, <1>3, <1>4, <1>5, <1>6, <1>7, <1>8, <1>9, <1>10

\* ... and when it stops waiting for one ...
LEMMA StageLate ==
  ASSUME WiFiBase, NEW k \in GoodCalls, UnderWay(k), k.op = "connect", k.waiting = 1, Stage(k),
         wfReplies = <<>>, Outstanding <= 2, NEW next \in AfterReply(k, Silence),
         wfReplies' = wfReplies, wfRequests' = wfRequests, UNCHANGED wfDaemon
  PROVE  (next.told = "nothing" => Stage(next)') /\ (next.told = "success" => next.seen = 1)
<1>a. WireOK /\ Silence \in Answers /\ Silence.kind = "none"
  BY WiFiBaseIs, WiFiFacts DEF Silence, Reply
<1>b. wfNets' = wfNets /\ wfCurrent' = wfCurrent /\ wfLinked' = wfLinked
  BY DEF wfDaemon
<1>c. next \in GoodCalls
  BY <1>a, AfterReplyGood
<1>d. next.ssid = k.ssid /\ next.psk = k.psk /\ next.seen = k.seen /\ next.waiting = 0
  BY <1>a, AfterReplyKeeps
<1>e. next.id = k.id \/ k.at \in {"list", "add"}
  BY <1>a, ConnectGoesOn
<1>f. ASSUME k.at # "add"
      PROVE  /\ Pend0(k) => Pend1(next, k.at)'
             /\ \A a : Pend1(k, a) /\ (next.id = k.id \/ a = "any") => Pend2(next, a, k.at)'
             /\ \A a, b : ~Pend2(k, a, b)
  <2>1. /\ Pend0(k) => Pend1(next, k.at)'
        /\ \A a : Pend1(k, a) /\ (next.id = k.id \/ a = "any") => Pend2(next, a, k.at)'
    BY <1>c, <1>d, <1>e, <1>f, PendLate
  <2>2. \A a, b : ~Pend2(k, a, b)
    BY <1>a, QueueLengths DEF Pend2
  <2> QED
    BY <2>1, <2>2
<1>g. next.id = k.id => (Found(k) => Found(next)') /\ (Selected(k) => Selected(next)')
  BY <1>b, <1>d DEF Found, Selected
<1>1. CASE k.at = "list"
  <2>1. next.at = "add" /\ next.told = "nothing"
    BY <1>a, <1>1, ConnectGoesOn
  <2>2. Pend1(next, "list")' \/ Pend2(next, "any", "list")'
    BY <1>1, <1>f DEF Stage
  <2> QED
    BY <2>1, <2>2 DEF Stage
<1>2. CASE k.at \in {"add", "ssid", "key", "select", "remove"}
  <2>1. next.told = "error"
    BY <1>a, <1>2, ConnectGoesOn
  <2> QED
    BY <2>1
<1>3. CASE k.at = "bssid"
  <2>1. next.id = k.id /\ next.at = "select" /\ next.told = "nothing"
    BY <1>a, <1>3, ConnectGoesOn
  <2>2. Found(k) /\ (Pend0(k) \/ Pend1(k, "list"))
    BY <1>3, <1>f DEF Stage
  <2>3. Found(next)' /\ (Pend1(next, "bssid")' \/ Pend2(next, "list", "bssid")')
    BY <2>1, <2>2, <1>3, <1>f, <1>g
  <2> QED
    BY <2>1, <2>3, <1>d DEF Stage
<1>4. CASE k.at = "status"
  <2>1. /\ next.id = k.id
        /\ \/ next.at \in {"status", "remove"} /\ next.told = "nothing"
           \/ next.told = "error"
    BY <1>a, <1>4, ConnectGoesOn
  <2>2. Found(k) /\ Polling(k)
    BY <1>4 DEF Stage
  <2>3. Polling(next)'
    BY <2>1, <2>2, <1>d, <1>g DEF Polling
  <2> QED
    BY <2>1, <2>2, <2>3, <1>g DEF Stage
<1>5. CASE k.at = "save"
  BY <1>5, <1>a, <1>d, ConnectGoesOn DEF Stage
<1>6. k.at \in {"list", "add", "ssid", "key", "bssid", "select", "status", "remove", "save"}
  BY DEF GoodCalls, UnderWay, Steps
<1> QED
  BY <1>1, <1>2, <1>3, <1>4, <1>5, <1>6

\* What the daemon does with a command.
LEMMA AnswerEffect ==
  ASSUME WiFiBase, DaemonAnswers, NEW q \in Queries, q = Head(wfRequests)
  PROVE  /\ q.c \in {"list", "status", "bssid"} => UNCHANGED wfDaemon
         /\ q.c = "list" => wfReplies' = Append(wfReplies, Reply("list", 0, wfNets))
         /\ q.c = "status" => wfReplies' = Append(wfReplies, Reply("status", wfLinked, NoNets))
         /\ q.c = "save" => wfConf' = wfNets
         /\ q.c # "save" => wfConf' = wfConf
         /\ q.c \in {"select", "save", "disconnect"} => wfNets' = wfNets
         /\ q.c = "add" => \A n \in NetIds : wfNets'[n] = wfNets[n] \/ wfNets'[n] = Net(0, "none")
         /\ q.c = "ssid" =>
               /\ \A n \in NetIds \ {q.id} : wfNets'[n] = wfNets[n]
               /\ \/ /\ Known(q.id) /\ wfReplies' = Append(wfReplies, Ok)
                     /\ wfNets'[q.id].ssid = q.ssid
                  \/ wfReplies' = Append(wfReplies, Fail) /\ wfNets' = wfNets
         /\ q.c = "key" =>
               /\ \A n \in NetIds \ {q.id} : wfNets'[n] = wfNets[n]
               /\ wfNets'[q.id].ssid = wfNets[q.id].ssid
               /\ Known(q.id) /\ q.psk \in Keys =>
                     wfReplies' = Append(wfReplies, Ok) /\ wfNets'[q.id].key = q.psk
         /\ q.c = "select" /\ Known(q.id) =>
               wfReplies' = Append(wfReplies, Ok) /\ wfCurrent' = q.id /\ wfLinked' = 0
         /\ q.c = "remove" =>
               wfNets'[q.id] = NoNet /\ \A n \in NetIds \ {q.id} : wfNets'[n] = wfNets[n]
<1>a. wfNets \in NetTables /\ q.id \in NetIds
  BY WiFiBaseIs DEF NetsOK, Queries
<1>b. DOMAIN wfNets = NetIds /\ \A n \in NetIds : wfNets[n] \in [ssid: Ssids \union {Absent, 0}, key: Keys]
  BY <1>a DEF NetTables
<1>1. CASE q.c \in {"list", "status", "bssid"}
  BY <1>1 DEF DaemonAnswers, wfDaemon
<1>2. CASE q.c = "add"
  <2>1. wfNets' = (IF NewId = Absent THEN wfNets ELSE [wfNets EXCEPT ![NewId] = Net(0, "none")])
        /\ wfConf' = wfConf
    BY <1>2 DEF DaemonAnswers
  <2>2. \A n \in NetIds : wfNets'[n] = wfNets[n] \/ wfNets'[n] = Net(0, "none")
    BY <2>1, <1>b
  <2> QED
    BY <1>2, <2>1, <2>2
<1>3. CASE q.c = "ssid"
  <2>1. /\ wfReplies' = Append(wfReplies, IF Known(q.id) THEN Ok ELSE Fail)
        /\ wfNets' = IF Known(q.id) THEN [wfNets EXCEPT ![q.id].ssid = q.ssid] ELSE wfNets
        /\ wfConf' = wfConf
    BY <1>3 DEF DaemonAnswers
  <2>2. CASE Known(q.id)
    <3>1. wfNets' = [wfNets EXCEPT ![q.id].ssid = q.ssid] /\ wfReplies' = Append(wfReplies, Ok)
      BY <2>1, <2>2
    <3>2. wfNets'[q.id].ssid = q.ssid /\ \A n \in NetIds \ {q.id} : wfNets'[n] = wfNets[n]
      BY <3>1, <1>a, <1>b
    <3> QED
      BY <1>3, <2>1, <2>2, <3>1, <3>2
  <2>3. CASE ~Known(q.id)
    <3>1. wfReplies' = Append(wfReplies, Fail) /\ wfNets' = wfNets
      BY <2>1, <2>3
    <3> QED
      BY <1>3, <2>1, <3>1
  <2> QED
    BY <2>2, <2>3
<1>4. CASE q.c = "key"
  <2>1. /\ wfReplies' = Append(wfReplies, IF Known(q.id) /\ q.psk \in Keys THEN Ok ELSE Fail)
        /\ wfNets' = IF Known(q.id) /\ q.psk \in Keys
                     THEN [wfNets EXCEPT ![q.id].key = q.psk] ELSE wfNets
        /\ wfConf' = wfConf
    BY <1>4 DEF DaemonAnswers
  <2>2. CASE Known(q.id) /\ q.psk \in Keys
    <3>1. wfNets' = [wfNets EXCEPT ![q.id].key = q.psk] /\ wfReplies' = Append(wfReplies, Ok)
      BY <2>1, <2>2
    <3>2. /\ wfNets'[q.id].ssid = wfNets[q.id].ssid /\ wfNets'[q.id].key = q.psk
          /\ \A n \in NetIds \ {q.id} : wfNets'[n] = wfNets[n]
      BY <3>1, <1>a, <1>b
    <3> QED
      BY <1>4, <2>1, <3>1, <3>2
  <2>3. CASE ~(Known(q.id) /\ q.psk \in Keys)
    <3>1. wfNets' = wfNets
      BY <2>1, <2>3
    <3> QED
      BY <1>4, <2>1, <2>3, <3>1
  <2> QED
    BY <2>2, <2>3
<1>5. CASE q.c = "select"
  BY <1>5 DEF DaemonAnswers
<1>6. CASE q.c = "remove"
  <2>1. wfNets' = [wfNets EXCEPT ![q.id] = NoNet] /\ wfConf' = wfConf
    BY <1>6 DEF DaemonAnswers
  <2>2. wfNets'[q.id] = NoNet /\ \A n \in NetIds \ {q.id} : wfNets'[n] = wfNets[n]
    BY <2>1, <1>a, <1>b
  <2> QED
    BY <1>6, <2>1, <2>2
<1>7. CASE q.c \in {"save", "disconnect"}
  BY <1>7 DEF DaemonAnswers
<1>8. q.c \in {"list", "add", "ssid", "key", "bssid", "select", "status", "remove", "save",
               "disconnect"}
  BY DEF Queries, Commands
<1> QED
  BY <1>1, <1>2, <1>3, <1>4, <1>5, <1>6, <1>7, <1>8

\* Splitting a short queue.
LEMMA ShortQueue ==
  ASSUME NEW m \in Nat, NEW n \in Nat \ {0}, NEW w \in {0, 1}
  PROVE  /\ m + n = w => w = 1 /\ m = 0 /\ n = 1
         /\ m + n = 1 + w => (m = 0 /\ n = 1 + w) \/ (m = 1 /\ n = 1 /\ w = 1)
  OBVIOUS

\* Which command of the call the daemon answers.
LEMMA HeadIs ==
  ASSUME WireOK, wfRequests # <<>>, NEW k \in GoodCalls
  PROVE  /\ Pend0(k) => /\ k.waiting = 1 /\ wfReplies = <<>> /\ Len(wfRequests) = 1
                        /\ Own(k, k.at, Head(wfRequests))
         /\ \A a : Pend1(k, a) =>
               \/ /\ wfReplies = <<>> /\ Len(wfRequests) = 1 + k.waiting
                  /\ Own(k, a, Head(wfRequests))
               \/ /\ k.waiting = 1 /\ wfReplies # <<>> /\ Len(wfRequests) = 1
                  /\ Own(k, k.at, Head(wfRequests))
<1>0. Len(wfReplies) \in Nat /\ Len(wfRequests) \in Nat \ {0} /\ k.waiting \in {0, 1}
  BY DEF WireOK, GoodCalls, CallStates
<1>1. /\ Len(wfReplies) \in Nat /\ Len(wfRequests) \in Nat \ {0} /\ k.waiting \in {0, 1}
      /\ wfReplies = <<>> <=> Len(wfReplies) = 0
      /\ Head(wfRequests) = wfRequests[1]
  BY DEF WireOK, GoodCalls, CallStates
<1>2. \A j, cmd : j = Len(wfReplies) + 1 /\ Item(j, k, cmd) => Own(k, cmd, Head(wfRequests))
  <2> SUFFICES ASSUME NEW j, NEW cmd, j = Len(wfReplies) + 1, Item(j, k, cmd)
               PROVE  Own(k, cmd, Head(wfRequests))
    OBVIOUS
  <2>1. ~(j <= Len(wfReplies)) /\ j - Len(wfReplies) = 1
    BY <1>1
  <2>2. Own(k, cmd, wfRequests[j - Len(wfReplies)])
    BY <2>1 DEF Item
  <2>3. wfRequests[j - Len(wfReplies)] = Head(wfRequests)
    BY <2>1, <1>1
  <2> QED
    BY <2>2, <2>3
<1>3. ASSUME Pend0(k)
      PROVE  /\ k.waiting = 1 /\ wfReplies = <<>> /\ Len(wfRequests) = 1
             /\ Own(k, k.at, Head(wfRequests))
  <2>a. Len(wfReplies) + Len(wfRequests) = k.waiting /\ (k.waiting = 1 => Item(1, k, k.at))
    BY <1>3 DEF Pend0, Outstanding
  <2>b. k.waiting = 1 /\ Len(wfReplies) = 0 /\ Len(wfRequests) = 1
    BY <1>0, <2>a, ShortQueue
  <2>1. k.waiting = 1 /\ Len(wfReplies) = 0 /\ Len(wfRequests) = 1 /\ Item(1, k, k.at)
    BY <2>a, <2>b
  <2>2. 1 = Len(wfReplies) + 1
    BY <2>1
  <2> QED
    BY <2>1, <2>2, <1>1, <1>2
<1>4. ASSUME NEW a, Pend1(k, a)
      PROVE  \/ /\ wfReplies = <<>> /\ Len(wfRequests) = 1 + k.waiting
                /\ Own(k, a, Head(wfRequests))
             \/ /\ k.waiting = 1 /\ wfReplies # <<>> /\ Len(wfRequests) = 1
                /\ Own(k, k.at, Head(wfRequests))
  <2>a. /\ Len(wfReplies) + Len(wfRequests) = 1 + k.waiting /\ Item(1, k, a)
        /\ k.waiting = 1 => Item(2, k, k.at)
    BY <1>4 DEF Pend1, Outstanding
  <2>1. \/ Len(wfReplies) = 0 /\ Len(wfRequests) = 1 + k.waiting
        \/ Len(wfReplies) = 1 /\ Len(wfRequests) = 1 /\ k.waiting = 1
    BY <1>0, <2>a, ShortQueue
  <2>2. CASE Len(wfReplies) = 0 /\ Len(wfRequests) = 1 + k.waiting
    <3>1. 1 = Len(wfReplies) + 1
      BY <2>2
    <3> QED
      BY <3>1, <2>a, <2>2, <1>1, <1>2
  <2>3. CASE Len(wfReplies) = 1 /\ Len(wfRequests) = 1 /\ k.waiting = 1
    <3>1. 2 = Len(wfReplies) + 1
      BY <2>3
    <3> QED
      BY <3>1, <2>a, <2>3, <1>1, <1>2
  <2> QED
    BY <2>1, <2>2, <2>3
<1> QED
  BY <1>3, <1>4

\* The last of a queue is taken.
LEMMA LastTaken ==
  ASSUME NEW S, NEW s \in Seq(S), s # <<>>, Tail(s) = <<>>
  PROVE  Len(s) = 1
<1>1. PICK t : t = Tail(s)
  OBVIOUS
<1>2. Len(s) \in Nat \ {0} /\ Len(t) = Len(s) - 1
  BY <1>1
<1>3. Len(t) = 0
  BY <1>1
<1> QED
  BY <1>2, <1>3

\* ... and when the daemon answers a command ...
LEMMA StageAnswers ==
  ASSUME WiFiBase, DaemonAnswers, NEW k \in GoodCalls, UnderWay(k), k.op = "connect",
         k.ssid \in Ssids, Stage(k)
  PROVE  Stage(k)'
<1>a. /\ WireOK /\ wfRequests # <<>> /\ wfRequests' = Tail(wfRequests) /\ k.waiting \in {0, 1}
      /\ k.id \in NetIds /\ wfNets \in NetTables
  BY WiFiBaseIs DEF DaemonAnswers, GoodCalls, CallStates, NetsOK
<1>b. PICK q \in Queries : q = Head(wfRequests)
  BY <1>a DEF WireOK
<1>c. /\ Pend0(k) => Pend0(k)'
      /\ \A a : Pend1(k, a) => Pend1(k, a)'
      /\ \A a, b : Pend2(k, a, b) => Pend2(k, a, b)'
  BY PendAnswer
<1>d. PICK r \in Answers : wfReplies' = Append(wfReplies, r) /\ Fits(q.c, r)
  BY <1>b, AnswerFits
<1>e. /\ wfReplies = <<>> => wfReplies'[1] = r
      /\ wfReplies # <<>> => wfReplies'[1] = wfReplies[1]
      /\ wfReplies' # <<>>
  BY <1>a, <1>d DEF WireOK
<1>f. Found(k) => Known(k.id)
  BY <1>a, WiFiAssumption DEF Found, Known, NoNet, Net, Absent
<1>g. q.c \in {"list", "status", "bssid"} =>
         wfNets' = wfNets /\ wfCurrent' = wfCurrent /\ wfLinked' = wfLinked
  BY <1>b, AnswerEffect DEF wfDaemon
<1>h. /\ Pend0(k) => /\ k.waiting = 1 /\ wfReplies = <<>> /\ Len(wfRequests) = 1
                     /\ Own(k, k.at, q)
      /\ \A a : Pend1(k, a) =>
            \/ wfReplies = <<>> /\ Len(wfRequests) = 1 + k.waiting /\ Own(k, a, q)
            \/ k.waiting = 1 /\ wfReplies # <<>> /\ Len(wfRequests) = 1 /\ Own(k, k.at, q)
  BY <1>a, <1>b, HeadIs
<1>i. wfNets' = wfNets => (Found(k) => Found(k)')
  BY DEF Found
<1>1. CASE k.at = "list"
  <2>1. ASSUME Pend1(k, "any"), k.waiting = 1 /\ Replied("list") => wfReplies[1].nets = wfNets,
               k.waiting = 1, Replied("list")'
        PROVE  wfReplies'[1].nets = wfNets'
    <3>1. CASE wfReplies = <<>>
      <4>1. r.kind = "list"
        BY <2>1, <3>1, <1>e DEF Replied
      <4>2. q.c = "list"
        BY <4>1, <1>d DEF Fits, Queries, Commands
      <4>3. r = Reply("list", 0, wfNets)
        <5>1. wfReplies' = Append(wfReplies, Reply("list", 0, wfNets))
          BY <4>2, <1>b, AnswerEffect
        <5> QED
          BY <5>1, <3>1, <1>d
      <4> QED
        BY <4>2, <4>3, <3>1, <1>e, <1>g DEF Reply
    <3>2. CASE wfReplies # <<>>
      <4>1. q.c = "list"
        BY <2>1, <3>2, <1>1, <1>h DEF Own
      <4> QED
        BY <2>1, <3>2, <4>1, <1>e, <1>g DEF Replied
    <3> QED
      BY <3>1, <3>2
  <2> QED
    BY <1>1, <1>c, <2>1 DEF Stage
<1>2. CASE k.at = "add"
  BY <1>2, <1>c DEF Stage
<1>3. CASE k.at = "ssid"
  <2>1. ASSUME Pend0(k), Replied("ok")' PROVE Found(k)'
    <3>1. q.c = "ssid" /\ q.id = k.id /\ q.ssid = k.ssid /\ wfReplies = <<>>
      BY <2>1, <1>3, <1>h DEF Own
    <3>2. r.kind = "ok"
      BY <2>1, <3>1, <1>e DEF Replied
    <3>3. \/ wfReplies' = Append(wfReplies, Fail)
          \/ wfNets'[q.id].ssid = q.ssid
      BY <3>1, <1>b, AnswerEffect
    <3>4. wfReplies' # Append(wfReplies, Fail)
      BY <3>1, <3>2, <1>d DEF Fail, Reply
    <3> QED
      BY <3>1, <3>3, <3>4 DEF Found
  <2> QED
    BY <1>3, <1>c, <2>1 DEF Stage
<1>4. CASE k.at = "key"
  <2>1. Pend0(k) /\ Found(k)
    BY <1>4 DEF Stage
  <2>2. q.c = "key" /\ q.id = k.id
    BY <2>1, <1>4, <1>h DEF Own
  <2>3. Found(k)'
    BY <2>1, <2>2, <1>b, AnswerEffect DEF Found
  <2> QED
    BY <1>4, <1>c, <2>1, <2>3 DEF Stage
<1>5. CASE k.at = "bssid"
  <2>1. Pend0(k) \/ Pend1(k, "list") => q.c \in {"list", "bssid"}
    BY <1>5, <1>h DEF Own
  <2> QED
    BY <1>5, <2>1, <1>c, <1>g, <1>i DEF Stage
<1>6. CASE k.at = "select"
  <2>1. CASE Found(k) /\ (Pend0(k) \/ Pend1(k, "bssid"))
    <3>1. q.c = "bssid" \/ (q.c = "select" /\ q.id = k.id)
      BY <1>6, <2>1, <1>h DEF Own
    <3>2. wfNets' = wfNets
      BY <3>1, <1>b, <1>g, AnswerEffect
    <3>3. ASSUME k.waiting = 1, wfRequests' = <<>> PROVE Selected(k)'
      <4>1. Len(wfRequests) = 1
        BY <1>a, <3>3, LastTaken DEF WireOK
      <4>2. q.c = "select" /\ q.id = k.id
        <5>1. 1 + k.waiting = 2
          BY <3>3
        <5>2. Own(k, "select", q)
          BY <1>6, <2>1, <1>h, <4>1, <5>1
        <5> QED
          BY <5>2 DEF Own
      <4> QED
        BY <4>2, <2>1, <1>b, <1>f, AnswerEffect DEF Selected
    <3> QED
      BY <1>6, <2>1, <3>2, <3>3, <1>c, <1>i DEF Stage
  <2>2. CASE Pend2(k, "list", "bssid")
    BY <1>6, <2>2, <1>c DEF Stage
  <2> QED
    BY <1>6, <2>1, <2>2 DEF Stage
<1>7. CASE k.at = "status"
  <2>a. Found(k) /\ Polling(k)
    BY <1>7 DEF Stage
  <2>b. /\ Len(wfRequests) \in Nat \ {0} /\ Len(wfRequests') = Len(wfRequests) - 1
        /\ \A j \in 1..(Len(wfRequests) - 1) : wfRequests'[j] = wfRequests[j + 1]
        /\ wfRequests[1] = q
    BY <1>a, <1>b DEF WireOK
  <2>c. /\ Len(wfReplies) \in Nat /\ Len(wfReplies') = Len(wfReplies) + 1
        /\ \A j \in 1..Len(wfReplies) : wfReplies'[j] = wfReplies[j]
        /\ wfReplies'[Len(wfReplies) + 1] = r
    BY <1>a, <1>d DEF WireOK
  <2>d. q.c = "status" \/ (q.c = "select" /\ q.id = k.id)
    BY <2>a, <2>b DEF Polling
  <2>1. wfNets' = wfNets
    BY <2>d, <1>b, <1>g, AnswerEffect
  <2>2. Selected(k)'
    <3>1. CASE q.c = "status"
      BY <3>1, <2>a, <2>b, <1>g DEF Polling, Selected
    <3>2. CASE q.c = "select" /\ q.id = k.id
      BY <3>2, <2>a, <1>b, <1>f, AnswerEffect DEF Selected
    <3> QED
      BY <2>d, <3>1, <3>2
  <2>3. r.kind \in {"ok", "fail", "status"} /\ (r.kind = "status" /\ r.id = 1 => k.seen = 1)
    <3>1. CASE q.c = "status"
      <4>1. wfReplies' = Append(wfReplies, Reply("status", wfLinked, NoNets))
        BY <3>1, <1>b, AnswerEffect
      <4>2. r = Reply("status", wfLinked, NoNets)
        BY <4>1, <1>a, <1>d DEF WireOK
      <4>3. wfLinked = 1 => k.seen = 1
        BY <3>1, <2>a, <2>b DEF Polling, Selected
      <4> QED
        BY <4>2, <4>3 DEF Reply
    <3>2. CASE q.c = "select"
      BY <3>2, <1>d DEF Fits
    <3> QED
      BY <2>d, <3>1, <3>2
  <2>4. \A j \in 1..Len(wfRequests') : wfRequests'[j].c = "status"
    <3> SUFFICES ASSUME NEW j \in 1..Len(wfRequests') PROVE wfRequests'[j].c = "status"
      OBVIOUS
    <3>1. j + 1 \in 1..Len(wfRequests) /\ j + 1 # 1 /\ wfRequests'[j] = wfRequests[j + 1]
      BY <2>b
    <3> QED
      BY <3>1, <2>a DEF Polling
  <2>5. \A j \in 1..Len(wfReplies') :
           /\ wfReplies'[j].kind \in {"ok", "fail", "status"}
           /\ wfReplies'[j].kind = "status" /\ wfReplies'[j].id = 1 => k.seen = 1
    <3> SUFFICES ASSUME NEW j \in 1..Len(wfReplies')
                 PROVE  /\ wfReplies'[j].kind \in {"ok", "fail", "status"}
                        /\ wfReplies'[j].kind = "status" /\ wfReplies'[j].id = 1 => k.seen = 1
      OBVIOUS
    <3>1. CASE j = Len(wfReplies) + 1
      BY <3>1, <2>c, <2>3
    <3>2. CASE j \in 1..Len(wfReplies)
      <4>1. wfReplies'[j] = wfReplies[j]
        BY <3>2, <2>c
      <4> QED
        BY <3>2, <4>1, <2>a DEF Polling
    <3> QED
      BY <2>c, <3>1, <3>2
  <2>6. Polling(k)'
    BY <2>2, <2>4, <2>5 DEF Polling
  <2> QED
    BY <1>7, <1>i, <2>a, <2>1, <2>6 DEF Stage
<1>8. CASE k.at \in {"save", "remove"}
  BY <1>8 DEF Stage
<1>9. k.at \in {"list", "add", "ssid", "key", "bssid", "select", "status", "remove", "save"}
  BY DEF GoodCalls, UnderWay, Steps
<1> QED
  BY <1>1, <1>2, <1>3, <1>4, <1>5, <1>6, <1>7, <1>8, <1>9

\* ... and when a link comes up.
LEMMA StageStays ==
  ASSUME NEW k \in GoodCalls, NEW k2 \in GoodCalls, UnderWay(k),
         k.op = "connect", Stage(k), k2.ssid = k.ssid, k2.psk = k.psk, k2.id = k.id,
         k2.at = k.at, k2.waiting = k.waiting, k.seen = 1 => k2.seen = 1,
         wfReplies' = wfReplies, wfRequests' = wfRequests, wfNets' = wfNets,
         wfCurrent' = wfCurrent,
         wfLinked' = wfLinked \/ (wfNets[wfCurrent].ssid = k.ssid => k2.seen = 1)
  PROVE  Stage(k2)'
<1>a. /\ wfReplies' = wfReplies /\ wfRequests' = wfRequests /\ wfNets' = wfNets
      /\ wfCurrent' = wfCurrent
  OBVIOUS
<1>b. /\ Pend0(k) => Pend0(k2)'
      /\ \A a : Pend1(k, a) => Pend1(k2, a)'
      /\ \A a, b : Pend2(k, a, b) => Pend2(k2, a, b)'
  BY <1>a, PendSame
<1>c. Found(k) => Found(k2)' /\ (Selected(k) => Selected(k2)')
  BY <1>a DEF Found, Selected
<1>1. CASE k.at = "list"
  BY <1>1, <1>a, <1>b DEF Stage, Replied
<1>2. CASE k.at \in {"add", "ssid", "key", "bssid", "select"}
  BY <1>2, <1>a, <1>b, <1>c DEF Stage, Replied
<1>3. CASE k.at = "status"
  <2>1. Found(k) /\ Polling(k)
    BY <1>3 DEF Stage
  <2>2. Polling(k2)'
    BY <2>1, <1>a, <1>c DEF Polling
  <2> QED
    BY <1>3, <2>1, <2>2, <1>c DEF Stage
<1>4. CASE k.at \in {"save", "remove"}
  BY <1>4 DEF Stage
<1>5. k.at \in {"list", "add", "ssid", "key", "bssid", "select", "status", "remove", "save"}
  BY DEF GoodCalls, UnderWay, Steps
<1> QED
  BY <1>1, <1>2, <1>3, <1>4, <1>5

\* The steps, with the arguments of a new call.
LEMMA WiFiSteps ==
  ASSUME [WiFiNext]_wfVars
  PROVE  \/ \E c \in WifiCallers, op \in Ops, s \in Ssids \union {0}, p \in Keys \union {"short"} :
               /\ CallStart(c, op, s, p)
               /\ op = "connect" => s \in Ssids /\ p # "none"
               /\ op # "connect" => p = "none"
         \/ \E c \in WifiCallers : SendCommand(c) \/ SendFails(c) \/ TakeReply(c) \/ ReplyTimeout(c)
         \/ DaemonAnswers \/ LinkUp \/ DaemonRestarts \/ UNCHANGED wfVars
<1>1. ASSUME NEW c \in WifiCallers, NEW s \in Ssids, NEW p \in {"right", "wrong", "short"},
             CallStart(c, "connect", s, p)
      PROVE  \E op \in Ops, s2 \in Ssids \union {0}, p2 \in Keys \union {"short"} :
               /\ CallStart(c, op, s2, p2)
               /\ op = "connect" => s2 \in Ssids /\ p2 # "none"
               /\ op # "connect" => p2 = "none"
  <2>1. "connect" \in Ops /\ p \in Keys \union {"short"} /\ p # "none" /\ s \in Ssids \union {0}
    BY DEF Ops, Keys
  <2> QED
    BY <1>1, <2>1, Zenon
<1>2. ASSUME NEW c \in WifiCallers, NEW s \in Ssids, CallStart(c, "forget", s, "none")
      PROVE  \E op \in Ops, s2 \in Ssids \union {0}, p2 \in Keys \union {"short"} :
               /\ CallStart(c, op, s2, p2)
               /\ op = "connect" => s2 \in Ssids /\ p2 # "none"
               /\ op # "connect" => p2 = "none"
  <2>1. "forget" \in Ops /\ "none" \in Keys \union {"short"} /\ s \in Ssids \union {0} /\ "forget" # "connect"
    BY DEF Ops, Keys
  <2> QED
    BY <1>2, <2>1, Zenon
<1>3. ASSUME NEW c \in WifiCallers, NEW o \in {"disconnect", "list", "status"},
             CallStart(c, o, 0, "none")
      PROVE  \E op \in Ops, s2 \in Ssids \union {0}, p2 \in Keys \union {"short"} :
               /\ CallStart(c, op, s2, p2)
               /\ op = "connect" => s2 \in Ssids /\ p2 # "none"
               /\ op # "connect" => p2 = "none"
  <2>1. o \in Ops /\ "none" \in Keys \union {"short"} /\ 0 \in Ssids \union {0} /\ o # "connect"
    BY DEF Ops, Keys
  <2> QED
    BY <1>3, <2>1, Zenon
<1>4. \/ \E c \in WifiCallers :
            \/ \E s \in Ssids, p \in {"right", "wrong", "short"} : CallStart(c, "connect", s, p)
            \/ \E s \in Ssids : CallStart(c, "forget", s, "none")
            \/ \E o \in {"disconnect", "list", "status"} : CallStart(c, o, 0, "none")
            \/ SendCommand(c) \/ SendFails(c) \/ TakeReply(c) \/ ReplyTimeout(c)
      \/ DaemonAnswers \/ LinkUp \/ DaemonRestarts \/ UNCHANGED wfVars
  BY DEF WiFiNext
<1> QED
  BY <1>1, <1>2, <1>3, <1>4, Zenon

\* A step of one call leaves the others alone.
LEMMA SendMoves ==
  ASSUME WiFiBase, NEW c \in WifiCallers, SendCommand(c)
  PROVE  \E k \in GoodCalls, k2 \in GoodCalls, q \in Queries :
           /\ k = wfCall[c] /\ k2 = wfCall'[c] /\ UnderWay(k) /\ k.waiting = 0 /\ k2.waiting = 1
           /\ k2.op = k.op /\ k2.told = k.told /\ k2.ssid = k.ssid /\ k2.psk = k.psk
           /\ k2.id = k.id /\ k2.at = k.at /\ k2.new = k.new /\ k2.seen = k.seen /\ k2.calm = k.calm
           /\ q.c = k.at /\ q.ssid = k.ssid /\ q.psk = k.psk /\ q.id = k.id
           /\ wfRequests' = Append(wfRequests, q)
           /\ \A d \in WifiCallers \ {c} : wfCall'[d] = wfCall[d]
<1>1. PICK k \in GoodCalls : k = wfCall[c]
  BY WiFiBaseIs DEF CallsOK
<1>2. UnderWay(k) /\ k.waiting = 0 /\ k \in CallStates /\ k.at \in Steps(k.op)
  BY <1>1 DEF SendCommand, InCall, UnderWay, GoodCalls
<1>3. k.at \in Commands
  BY <1>2 DEF Steps, Commands, UnderWay, CallStates, Ops
<1>4. PICK k2 : k2 = [k EXCEPT !.waiting = 1]
  OBVIOUS
<1>5. /\ k2 \in GoodCalls /\ k2.waiting = 1 /\ k2.op = k.op /\ k2.told = k.told
      /\ k2.ssid = k.ssid /\ k2.psk = k.psk /\ k2.id = k.id /\ k2.at = k.at /\ k2.new = k.new
      /\ k2.seen = k.seen /\ k2.calm = k.calm
  BY <1>2, <1>4 DEF GoodCalls, CallStates, UnderWay
<1>6. wfCall' = [wfCall EXCEPT ![c] = k2]
  BY <1>1, <1>4 DEF SendCommand
<1>7. k2 = wfCall'[c] /\ \A d \in WifiCallers \ {c} : wfCall'[d] = wfCall[d]
  BY <1>6, WiFiBaseIs DEF CallsOK
<1>8. PICK q : q = [c |-> k.at, id |-> k.id, ssid |-> k.ssid, psk |-> k.psk]
  OBVIOUS
<1>9. q \in Queries /\ q.c = k.at /\ q.ssid = k.ssid /\ q.psk = k.psk /\ q.id = k.id
  BY <1>2, <1>3, <1>8 DEF Queries, CallStates
<1>10. wfRequests' = Append(wfRequests, q)
  BY <1>1, <1>8 DEF SendCommand
<1> QED
  BY <1>1, <1>2, <1>5, <1>7, <1>9, <1>10

LEMMA ReplyMoves ==
  ASSUME WiFiBase, NEW c \in WifiCallers, SendFails(c) \/ TakeReply(c) \/ ReplyTimeout(c)
  PROVE  \E k \in GoodCalls, k2 \in GoodCalls, r \in Answers : \E next \in AfterReply(k, r) :
           /\ k = wfCall[c] /\ k2 = wfCall'[c] /\ UnderWay(k)
           /\ \A d \in WifiCallers \ {c} : wfCall'[d] = wfCall[d]
           /\ k2.op = k.op /\ k2.ssid = k.ssid /\ k2.psk = k.psk /\ k2.seen = k.seen /\ k2.waiting = 0
           /\ k2.told = next.told /\ k2.at = next.at /\ k2.id = next.id /\ k2.new = next.new
           /\ SendFails(c) => r = Silence /\ k2.calm = 0
           /\ TakeReply(c) => r = Head(wfReplies) /\ k2 = next /\ k2.calm = k.calm
           /\ ReplyTimeout(c) => r = Silence /\ k2 = next /\ k2.calm = k.calm
<1>a. WireOK /\ wfCall \in [WifiCallers -> GoodCalls] /\ Silence \in Answers
  BY WiFiBaseIs, WiFiFacts DEF CallsOK
<1>1. PICK k \in GoodCalls : k = wfCall[c]
  BY <1>a
<1>2. UnderWay(k)
  BY <1>1 DEF SendFails, TakeReply, ReplyTimeout, InCall, UnderWay
<1>b. /\ SendFails(c) => ~TakeReply(c) /\ ~ReplyTimeout(c)
      /\ TakeReply(c) => ~ReplyTimeout(c)
  BY DEF SendFails, TakeReply, ReplyTimeout
<1>3. CASE SendFails(c)
  <2>1. PICK next \in AfterReply(k, Silence) :
           wfCall' = [wfCall EXCEPT ![c] = [next EXCEPT !.calm = 0]]
    BY <1>1, <1>3 DEF SendFails
  <2>2. /\ next \in GoodCalls /\ next.op = k.op /\ next.ssid = k.ssid /\ next.psk = k.psk
        /\ next.seen = k.seen /\ next.waiting = 0
    BY <1>a, <1>2, AfterReplyGood, AfterReplyKeeps
  <2>3. PICK k2 : k2 = [next EXCEPT !.calm = 0]
    OBVIOUS
  <2>4. /\ k2 \in GoodCalls /\ k2.op = next.op /\ k2.ssid = next.ssid /\ k2.psk = next.psk
        /\ k2.seen = next.seen /\ k2.waiting = next.waiting /\ k2.told = next.told
        /\ k2.at = next.at /\ k2.id = next.id /\ k2.new = next.new /\ k2.calm = 0
    BY <2>2, <2>3 DEF GoodCalls, CallStates, UnderWay
  <2>5. wfCall'[c] = k2 /\ \A d \in WifiCallers \ {c} : wfCall'[d] = wfCall[d]
    BY <2>1, <2>3, <1>a
  <2> QED
    BY <1>a, <1>b, <1>1, <1>2, <1>3, <2>2, <2>4, <2>5
<1>4. ASSUME NEW r \in Answers, NEW next \in AfterReply(k, r), wfCall' = [wfCall EXCEPT ![c] = next]
      PROVE  /\ next \in GoodCalls /\ next = wfCall'[c]
             /\ \A d \in WifiCallers \ {c} : wfCall'[d] = wfCall[d]
             /\ next.op = k.op /\ next.ssid = k.ssid /\ next.psk = k.psk /\ next.seen = k.seen
             /\ next.waiting = 0 /\ next.calm = k.calm
  <2>1. /\ next \in GoodCalls /\ next.op = k.op /\ next.ssid = k.ssid /\ next.psk = k.psk
        /\ next.seen = k.seen /\ next.waiting = 0 /\ next.calm = k.calm
    BY <1>2, AfterReplyGood, AfterReplyKeeps
  <2>2. next = wfCall'[c] /\ \A d \in WifiCallers \ {c} : wfCall'[d] = wfCall[d]
    BY <1>4, <1>a
  <2> QED
    BY <2>1, <2>2
<1>5. CASE TakeReply(c)
  <2>1. PICK r \in Answers : r = Head(wfReplies)
    BY <1>a, <1>5 DEF TakeReply, WireOK
  <2>2. PICK next \in AfterReply(k, r) : wfCall' = [wfCall EXCEPT ![c] = next]
    BY <1>1, <1>5, <2>1 DEF TakeReply
  <2>3. /\ next \in GoodCalls /\ next = wfCall'[c]
        /\ \A d \in WifiCallers \ {c} : wfCall'[d] = wfCall[d]
        /\ next.op = k.op /\ next.ssid = k.ssid /\ next.psk = k.psk /\ next.seen = k.seen
        /\ next.waiting = 0 /\ next.calm = k.calm
    BY <1>4, <2>2
  <2> QED
    BY <1>1, <1>2, <1>5, <1>b, <2>1, <2>2, <2>3
<1>6. CASE ReplyTimeout(c)
  <2>2. PICK next \in AfterReply(k, Silence) : wfCall' = [wfCall EXCEPT ![c] = next]
    BY <1>1, <1>6 DEF ReplyTimeout
  <2>3. /\ next \in GoodCalls /\ next = wfCall'[c]
        /\ \A d \in WifiCallers \ {c} : wfCall'[d] = wfCall[d]
        /\ next.op = k.op /\ next.ssid = k.ssid /\ next.psk = k.psk /\ next.seen = k.seen
        /\ next.waiting = 0 /\ next.calm = k.calm
    BY <1>a, <1>4, <2>2
  <2> QED
    BY <1>a, <1>1, <1>2, <1>6, <1>b, <2>2, <2>3
<1> QED
  BY <1>3, <1>5, <1>6

\* What the steps of the daemon do to a call.
LEMMA DaemonMoves ==
  ASSUME WiFiBase, DaemonAnswers \/ LinkUp \/ DaemonRestarts \/ UNCHANGED wfVars,
         NEW c \in WifiCallers
  PROVE  \E k \in GoodCalls, k2 \in GoodCalls :
           /\ k = wfCall[c] /\ k2 = wfCall'[c]
           /\ k2.op = k.op /\ k2.told = k.told /\ k2.ssid = k.ssid /\ k2.psk = k.psk
           /\ k2.id = k.id /\ k2.at = k.at /\ k2.new = k.new /\ k2.waiting = k.waiting
           /\ k.seen = 1 => k2.seen = 1
           /\ k2.calm = 1 => k.calm = 1
           /\ ~UnderWay(k) \/ DaemonAnswers \/ UNCHANGED wfVars => k2 = k
           /\ LinkUp /\ UnderWay(k) /\ wfNets[wfCurrent].ssid = k.ssid => k2.seen = 1
           /\ DaemonRestarts /\ UnderWay(k) => k2.calm = 0
<1>1. PICK k \in GoodCalls : k = wfCall[c]
  BY WiFiBaseIs DEF CallsOK
<1>a. k \in CallStates /\ (InCall(c) <=> UnderWay(k))
  BY <1>1 DEF GoodCalls, InCall, UnderWay
<1>b. /\ LinkUp => ~DaemonAnswers /\ ~DaemonRestarts /\ ~UNCHANGED wfVars
      /\ DaemonRestarts => ~DaemonAnswers /\ ~LinkUp /\ ~UNCHANGED wfVars
  <2>1. LinkUp => wfLinked' # wfLinked /\ wfRequests' = wfRequests /\ wfDaemons' = wfDaemons
    BY DEF LinkUp
  <2>2. DaemonRestarts => wfDaemons' # wfDaemons
    BY WiFiBaseIs DEF DaemonRestarts, WiFiCountsOK
  <2>3. DaemonAnswers => wfRequests' # wfRequests /\ wfDaemons' = wfDaemons
    <3>1. DaemonAnswers => /\ wfRequests # <<>> /\ wfRequests' = Tail(wfRequests)
                           /\ wfDaemons' = wfDaemons
      BY DEF DaemonAnswers
    <3>2. wfRequests # <<>> => Len(Tail(wfRequests)) # Len(wfRequests)
      BY WiFiBaseIs DEF WireOK
    <3> QED
      BY <3>1, <3>2
  <2>4. UNCHANGED wfVars => wfLinked' = wfLinked /\ wfDaemons' = wfDaemons
    BY DEF wfVars
  <2> QED
    BY <2>1, <2>2, <2>3, <2>4
<1>2. CASE DaemonAnswers \/ UNCHANGED wfVars
  <2>1. wfCall' = wfCall /\ ~LinkUp /\ ~DaemonRestarts
    BY <1>2, <1>b DEF DaemonAnswers, wfVars
  <2> QED
    BY <1>1, <1>2, <2>1
<1>3. CASE LinkUp
  <2>1. PICK k2 : k2 = IF UnderWay(k) /\ wfNets[wfCurrent].ssid = k.ssid
                       THEN [k EXCEPT !.seen = 1] ELSE k
    OBVIOUS
  <2>2. k2 = wfCall'[c]
    BY <1>1, <1>a, <1>3, <2>1 DEF LinkUp
  <2>3. /\ k2 \in GoodCalls /\ k2.op = k.op /\ k2.told = k.told /\ k2.ssid = k.ssid
        /\ k2.psk = k.psk /\ k2.id = k.id /\ k2.at = k.at /\ k2.new = k.new
        /\ k2.waiting = k.waiting /\ k2.calm = k.calm /\ (k.seen = 1 => k2.seen = 1)
    BY <1>a, <2>1 DEF GoodCalls, CallStates, UnderWay
  <2>4. /\ ~UnderWay(k) => k2 = k
        /\ UnderWay(k) /\ wfNets[wfCurrent].ssid = k.ssid => k2.seen = 1
    BY <1>a, <2>1 DEF CallStates
  <2> QED
    BY <1>1, <1>3, <1>b, <2>2, <2>3, <2>4
<1>4. CASE DaemonRestarts
  <2>1. PICK k2 : k2 = IF UnderWay(k) THEN [k EXCEPT !.calm = 0] ELSE k
    OBVIOUS
  <2>2. k2 = wfCall'[c]
    BY <1>1, <1>a, <1>4, <2>1 DEF DaemonRestarts
  <2>3. /\ k2 \in GoodCalls /\ k2.op = k.op /\ k2.told = k.told /\ k2.ssid = k.ssid
        /\ k2.psk = k.psk /\ k2.id = k.id /\ k2.at = k.at /\ k2.new = k.new
        /\ k2.waiting = k.waiting /\ k2.seen = k.seen
    BY <1>a, <2>1 DEF GoodCalls, CallStates, UnderWay
  <2>4. (~UnderWay(k) => k2 = k) /\ (UnderWay(k) => k2.calm = 0) /\ (k2.calm = 1 => k.calm = 1)
    BY <1>a, <2>1 DEF CallStates
  <2> QED
    BY <1>1, <1>4, <1>b, <2>2, <2>3, <2>4
<1> QED
  BY <1>2, <1>3, <1>4

\* What a new call does to itself and to the others.
LEMMA StartMoves ==
  ASSUME WiFiBase, NEW c \in WifiCallers, NEW op \in Ops, NEW s \in Ssids \union {0},
         NEW p \in Keys \union {"short"}, CallStart(c, op, s, p)
  PROVE  /\ ~InCall(c)
         /\ \E k2 \in GoodCalls :
              /\ k2 = wfCall'[c] /\ k2.op = op /\ k2.at = FirstCommand(op) /\ k2.ssid = s
              /\ k2.psk = p /\ k2.waiting = 0 /\ k2.told = "nothing"
         /\ \A d \in WifiCallers \ {c} : \E k \in GoodCalls, k2 \in GoodCalls :
              /\ k = wfCall[d] /\ k2 = wfCall'[d] /\ (~UnderWay(k) => k2 = k)
              /\ k2.op = k.op /\ k2.told = k.told /\ k2.ssid = k.ssid /\ k2.psk = k.psk
              /\ k2.id = k.id /\ k2.at = k.at /\ k2.new = k.new /\ k2.waiting = k.waiting
         /\ (\A d \in WifiCallers : ~InCall(d)) =>
              wfSpoiled' = IF p = "short" THEN wfSpoiled \union {s} ELSE wfSpoiled
         /\ (\E d \in WifiCallers : InCall(d)) =>
              wfSpoiled' = Ssids /\ \A d \in WifiCallers : InCall(d)' => wfCall'[d].calm = 0
<1> DEFINE others == {d \in WifiCallers \ {c} : InCall(d)}
<1>a. ~InCall(c) /\ wfCall \in [WifiCallers -> GoodCalls]
  BY WiFiBaseIs DEF CallStart, CallsOK
<1>b. op \in {"connect", "forget", "disconnect", "list", "status"}
  BY DEF Ops
<1>c. FirstCommand(op) \in Steps(op) \intersect Commands
  BY <1>b DEF FirstCommand, Steps, Commands
<1>1. PICK b, e, k2 :
        /\ b \in {0, 1} /\ e \in {0, 1}
        /\ k2 = [Rest EXCEPT !.op = op, !.at = FirstCommand(op), !.ssid = s, !.psk = p,
                             !.calm = b, !.seen = e]
        /\ k2 = wfCall'[c] /\ (others # {} => b = 0)
  <2>1. PICK b \in {0, 1} : b = IF others = {} THEN 1 ELSE 0
    OBVIOUS
  <2>2. PICK e \in {0, 1} : e = IF wfLinked = 1 /\ wfNets[wfCurrent].ssid = s THEN 1 ELSE 0
    OBVIOUS
  <2>3. wfCall'[c] = [Rest EXCEPT !.op = op, !.at = FirstCommand(op), !.ssid = s, !.psk = p,
                                  !.calm = b, !.seen = e]
    BY <2>1, <2>2 DEF CallStart
  <2> QED
    BY <2>1, <2>3
<1>2. /\ k2.op = op /\ k2.at = FirstCommand(op) /\ k2.ssid = s /\ k2.psk = p /\ k2.waiting = 0
      /\ k2.told = "nothing" /\ k2.calm = b
  BY <1>1 DEF Rest
<1>3. k2 \in GoodCalls
  <2>1. k2 \in CallStates
    BY <1>1, <1>c, WiFiFacts, ZenonT(60) DEF Rest, CallStates, Keys, Ops
  <2> QED
    BY <1>2, <1>c, <2>1 DEF GoodCalls
<1>4. ASSUME NEW d \in WifiCallers \ {c}
      PROVE  \E k \in GoodCalls, j \in GoodCalls :
              /\ k = wfCall[d] /\ j = wfCall'[d] /\ (~UnderWay(k) => j = k)
              /\ j.op = k.op /\ j.told = k.told /\ j.ssid = k.ssid /\ j.psk = k.psk
              /\ j.id = k.id /\ j.at = k.at /\ j.new = k.new /\ j.waiting = k.waiting
              /\ UnderWay(k) => j.calm = 0
  <2>1. PICK k \in GoodCalls : k = wfCall[d]
    BY <1>a
  <2>2. PICK j : j = IF UnderWay(k) THEN [k EXCEPT !.calm = 0] ELSE k
    OBVIOUS
  <2>3. d \in others <=> UnderWay(k)
    BY <2>1 DEF InCall, UnderWay
  <2>4. j = wfCall'[d]
    BY <2>1, <2>2, <2>3 DEF CallStart
  <2>5. /\ j \in GoodCalls /\ j.op = k.op /\ j.told = k.told /\ j.ssid = k.ssid /\ j.psk = k.psk
        /\ j.id = k.id /\ j.at = k.at /\ j.new = k.new /\ j.waiting = k.waiting
        /\ UnderWay(k) => j.calm = 0
    BY <2>2 DEF GoodCalls, CallStates, UnderWay
  <2> QED
    BY <2>1, <2>2, <2>4, <2>5
<1>5. wfSpoiled' = IF others # {} THEN Ssids
                   ELSE IF p = "short" THEN wfSpoiled \union {s} ELSE wfSpoiled
  BY DEF CallStart
<1>6. ASSUME NEW d0 \in WifiCallers, InCall(d0)
      PROVE  wfSpoiled' = Ssids /\ \A d \in WifiCallers : InCall(d)' => wfCall'[d].calm = 0
  <2>1. d0 \in others
    BY <1>6, <1>a
  <2>2. wfSpoiled' = Ssids /\ b = 0
    BY <2>1, <1>1, <1>5
  <2>3. ASSUME NEW d \in WifiCallers, InCall(d)' PROVE wfCall'[d].calm = 0
    <3>1. CASE d = c
      BY <3>1, <2>2, <1>1, <1>2
    <3>2. CASE d # c
      <4>1. PICK k \in GoodCalls, j \in GoodCalls :
              /\ k = wfCall[d] /\ j = wfCall'[d] /\ j.op = k.op /\ j.told = k.told
              /\ UnderWay(k) => j.calm = 0
        BY <3>2, <1>4
      <4>2. UnderWay(k)
        BY <2>3, <4>1 DEF InCall, UnderWay
      <4> QED
        BY <4>1, <4>2
    <3> QED
      BY <3>1, <3>2
  <2> QED
    BY <2>2, <2>3
<1>7. ASSUME \A d \in WifiCallers : ~InCall(d)
      PROVE  wfSpoiled' = IF p = "short" THEN wfSpoiled \union {s} ELSE wfSpoiled
  <2>1. others = {}
    BY <1>7
  <2> QED
    BY <2>1, <1>5
<1> HIDE DEF others
<1>8. \E k3 \in GoodCalls :
        /\ k3 = wfCall'[c] /\ k3.op = op /\ k3.at = FirstCommand(op) /\ k3.ssid = s
        /\ k3.psk = p /\ k3.waiting = 0 /\ k3.told = "nothing"
  BY <1>1, <1>2, <1>3
<1>9. \A d \in WifiCallers \ {c} : \E k \in GoodCalls, j \in GoodCalls :
        /\ k = wfCall[d] /\ j = wfCall'[d] /\ (~UnderWay(k) => j = k)
        /\ j.op = k.op /\ j.told = k.told /\ j.ssid = k.ssid /\ j.psk = k.psk
        /\ j.id = k.id /\ j.at = k.at /\ j.new = k.new /\ j.waiting = k.waiting
  BY <1>4
<1> QED
  BY <1>a, <1>6, <1>7, <1>8, <1>9

\* Who waits for a reply.
LEMMA WaitingIs ==
  /\ Waiting \in SUBSET WifiCallers /\ IsFiniteSet(Waiting) /\ Cardinality(Waiting) \in Nat
  /\ \A c \in WifiCallers : \A k : k = wfCall[c] =>
        (c \in Waiting <=> UnderWay(k) /\ k.waiting = 1) /\ (InCall(c) <=> UnderWay(k))
<1>1. Waiting \in SUBSET WifiCallers
  BY DEF Waiting
<1>2. IsFiniteSet(Waiting)
  BY <1>1, WiFiAssumption, FS_Subset
<1>3. Cardinality(Waiting) \in Nat
  BY <1>2, FS_CardinalityType
<1>4. \A c \in WifiCallers : \A k : k = wfCall[c] =>
        (c \in Waiting <=> UnderWay(k) /\ k.waiting = 1) /\ (InCall(c) <=> UnderWay(k))
  BY DEF Waiting, InCall, UnderWay
<1> QED
  BY <1>1, <1>2, <1>3, <1>4

\* At most one reply per caller that waits is under way, besides the late ones.
LEMMA LagNext ==
  ASSUME WiFiBase, SocketInv, LagInv, [WiFiNext]_wfVars
  PROVE  LagInv'
<1>a. WireOK /\ wfLate \in Nat /\ Outstanding \in Nat
  BY WiFiBaseIs, QueueLengths DEF WiFiCountsOK
<1>b. PICK W : W = Waiting
  OBVIOUS
<1>c. PICK W2 : W2 = Waiting'
  OBVIOUS
<1>d. /\ W \in SUBSET WifiCallers /\ IsFiniteSet(W) /\ Cardinality(W) \in Nat
      /\ \A c \in WifiCallers : \A k : k = wfCall[c] => (c \in W <=> UnderWay(k) /\ k.waiting = 1)
  BY <1>b, WaitingIs
<1>e. /\ W2 \in SUBSET WifiCallers
      /\ \A c \in WifiCallers : \A k : k = wfCall'[c] => (c \in W2 <=> UnderWay(k) /\ k.waiting = 1)
  BY <1>c DEF Waiting, InCall, UnderWay
<1>f. Outstanding <= wfLate + Cardinality(W)
  BY <1>b DEF LagInv
<1>g. SUFFICES Outstanding' <= wfLate' + Cardinality(W2)
  BY <1>c DEF LagInv
<1>1. ASSUME NEW c \in WifiCallers, SendCommand(c) PROVE Outstanding' <= wfLate' + Cardinality(W2)
  <2>1. PICK k \in GoodCalls, k2 \in GoodCalls, q \in Queries :
           /\ k = wfCall[c] /\ k2 = wfCall'[c] /\ UnderWay(k) /\ k.waiting = 0 /\ k2.waiting = 1
           /\ k2.op = k.op /\ k2.told = k.told
           /\ wfRequests' = Append(wfRequests, q)
           /\ \A d \in WifiCallers \ {c} : wfCall'[d] = wfCall[d]
    BY <1>1, SendMoves
  <2>2. Outstanding' = Outstanding + 1 /\ wfLate' = wfLate
    <3>1. wfReplies' = wfReplies /\ wfLate' = wfLate
      BY <1>1 DEF SendCommand
    <3> QED
      BY <2>1, <3>1, <1>a, ItemSend
  <2>3. c \notin W /\ c \in W2
    BY <2>1, <1>d, <1>e DEF UnderWay
  <2>4. \A d \in WifiCallers \ {c} : d \in W2 <=> d \in W
    BY <2>1, <1>d, <1>e
  <2>5. W2 = W \union {c}
    BY <2>3, <2>4, <1>d, <1>e
  <2>6. Cardinality(W2) = Cardinality(W) + 1
    BY <2>3, <2>5, <1>d, FS_AddElement
  <2> QED
    BY <2>2, <2>6, <1>a, <1>d, <1>f
<1>2. ASSUME NEW c \in WifiCallers, TakeReply(c) \/ ReplyTimeout(c)
      PROVE  Outstanding' <= wfLate' + Cardinality(W2)
  <2>1. PICK k \in GoodCalls, k2 \in GoodCalls :
           /\ k = wfCall[c] /\ k2 = wfCall'[c] /\ UnderWay(k) /\ k2.waiting = 0
           /\ \A d \in WifiCallers \ {c} : wfCall'[d] = wfCall[d]
    BY <1>2, ReplyMoves
  <2>2. k.waiting = 1
    BY <1>2, <2>1 DEF TakeReply, ReplyTimeout
  <2>3. c \in W /\ c \notin W2
    BY <2>1, <2>2, <1>d, <1>e
  <2>4. \A d \in WifiCallers \ {c} : d \in W2 <=> d \in W
    BY <2>1, <1>d, <1>e
  <2>5. W2 = W \ {c}
    BY <2>3, <2>4, <1>d, <1>e
  <2>6. Cardinality(W2) = Cardinality(W) - 1 /\ Cardinality(W2) \in Nat
    <3>1. IsFiniteSet(W2) /\ Cardinality(W2) = Cardinality(W) - 1
      BY <2>3, <2>5, <1>d, FS_RemoveElement
    <3> QED
      BY <3>1, FS_CardinalityType
  <2>7. CASE TakeReply(c)
    <3>1. wfReplies # <<>> /\ wfReplies' = Tail(wfReplies) /\ wfRequests' = wfRequests /\ wfLate' = wfLate
      BY <2>7 DEF TakeReply
    <3>2. Outstanding' = Outstanding - 1
      BY <3>1, <1>a, ItemTake
    <3> QED
      BY <3>1, <3>2, <2>6, <1>a, <1>d, <1>f
  <2>8. CASE ReplyTimeout(c)
    <3>1. /\ wfReplies' = wfReplies /\ wfRequests' = wfRequests /\ wfReplies = <<>>
          /\ (wfRequests = <<>> /\ wfLate' = wfLate) \/ wfLate' = wfLate + 1
      BY <2>8 DEF ReplyTimeout
    <3>2. Outstanding' = Outstanding
      BY <3>1, ItemSame
    <3>3. wfRequests = <<>> => Outstanding = 0
      BY <3>1, <1>a, QueueLengths
    <3> QED
      BY <3>1, <3>2, <3>3, <2>6, <1>a, <1>d, <1>f
  <2> QED
    BY <1>2, <2>7, <2>8
<1>3. ASSUME W2 = W, wfLate' = wfLate, Outstanding' <= Outstanding, Outstanding' \in Nat
      PROVE  Outstanding' <= wfLate' + Cardinality(W2)
  <2>1. Cardinality(W2) = Cardinality(W)
    BY <1>3
  <2> QED
    BY <1>3, <2>1, <1>a, <1>d, <1>f
<1>4. ASSUME NEW c \in WifiCallers, SendFails(c) PROVE Outstanding' <= wfLate' + Cardinality(W2)
  <2>1. PICK k \in GoodCalls, k2 \in GoodCalls :
           /\ k = wfCall[c] /\ k2 = wfCall'[c] /\ k2.waiting = 0
           /\ \A d \in WifiCallers \ {c} : wfCall'[d] = wfCall[d]
    BY <1>4, ReplyMoves
  <2>2. k.waiting = 0 /\ wfReplies' = <<>> /\ wfRequests' = <<>> /\ wfLate' = wfLate
    BY <1>4, <2>1 DEF SendFails, SocketInv
  <2>3. c \notin W /\ c \notin W2 /\ \A d \in WifiCallers \ {c} : d \in W2 <=> d \in W
    BY <2>1, <2>2, <1>d, <1>e
  <2>4. W2 = W
    BY <2>3, <1>d, <1>e
  <2>5. Outstanding' = 0
    BY <2>2 DEF Outstanding
  <2> QED
    BY <2>2, <2>4, <2>5, <1>3, <1>a
<1>5. ASSUME NEW c \in WifiCallers, NEW op \in Ops, NEW s \in Ssids \union {0},
             NEW p \in Keys \union {"short"}, CallStart(c, op, s, p)
      PROVE  Outstanding' <= wfLate' + Cardinality(W2)
  <2>1. c \notin W
    <3>1. ~InCall(c)
      BY <1>5, StartMoves
    <3> QED
      BY <3>1, <1>b DEF Waiting
  <2>2. c \notin W2
    <3>1. PICK k2 \in GoodCalls : k2 = wfCall'[c] /\ k2.waiting = 0
      BY <1>5, StartMoves
    <3> QED
      BY <3>1, <1>e
  <2>3. ASSUME NEW d \in WifiCallers \ {c} PROVE d \in W2 <=> d \in W
    <3>1. PICK k \in GoodCalls, k2 \in GoodCalls :
              /\ k = wfCall[d] /\ k2 = wfCall'[d]
              /\ k2.op = k.op /\ k2.told = k.told /\ k2.waiting = k.waiting
      BY <1>5, StartMoves
    <3> QED
      BY <3>1, <1>d, <1>e DEF UnderWay
  <2>4. W2 = W
    BY <2>1, <2>2, <2>3, <1>d, <1>e
  <2>5. wfReplies' = wfReplies /\ wfRequests' = wfRequests /\ wfLate' = wfLate
    BY <1>5 DEF CallStart
  <2>6. Outstanding' = Outstanding
    BY <2>5, ItemSame
  <2> QED
    BY <2>4, <2>5, <2>6, <1>3, <1>a
<1>6. ASSUME DaemonAnswers \/ LinkUp \/ DaemonRestarts \/ UNCHANGED wfVars
      PROVE  Outstanding' <= wfLate' + Cardinality(W2)
  <2>1. ASSUME NEW d \in WifiCallers PROVE d \in W2 <=> d \in W
    <3>1. PICK k \in GoodCalls, k2 \in GoodCalls :
              /\ k = wfCall[d] /\ k2 = wfCall'[d]
              /\ k2.op = k.op /\ k2.told = k.told /\ k2.waiting = k.waiting
      BY <1>6, DaemonMoves
    <3> QED
      BY <3>1, <1>d, <1>e DEF UnderWay
  <2>2. W2 = W
    BY <2>1, <1>d, <1>e
  <2>3. wfLate' = wfLate
    BY <1>6 DEF DaemonAnswers, LinkUp, DaemonRestarts, wfVars
  <2>4. Outstanding' <= Outstanding /\ Outstanding' \in Nat
    <3>1. CASE DaemonAnswers
      BY <3>1, <1>a, ItemAnswer
    <3>2. CASE LinkUp \/ UNCHANGED wfVars
      <4>1. wfReplies' = wfReplies /\ wfRequests' = wfRequests
        BY <3>2 DEF LinkUp, wfVars
      <4>2. Outstanding' = Outstanding
        BY <4>1, ItemSame
      <4> QED
        BY <4>2, <1>a
    <3>3. CASE DaemonRestarts
      <4>1. wfReplies' = wfReplies /\ wfRequests' = <<>>
        BY <3>3 DEF DaemonRestarts
      <4>2. Outstanding' = Len(wfReplies)
        <5>1. Len(wfReplies) \in Nat
          BY <1>a DEF WireOK
        <5> QED
          BY <4>1, <5>1 DEF Outstanding
      <4>3. Outstanding = Len(wfReplies) + Len(wfRequests) /\ Len(wfReplies) \in Nat /\ Len(wfRequests) \in Nat
        BY <1>a DEF Outstanding, WireOK
      <4> QED
        BY <4>2, <4>3
    <3> QED
      BY <1>6, <3>1, <3>2, <3>3
  <2> QED
    BY <2>2, <2>3, <2>4, <1>3
<1> QED
  BY <1>1, <1>2, <1>4, <1>5, <1>6, WiFiSteps

\* The steps that start no call.
Goes == \/ \E d \in WifiCallers : SendCommand(d) \/ SendFails(d) \/ TakeReply(d) \/ ReplyTimeout(d)
        \/ DaemonAnswers \/ LinkUp \/ DaemonRestarts \/ UNCHANGED wfVars

LEMMA OldCalls ==
  ASSUME WiFiBase, Goes
  PROVE  /\ \A c \in WifiCallers : \E k \in GoodCalls, k2 \in GoodCalls :
              /\ k = wfCall[c] /\ k2 = wfCall'[c] /\ k2.op = k.op /\ k2.ssid = k.ssid
              /\ k2.psk = k.psk /\ (UnderWay(k2) => UnderWay(k)) /\ (k2.calm = 1 => k.calm = 1)
              /\ k.seen = 1 => k2.seen = 1
              /\ ~UnderWay(k) => k2 = k
         /\ (wfSpoiled' = wfSpoiled /\ wfLate' = wfLate) \/ wfSpoiled' = Ssids
<1>a. wfCall \in [WifiCallers -> GoodCalls]
  BY WiFiBaseIs DEF CallsOK
<1>1. ASSUME NEW c \in WifiCallers
      PROVE  \E k \in GoodCalls, k2 \in GoodCalls :
              /\ k = wfCall[c] /\ k2 = wfCall'[c] /\ k2.op = k.op /\ k2.ssid = k.ssid
              /\ k2.psk = k.psk /\ (UnderWay(k2) => UnderWay(k)) /\ (k2.calm = 1 => k.calm = 1)
              /\ k.seen = 1 => k2.seen = 1
              /\ ~UnderWay(k) => k2 = k
  <2>1. CASE DaemonAnswers \/ LinkUp \/ DaemonRestarts \/ UNCHANGED wfVars
    <3>1. PICK k \in GoodCalls, k2 \in GoodCalls :
           /\ k = wfCall[c] /\ k2 = wfCall'[c]
           /\ k2.op = k.op /\ k2.told = k.told /\ k2.ssid = k.ssid /\ k2.psk = k.psk
           /\ k.seen = 1 => k2.seen = 1
           /\ k2.calm = 1 => k.calm = 1
           /\ ~UnderWay(k) => k2 = k
      BY <2>1, DaemonMoves
    <3> QED
      BY <3>1 DEF UnderWay
  <2>2. ASSUME NEW d \in WifiCallers, wfCall'[c] = wfCall[c]
        PROVE  \E k \in GoodCalls, k2 \in GoodCalls :
              /\ k = wfCall[c] /\ k2 = wfCall'[c] /\ k2.op = k.op /\ k2.ssid = k.ssid
              /\ k2.psk = k.psk /\ (UnderWay(k2) => UnderWay(k)) /\ (k2.calm = 1 => k.calm = 1)
              /\ k.seen = 1 => k2.seen = 1
              /\ ~UnderWay(k) => k2 = k
    <3>1. PICK k \in GoodCalls : k = wfCall[c]
      BY <1>a
    <3> QED
      BY <2>2, <3>1
  <2>3. ASSUME NEW d \in WifiCallers, SendCommand(d)
        PROVE  \E k \in GoodCalls, k2 \in GoodCalls :
              /\ k = wfCall[c] /\ k2 = wfCall'[c] /\ k2.op = k.op /\ k2.ssid = k.ssid
              /\ k2.psk = k.psk /\ (UnderWay(k2) => UnderWay(k)) /\ (k2.calm = 1 => k.calm = 1)
              /\ k.seen = 1 => k2.seen = 1
              /\ ~UnderWay(k) => k2 = k
    <3>1. PICK k \in GoodCalls, k2 \in GoodCalls :
           /\ k = wfCall[d] /\ k2 = wfCall'[d] /\ UnderWay(k)
           /\ k2.op = k.op /\ k2.ssid = k.ssid /\ k2.psk = k.psk
           /\ k2.seen = k.seen /\ k2.calm = k.calm
           /\ \A e \in WifiCallers \ {d} : wfCall'[e] = wfCall[e]
      BY <2>3, SendMoves
    <3>2. CASE d = c
      BY <3>1, <3>2
    <3>3. CASE d # c
      BY <3>1, <3>3, <2>2
    <3> QED
      BY <3>2, <3>3
  <2>4. ASSUME NEW d \in WifiCallers, SendFails(d) \/ TakeReply(d) \/ ReplyTimeout(d)
        PROVE  \E k \in GoodCalls, k2 \in GoodCalls :
              /\ k = wfCall[c] /\ k2 = wfCall'[c] /\ k2.op = k.op /\ k2.ssid = k.ssid
              /\ k2.psk = k.psk /\ (UnderWay(k2) => UnderWay(k)) /\ (k2.calm = 1 => k.calm = 1)
              /\ k.seen = 1 => k2.seen = 1
              /\ ~UnderWay(k) => k2 = k
    <3>1. PICK k \in GoodCalls, k2 \in GoodCalls :
           /\ k = wfCall[d] /\ k2 = wfCall'[d] /\ UnderWay(k)
           /\ k2.op = k.op /\ k2.ssid = k.ssid /\ k2.psk = k.psk
           /\ k2.seen = k.seen /\ (k2.calm = 1 => k.calm = 1)
           /\ \A e \in WifiCallers \ {d} : wfCall'[e] = wfCall[e]
      <4>1. PICK k \in GoodCalls, k2 \in GoodCalls :
           /\ k = wfCall[d] /\ k2 = wfCall'[d] /\ UnderWay(k)
           /\ k2.op = k.op /\ k2.ssid = k.ssid /\ k2.psk = k.psk
           /\ k2.seen = k.seen /\ (k2.calm = 0 \/ k2.calm = k.calm)
           /\ \A e \in WifiCallers \ {d} : wfCall'[e] = wfCall[e]
        BY <2>4, ReplyMoves
      <4> QED
        BY <4>1
    <3>2. CASE d = c
      BY <3>1, <3>2
    <3>3. CASE d # c
      BY <3>1, <3>3, <2>2
    <3> QED
      BY <3>2, <3>3
  <2> QED
    BY <2>1, <2>3, <2>4 DEF Goes
<1>2. (wfSpoiled' = wfSpoiled /\ wfLate' = wfLate) \/ wfSpoiled' = Ssids
  <2>1. ASSUME NEW d \in WifiCallers, SendCommand(d) \/ SendFails(d) \/ TakeReply(d) \/ ReplyTimeout(d)
        PROVE  (wfSpoiled' = wfSpoiled /\ wfLate' = wfLate) \/ wfSpoiled' = Ssids
    BY <2>1 DEF SendCommand, SendFails, TakeReply, ReplyTimeout
  <2>2. CASE DaemonAnswers \/ LinkUp \/ DaemonRestarts \/ UNCHANGED wfVars
    BY <2>2 DEF DaemonAnswers, LinkUp, DaemonRestarts, wfVars
  <2> QED
    BY <2>1, <2>2 DEF Goes
<1> QED
  BY <1>1, <1>2

\* A call that nothing disturbed is the only one.
LEMMA AloneNext ==
  ASSUME WiFiBase, AloneInv, [WiFiNext]_wfVars
  PROVE  AloneInv'
<1> SUFFICES ASSUME NEW c \in WifiCallers, InCall(c)', wfCall'[c].calm = 1 \/ wfSpoiled' # Ssids,
                    NEW d \in WifiCallers, InCall(d)'
             PROVE  d = c
  BY DEF AloneInv
<1>1. CASE Goes
  <2>1. ASSUME NEW e \in WifiCallers, InCall(e)' PROVE InCall(e)
    <3>1. PICK k \in GoodCalls, k2 \in GoodCalls :
              k = wfCall[e] /\ k2 = wfCall'[e] /\ (UnderWay(k2) => UnderWay(k))
      BY <1>1, OldCalls
    <3> QED
      BY <2>1, <3>1 DEF InCall, UnderWay
  <2>2. wfCall'[c].calm = 1 => wfCall[c].calm = 1
    BY <1>1, OldCalls
  <2>3. wfSpoiled' # Ssids => wfSpoiled # Ssids
    BY <1>1, OldCalls
  <2> QED
    BY <2>1, <2>2, <2>3 DEF AloneInv
<1>2. ASSUME NEW e \in WifiCallers, NEW op \in Ops, NEW s \in Ssids \union {0},
             NEW p \in Keys \union {"short"}, CallStart(e, op, s, p)
      PROVE  d = c
  <2>1. \A f \in WifiCallers : ~InCall(f)
    BY <1>2, StartMoves, SMTT(30)
  <2>2. ASSUME NEW f \in WifiCallers, InCall(f)' PROVE f = e
    <3>1. SUFFICES ASSUME f # e PROVE FALSE
      OBVIOUS
    <3>2. PICK k \in GoodCalls, k2 \in GoodCalls :
              /\ k = wfCall[f] /\ k2 = wfCall'[f] /\ k2.op = k.op /\ k2.told = k.told
      BY <1>2, <3>1, StartMoves, SMTT(30)
    <3>3. InCall(f)
      BY <2>2, <3>2 DEF InCall
    <3> QED
      BY <2>1, <3>3
  <2> QED
    BY <2>2
<1> QED
  BY <1>1, <1>2, WiFiSteps DEF Goes

\* The socket to a daemon that is gone holds no requests.
LEMMA SocketNext ==
  ASSUME WiFiBase, SocketInv, [WiFiNext]_wfVars
  PROVE  SocketInv'
<1>1. CASE Goes
  <2>1. ASSUME NEW c \in WifiCallers, SendCommand(c) \/ SendFails(c) PROVE wfSocket' = 1
    BY <2>1 DEF SendCommand, SendFails
  <2>2. ASSUME NEW c \in WifiCallers, TakeReply(c) \/ ReplyTimeout(c)
        PROVE  wfSocket' = wfSocket /\ wfRequests' = wfRequests
    BY <2>2 DEF TakeReply, ReplyTimeout
  <2>3. DaemonAnswers => wfSocket' = wfSocket /\ wfRequests # <<>>
    BY DEF DaemonAnswers
  <2>4. LinkUp \/ UNCHANGED wfVars => wfSocket' = wfSocket /\ wfRequests' = wfRequests
    BY DEF LinkUp, wfVars
  <2>5. DaemonRestarts => wfRequests' = <<>>
    BY DEF DaemonRestarts
  <2> QED
    BY <1>1, <2>1, <2>2, <2>3, <2>4, <2>5 DEF Goes, SocketInv
<1>2. ASSUME NEW e \in WifiCallers, NEW op, NEW s, NEW p, CallStart(e, op, s, p)
      PROVE  SocketInv'
  BY <1>2 DEF CallStart, SocketInv
<1> QED
  BY <1>1, <1>2, WiFiSteps DEF Goes

\* What was appended is determined by the result.
LEMMA SameAppended ==
  ASSUME NEW S, NEW t \in Seq(S), NEW x \in S, NEW y \in S, Append(t, x) = Append(t, y)
  PROVE  x = y
  BY Append(t, x)[Len(t) + 1] = x, Append(t, y)[Len(t) + 1] = y

\* A list of networks that nothing followed is true.
LEMMA ListNext ==
  ASSUME WiFiBase, ListInv, SocketInv, [WiFiNext]_wfVars
  PROVE  ListInv'
<1> SUFFICES ASSUME wfSocket' = 1, wfRequests' = <<>>, wfReplies' # <<>>,
                    wfReplies'[Len(wfReplies')].kind = "list"
             PROVE  wfReplies'[Len(wfReplies')].nets = wfNets'
  BY DEF ListInv
<1>a. WireOK
  BY WiFiBaseIs
<1>1. ASSUME wfSocket = 1, wfRequests' = wfRequests, wfReplies' = wfReplies, wfNets' = wfNets
      PROVE  wfReplies'[Len(wfReplies')].nets = wfNets'
  BY <1>1 DEF ListInv
<1>2. ASSUME NEW e \in WifiCallers, NEW op, NEW s, NEW p, CallStart(e, op, s, p)
      PROVE  wfReplies'[Len(wfReplies')].nets = wfNets'
  BY <1>1, <1>2 DEF CallStart, wfDaemon
<1>3. CASE LinkUp \/ UNCHANGED wfVars
  BY <1>1, <1>3 DEF LinkUp, wfVars
<1>4. CASE DaemonRestarts
  BY <1>4 DEF DaemonRestarts
<1>5. ASSUME NEW c \in WifiCallers, SendCommand(c) PROVE FALSE
  <2>1. PICK q \in Queries : wfRequests' = Append(wfRequests, q)
    BY <1>5, SendMoves
  <2> QED
    BY <2>1, <1>a DEF WireOK
<1>6. ASSUME NEW c \in WifiCallers, SendFails(c) PROVE FALSE
  BY <1>6 DEF SendFails
<1>7. ASSUME NEW c \in WifiCallers, ReplyTimeout(c)
      PROVE  wfReplies'[Len(wfReplies')].nets = wfNets'
  BY <1>1, <1>7 DEF ReplyTimeout, wfDaemon
<1>8. ASSUME NEW c \in WifiCallers, TakeReply(c)
      PROVE  wfReplies'[Len(wfReplies')].nets = wfNets'
  <2>1. /\ wfReplies' = Tail(wfReplies) /\ wfReplies # <<>> /\ wfRequests' = wfRequests
        /\ wfSocket' = wfSocket /\ wfNets' = wfNets
    BY <1>8 DEF TakeReply, wfDaemon
  <2>2. /\ Len(wfReplies) \in Nat \ {0} /\ Len(Tail(wfReplies)) = Len(wfReplies) - 1
        /\ \A j \in 1..(Len(wfReplies) - 1) : Tail(wfReplies)[j] = wfReplies[j + 1]
    BY <1>a, <2>1 DEF WireOK
  <2>3. Len(wfReplies) - 1 \in 1..(Len(wfReplies) - 1)
    BY <2>1, <2>2, <1>a DEF WireOK
  <2>4. Tail(wfReplies)[Len(wfReplies) - 1] = wfReplies[Len(wfReplies)]
    BY <2>2, <2>3
  <2>5. wfReplies'[Len(wfReplies')] = wfReplies[Len(wfReplies)]
    BY <2>1, <2>2, <2>4
  <2> QED
    BY <2>1, <2>5 DEF ListInv
<1>9. CASE DaemonAnswers
  <2>1. PICK q \in Queries : q = Head(wfRequests)
    BY <1>9, <1>a DEF WireOK, DaemonAnswers
  <2>2. PICK r \in Answers : wfReplies' = Append(wfReplies, r) /\ Fits(q.c, r)
    BY <1>9, <2>1, AnswerFits
  <2>3. wfReplies'[Len(wfReplies')] = r
    BY <2>2, <1>a DEF WireOK
  <2>4. q.c = "list"
    BY <2>2, <2>3 DEF Fits, Queries, Commands
  <2>5. wfReplies' = Append(wfReplies, Reply("list", 0, wfNets)) /\ wfNets' = wfNets
    BY <1>9, <2>1, <2>4, AnswerEffect DEF wfDaemon
  <2>6. r = Reply("list", 0, wfNets)
    <3>1. PICK r2 \in Answers : r2 = Reply("list", 0, wfNets)
      BY WiFiBaseIs, ReplyTypes DEF NetsOK
    <3>2. wfReplies' = Append(wfReplies, r2)
      BY <2>5, <3>1
    <3> QED
      BY <2>2, <3>1, <3>2, <1>a, SameAppended DEF WireOK
  <2> QED
    BY <2>3, <2>5, <2>6 DEF Reply
<1> QED
  BY <1>2, <1>3, <1>4, <1>5, <1>6, <1>7, <1>8, <1>9, WiFiSteps

\* What a reply makes of a plan.
LEMMA PlannedReply ==
  ASSUME NEW k \in GoodCalls, UnderWay(k), NEW r \in Answers, NEW next \in AfterReply(k, r),
         k.at \in {"add", "ssid", "key"} => k.new = 1
  PROVE  next.told = "nothing" /\ next.at \in {"add", "ssid", "key"} => next.new = 1
<1>1. CASE k.op = "connect"
  <2>1. k.at \in {"list", "add", "ssid", "key", "bssid", "select", "status", "remove", "save"}
    BY <1>1 DEF GoodCalls, UnderWay, Steps
  <2>2. CASE k.at \in {"list", "add", "ssid"}
    BY <1>1, <2>2, ConnectGoesOn
  <2>3. CASE k.at \in {"key", "bssid", "select", "status", "remove", "save"}
    BY <1>1, <2>3, ConnectGoesOn
  <2> QED
    BY <2>1, <2>2, <2>3
<1>2. CASE k.op # "connect"
  BY <1>2, OthersGoOn
<1> QED
  BY <1>1, <1>2

\* A connect keeps its name and password; a late reply, calls that overlap and a password the
\* daemon does not accept are recorded.
LEMMA PlanNext ==
  ASSUME WiFiBase, PlanInv, [WiFiNext]_wfVars
  PROVE  PlanInv'
<1>a. wfSpoiled \subseteq Ssids
  BY WiFiBaseIs DEF WiFiCountsOK
<1>b. \A c \in WifiCallers, k \in GoodCalls : k = wfCall[c] /\ UnderWay(k) => Planned(k)
  BY DEF PlanInv
<1>1. CASE Goes
  <2>1. wfSpoiled \subseteq wfSpoiled' /\ (wfSpoiled' # Ssids => wfLate' = 0)
    BY <1>1, <1>a, OldCalls DEF PlanInv
  <2>2. ASSUME NEW c \in WifiCallers, NEW k2 \in GoodCalls, k2 = wfCall'[c], UnderWay(k2)
        PROVE  Planned(k2)'
    <3>1. PICK k \in GoodCalls : /\ k = wfCall[c] /\ k2.op = k.op /\ k2.ssid = k.ssid
                                 /\ k2.psk = k.psk /\ UnderWay(k)
      BY <1>1, <2>2, OldCalls
    <3>2. Planned(k)
      BY <1>b, <3>1
    <3>3. k2.at \in {"add", "ssid", "key"} => k2.new = 1
      <4>1. ASSUME NEW d \in WifiCallers, SendCommand(d) PROVE k2.at = k.at /\ k2.new = k.new
        <5>1. PICK j \in GoodCalls, j2 \in GoodCalls :
                 /\ j = wfCall[d] /\ j2 = wfCall'[d] /\ j2.at = j.at /\ j2.new = j.new
                 /\ \A e \in WifiCallers \ {d} : wfCall'[e] = wfCall[e]
          BY <4>1, SendMoves
        <5> QED
          BY <5>1, <3>1, <2>2
      <4>2. ASSUME NEW d \in WifiCallers, SendFails(d) \/ TakeReply(d) \/ ReplyTimeout(d)
            PROVE  \/ k2.at = k.at /\ k2.new = k.new
                   \/ k2.at \in {"add", "ssid", "key"} => k2.new = 1
        <5>1. PICK j \in GoodCalls, j2 \in GoodCalls, r \in Answers : \E next \in AfterReply(j, r) :
                 /\ j = wfCall[d] /\ j2 = wfCall'[d] /\ UnderWay(j)
                 /\ \A e \in WifiCallers \ {d} : wfCall'[e] = wfCall[e]
                 /\ j2.told = next.told /\ j2.at = next.at /\ j2.new = next.new
          BY <4>2, ReplyMoves
        <5>2. CASE d = c
          <6>1. k = j /\ k2 = j2
            BY <5>1, <5>2, <3>1, <2>2
          <6>2. PICK next \in AfterReply(k, r) :
                  k2.told = next.told /\ k2.at = next.at /\ k2.new = next.new
            BY <5>1, <6>1
          <6>3. next.told = "nothing" /\ next.at \in {"add", "ssid", "key"} => next.new = 1
            BY <3>1, <3>2, PlannedReply DEF Planned
          <6> QED
            BY <6>2, <6>3, <2>2 DEF UnderWay
        <5>3. CASE d # c
          BY <5>1, <5>3, <3>1, <2>2
        <5> QED
          BY <5>2, <5>3
      <4>3. ASSUME DaemonAnswers \/ LinkUp \/ DaemonRestarts \/ UNCHANGED wfVars
            PROVE  k2.at = k.at /\ k2.new = k.new
        BY <4>3, <3>1, <2>2, DaemonMoves
      <4> QED
        BY <1>1, <4>1, <4>2, <4>3, <3>2 DEF Goes, Planned
    <3> QED
      BY <3>1, <3>2, <3>3, <2>1 DEF Planned
  <2> QED
    BY <2>1, <2>2 DEF PlanInv
<1>2. ASSUME NEW e \in WifiCallers, NEW op \in Ops, NEW s \in Ssids \union {0},
             NEW p \in Keys \union {"short"}, CallStart(e, op, s, p),
             op = "connect" => s \in Ssids /\ p # "none", op # "connect" => p = "none"
      PROVE  PlanInv'
  <2>1. wfLate' = wfLate
    BY <1>2 DEF CallStart
  <2>2. /\ wfSpoiled' = Ssids \/ wfSpoiled' = wfSpoiled \/ (wfSpoiled' = wfSpoiled \union {s} /\ p = "short")
        /\ p = "short" => wfSpoiled' = Ssids \/ wfSpoiled' = wfSpoiled \union {s}
    BY <1>2, StartMoves
  <2>3. p = "short" => s \in Ssids /\ s \in wfSpoiled'
    BY <1>2, <2>2
  <2>4. wfSpoiled \subseteq wfSpoiled' /\ (wfSpoiled' # Ssids => wfLate' = 0)
    <3>1. wfSpoiled \subseteq wfSpoiled'
      BY <2>2, <1>a
    <3>2. wfSpoiled = Ssids => wfSpoiled' = Ssids
      BY <2>2, <2>3
    <3> QED
      BY <3>1, <3>2, <2>1 DEF PlanInv
  <2>5. ASSUME NEW c \in WifiCallers, NEW k2 \in GoodCalls, k2 = wfCall'[c], UnderWay(k2)
        PROVE  Planned(k2)'
    <3>1. CASE c = e
      <4>1. k2.op = op /\ k2.at = FirstCommand(op) /\ k2.ssid = s /\ k2.psk = p
        BY <1>2, <2>5, <3>1, StartMoves
      <4>2. k2.at \notin {"add", "ssid", "key"}
        BY <4>1 DEF FirstCommand, Ops
      <4> QED
        BY <4>1, <4>2, <1>2, <2>3 DEF Planned
    <3>2. CASE c # e
      <4>1. PICK k \in GoodCalls :
              /\ k = wfCall[c] /\ k2.op = k.op /\ k2.told = k.told /\ k2.ssid = k.ssid
              /\ k2.psk = k.psk /\ k2.at = k.at /\ k2.new = k.new
        BY <1>2, <2>5, <3>2, StartMoves
      <4>2. Planned(k)
        BY <4>1, <2>5, <1>b DEF UnderWay
      <4> QED
        BY <4>1, <4>2, <2>4 DEF Planned
    <3> QED
      BY <3>1, <3>2
  <2> QED
    BY <2>4, <2>5 DEF PlanInv
<1> QED
  BY <1>1, <1>2, WiFiSteps DEF Goes

\* Of one element there is at most one.
LEMMA AtMostOne ==
  ASSUME NEW x, NEW T \in SUBSET {x}
  PROVE  Cardinality(T) <= 1
<1>1. IsFiniteSet({x}) /\ Cardinality({x}) = 1
  BY FS_Singleton
<1>2. Cardinality(T) <= Cardinality({x})
  BY <1>1, FS_Subset
<1> QED
  BY <1>1, <1>2

\* The stage of an undisturbed connect.
LEMMA StageNext ==
  ASSUME WiFiBase, LagInv, AloneInv, SocketInv, ListInv, PlanInv, StageInv, [WiFiNext]_wfVars
  PROVE  StageInv'
<1> SUFFICES ASSUME NEW c \in WifiCallers, NEW k2 \in GoodCalls, k2 = wfCall'[c],
                    k2.op = "connect", k2.calm = 1, wfLate' <= 2
             PROVE  /\ UnderWay(k2) /\ (k2.at # "list" \/ k2.waiting = 1) => wfSocket' = 1
                    /\ UnderWay(k2) => Stage(k2)'
                    /\ k2.told = "success" => k2.seen = 1
  BY DEF StageInv, Staged
<1>a. WireOK /\ wfLate \in Nat /\ Outstanding \in Nat
  BY WiFiBaseIs, QueueLengths DEF WiFiCountsOK
<1>b. Cardinality(Waiting) \in Nat /\ Outstanding <= wfLate + Cardinality(Waiting)
  BY WaitingIs DEF LagInv
<1>c. PICK k \in GoodCalls : k = wfCall[c]
  BY WiFiBaseIs DEF CallsOK
<1>d. wfLate <= 2
  <2>1. wfLate' = wfLate \/ wfLate' = wfLate + 1
    <3>1. ASSUME NEW e, NEW op, NEW s, NEW p, CallStart(e, op, s, p) PROVE wfLate' = wfLate
      BY <3>1 DEF CallStart
    <3>2. ASSUME NEW e, SendCommand(e) \/ SendFails(e) \/ TakeReply(e) \/ ReplyTimeout(e)
          PROVE  wfLate' = wfLate \/ wfLate' = wfLate + 1
      BY <3>2 DEF SendCommand, SendFails, TakeReply, ReplyTimeout
    <3>3. DaemonAnswers \/ LinkUp \/ DaemonRestarts \/ UNCHANGED wfVars => wfLate' = wfLate
      BY DEF DaemonAnswers, LinkUp, DaemonRestarts, wfVars
    <3> QED
      BY <3>1, <3>2, <3>3, WiFiSteps
  <2> QED
    BY <2>1, <1>a
<1>e. k.op = "connect" /\ k.calm = 1 =>
        /\ UnderWay(k) /\ (k.at # "list" \/ k.waiting = 1) => wfSocket = 1
        /\ UnderWay(k) => Stage(k)
        /\ k.told = "success" => k.seen = 1
  BY <1>c, <1>d DEF StageInv, Staged
<1> DEFINE Good == /\ UnderWay(k2) /\ (k2.at # "list" \/ k2.waiting = 1) => wfSocket' = 1
                   /\ UnderWay(k2) => Stage(k2)'
                   /\ k2.told = "success" => k2.seen = 1
<1> SUFFICES Good
  OBVIOUS
<1> HIDE DEF Good
<1>1. CASE Goes
  <2>1. /\ k2.op = k.op /\ k2.ssid = k.ssid /\ k2.psk = k.psk /\ (UnderWay(k2) => UnderWay(k))
        /\ k.calm = 1 /\ (~UnderWay(k) => k2 = k)
    BY <1>1, <1>c, OldCalls
  <2>2. CASE ~UnderWay(k)
    BY <2>1, <2>2, <1>e DEF Good
  <2>3. CASE UnderWay(k)
    <3>a. Stage(k) /\ k.op = "connect" /\ k.told = "nothing" /\ (k.waiting = 1 => wfSocket = 1)
          /\ (k.at # "list" => wfSocket = 1)
      BY <2>1, <2>3, <1>e DEF UnderWay
    <3>b. \A d \in WifiCallers : InCall(d) => d = c
      BY <1>c, <2>1, <2>3 DEF AloneInv, InCall, UnderWay
    <3>c. k.ssid \in Ssids
      BY <1>c, <2>3, <3>a DEF PlanInv, Planned
    <3>1. ASSUME NEW d \in WifiCallers, SendCommand(d) PROVE Good
      <4>1. d = c /\ wfSocket = 1 /\ wfSocket' = 1 /\ wfReplies' = wfReplies /\ UNCHANGED wfDaemon
        BY <3>1, <3>b DEF SendCommand
      <4>2. PICK q \in Queries :
           /\ k.waiting = 0 /\ k2.waiting = 1
           /\ k2.told = k.told /\ k2.id = k.id /\ k2.at = k.at /\ k2.seen = k.seen
           /\ q.c = k.at /\ q.ssid = k.ssid /\ q.psk = k.psk /\ q.id = k.id
           /\ wfRequests' = Append(wfRequests, q)
        BY <3>1, <4>1, <1>c, SendMoves
      <4>3. Stage(k2)'
        BY <4>1, <4>2, <2>1, <2>3, <3>a, StageSend
      <4> QED
        BY <4>1, <4>2, <4>3, <3>a DEF Good
    <3>2. ASSUME NEW d \in WifiCallers, SendFails(d) PROVE Good
      <4>1. d = c
        BY <3>2, <3>b DEF SendFails
      <4>2. k2.calm = 0
        BY <3>2, <4>1, ReplyMoves
      <4> QED
        BY <4>2
    <3>3. ASSUME NEW d \in WifiCallers, TakeReply(d) PROVE Good
      <4>1. /\ d = c /\ wfSocket' = wfSocket /\ wfReplies' = Tail(wfReplies) /\ wfReplies # <<>>
            /\ wfRequests' = wfRequests /\ UNCHANGED wfDaemon
        BY <3>3, <3>b DEF TakeReply
      <4>2. k.waiting = 1 /\ wfSocket = 1
        BY <3>3, <4>1, <1>c, <3>a DEF TakeReply
      <4>3. k2 \in AfterReply(k, Head(wfReplies))
        BY <3>3, <4>1, <1>c, ReplyMoves
      <4>4. (k2.told = "nothing" => Stage(k2)') /\ (k2.told = "success" => k2.seen = 1)
        BY <4>1, <4>2, <4>3, <2>3, <3>a, StageTake
      <4> QED
        BY <4>1, <4>2, <4>4 DEF Good, UnderWay
    <3>4. ASSUME NEW d \in WifiCallers, ReplyTimeout(d) PROVE Good
      <4>1. /\ d = c /\ wfSocket' = wfSocket /\ wfReplies' = wfReplies /\ wfReplies = <<>>
            /\ wfRequests' = wfRequests /\ UNCHANGED wfDaemon
            /\ wfRequests = <<>> \/ wfLate' = wfLate + 1
        BY <3>4, <3>b DEF ReplyTimeout
      <4>2. k.waiting = 1 /\ wfSocket = 1
        BY <3>4, <4>1, <1>c, <3>a DEF ReplyTimeout
      <4>3. k2 \in AfterReply(k, Silence)
        BY <3>4, <4>1, <1>c, ReplyMoves
      <4>4. Outstanding <= 2
        <5>1. CASE wfRequests = <<>>
          BY <5>1, <4>1, <1>a, QueueLengths
        <5>2. CASE wfLate' = wfLate + 1
          <6>1. Waiting \in SUBSET {c}
            BY <3>b DEF Waiting
          <6>2. Cardinality(Waiting) <= 1
            BY <6>1, AtMostOne
          <6> QED
            BY <5>2, <6>2, <1>a, <1>b
        <5> QED
          BY <4>1, <5>1, <5>2
      <4>5. (k2.told = "nothing" => Stage(k2)') /\ (k2.told = "success" => k2.seen = 1)
        BY <4>1, <4>2, <4>3, <4>4, <2>3, <3>a, StageLate
      <4> QED
        BY <4>1, <4>2, <4>5 DEF Good, UnderWay
    <3>5. ASSUME DaemonAnswers \/ LinkUp \/ DaemonRestarts \/ UNCHANGED wfVars PROVE Good
      <4>1. /\ k2.told = k.told /\ k2.id = k.id /\ k2.at = k.at /\ k2.waiting = k.waiting
            /\ k.seen = 1 => k2.seen = 1
            /\ DaemonAnswers => k2 = k
            /\ LinkUp /\ wfNets[wfCurrent].ssid = k.ssid => k2.seen = 1
            /\ ~DaemonRestarts
        BY <3>5, <1>c, <2>3, DaemonMoves
      <4>2. wfSocket' = wfSocket
        BY <3>5, <4>1 DEF DaemonAnswers, LinkUp, wfVars
      <4>3. Stage(k2)'
        <5>1. CASE DaemonAnswers
          BY <5>1, <4>1, <2>3, <3>a, <3>c, StageAnswers
        <5>2. CASE LinkUp \/ UNCHANGED wfVars
          <6>1. /\ wfReplies' = wfReplies /\ wfRequests' = wfRequests /\ wfNets' = wfNets
                /\ wfCurrent' = wfCurrent /\ (wfLinked' = wfLinked \/ LinkUp)
            BY <5>2 DEF LinkUp, wfVars
          <6> QED
            BY <6>1, <4>1, <2>1, <2>3, <3>a, StageStays
        <5> QED
          BY <3>5, <4>1, <5>1, <5>2
      <4> QED
        BY <4>1, <4>2, <4>3, <3>a DEF Good
    <3> QED
      BY <1>1, <3>1, <3>2, <3>3, <3>4, <3>5 DEF Goes
  <2> QED
    BY <2>2, <2>3
<1>2. ASSUME NEW e \in WifiCallers, NEW op \in Ops, NEW s \in Ssids \union {0},
             NEW p \in Keys \union {"short"}, CallStart(e, op, s, p)
      PROVE  Good
  <2>1. CASE c = e
    <3>1. /\ k2.at = FirstCommand("connect") /\ k2.waiting = 0 /\ k2.told = "nothing"
      BY <1>2, <2>1, StartMoves
    <3>2. k2.at = "list" /\ UnderWay(k2)
      BY <3>1 DEF FirstCommand, UnderWay
    <3>3. \A d \in WifiCallers : ~InCall(d)
      <4>1. InCall(c)'
        BY <3>2 DEF InCall, UnderWay
      <4> QED
        BY <4>1, <1>2, StartMoves
    <3>4. Outstanding' <= 2 /\ Outstanding' \in Nat
      <4>1. wfReplies' = wfReplies /\ wfRequests' = wfRequests
        BY <1>2 DEF CallStart
      <4>2. Outstanding' = Outstanding
        BY <4>1, ItemSame
      <4>3. Waiting = {}
        BY <3>3 DEF Waiting
      <4>4. Cardinality(Waiting) = 0
        BY <4>3, FS_EmptySet
      <4> QED
        BY <4>2, <4>4, <1>a, <1>b, <1>d
    <3>5. \A j : Item(j, k2, "any")'
      BY DEF Item, Own, Fits
    <3>6. Stage(k2)'
      <4>1. Outstanding' = 0 => Pend0(k2)'
        BY <3>1 DEF Pend0
      <4>2. Outstanding' = 1 => Pend1(k2, "any")'
        BY <3>1, <3>5 DEF Pend1
      <4>3. Outstanding' = 2 => Pend2(k2, "any", "any")'
        BY <3>1, <3>5 DEF Pend2
      <4>4. Outstanding' = 0 \/ Outstanding' = 1 \/ Outstanding' = 2
        BY <3>4
      <4> QED
        BY <3>1, <3>2, <4>1, <4>2, <4>3, <4>4 DEF Stage
    <3> QED
      BY <3>1, <3>2, <3>6 DEF Good
  <2>2. CASE c # e
    <3>1. k2.op = k.op /\ k2.told = k.told /\ (~UnderWay(k) => k2 = k)
      BY <1>2, <1>c, <2>2, StartMoves
    <3>2. CASE UnderWay(k)
      <4>1. InCall(c) /\ InCall(c)'
        BY <1>c, <3>1, <3>2 DEF InCall, UnderWay
      <4>2. k2.calm = 0
        BY <4>1, <1>2, StartMoves
      <4> QED
        BY <4>2
    <3>3. CASE ~UnderWay(k)
      BY <3>1, <3>3, <1>e DEF Good
    <3> QED
      BY <3>2, <3>3
  <2> QED
    BY <2>1, <2>2
<1> QED
  BY <1>1, <1>2, WiFiSteps DEF Goes

\* A call sets a name or a key only after the reply that asked for it.
LEMMA KeyAfterSsid ==
  ASSUME NEW k \in GoodCalls, UnderWay(k), NEW r \in Answers, NEW next \in AfterReply(k, r),
         next.told = "nothing", next.at = "key"
  PROVE  k.op = "connect" /\ k.at = "ssid" /\ r.kind = "ok" /\ next.id = k.id
<1>1. k.op = "connect"
  BY OthersGoOn
<1>2. k.at \in {"list", "add", "ssid", "key", "bssid", "select", "status", "remove", "save"}
  BY <1>1 DEF GoodCalls, UnderWay, Steps
<1>3. k.at = "ssid"
  BY <1>1, <1>2, ConnectGoesOn
<1> QED
  BY <1>1, <1>3, ConnectGoesOn

LEMMA NotFromSilence ==
  ASSUME NEW k \in GoodCalls, UnderWay(k), NEW next \in AfterReply(k, Silence),
         next.told = "nothing"
  PROVE  next.at # "key" /\ next.at # "ssid"
<1>a. Silence.kind = "none" /\ Silence \in Answers
  BY WiFiFacts DEF Silence, Reply
<1>1. CASE k.op = "connect"
  <2>1. k.at \in {"list", "add", "ssid", "key", "bssid", "select", "status", "remove", "save"}
    BY <1>1 DEF GoodCalls, UnderWay, Steps
  <2> QED
    BY <1>1, <1>a, <2>1, ConnectGoesOn
<1>2. CASE k.op # "connect"
  BY <1>2, <1>a, OthersGoOn
<1> QED
  BY <1>1, <1>2

\* Without late replies the daemon answers the only call.
LEMMA OwnAnswer ==
  ASSUME WiFiBase, LagInv, SocketInv, PlanInv, AlignedInv, DaemonAnswers, wfSpoiled # Ssids
  PROVE  \E c \in WifiCallers, k \in GoodCalls, q \in Queries :
           /\ k = wfCall[c] /\ UnderWay(k) /\ k.waiting = 1 /\ wfSocket = 1 /\ wfReplies = <<>>
           /\ q = Head(wfRequests) /\ q.c = k.at /\ q.ssid = k.ssid /\ q.psk = k.psk
           /\ k.at \notin {"list", "add"} => q.id = k.id
           /\ Aligned(k)
<1>a. WireOK /\ wfRequests # <<>> /\ Outstanding \in Nat
  BY WiFiBaseIs, QueueLengths DEF DaemonAnswers
<1>b. wfSocket = 1 /\ wfLate = 0
  BY <1>a DEF WireOK, SocketInv, PlanInv
<1>1. Outstanding # 0
  BY <1>a, QueueLengths
<1>2. Waiting # {}
  <2>1. SUFFICES ASSUME Waiting = {} PROVE FALSE
    OBVIOUS
  <2>2. Cardinality(Waiting) = 0
    BY <2>1, FS_EmptySet
  <2> QED
    BY <2>2, <1>a, <1>b, <1>1 DEF LagInv
<1>3. PICK c \in WifiCallers : InCall(c) /\ wfCall[c].waiting = 1
  BY <1>2 DEF Waiting
<1>4. PICK k \in GoodCalls : k = wfCall[c]
  BY WiFiBaseIs DEF CallsOK
<1>5. UnderWay(k) /\ k.waiting = 1
  BY <1>3, <1>4 DEF InCall, UnderWay
<1>6. Aligned(k)
  BY <1>4, <1>5, <1>b DEF AlignedInv
<1>7. PICK q \in Queries : q = Head(wfRequests)
  BY <1>a DEF WireOK
<1>8. wfReplies = <<>> /\ Own(k, k.at, q)
  BY <1>a, <1>6, <1>7, HeadIs DEF Aligned
<1>9. k.at # "any"
  BY <1>5 DEF GoodCalls, CallStates, Commands
<1>10. q.c = k.at /\ q.ssid = k.ssid /\ q.psk = k.psk /\ (k.at \notin {"list", "add"} => q.id = k.id)
  BY <1>8, <1>9 DEF Own
<1> QED
  BY <1>b, <1>4, <1>5, <1>6, <1>7, <1>8, <1>10

LEMMA AlignedNext ==
  ASSUME WiFiBase, LagInv, AloneInv, SocketInv, PlanInv, AlignedInv, [WiFiNext]_wfVars
  PROVE  AlignedInv'
<1> SUFFICES ASSUME wfSpoiled' # Ssids, wfSocket' = 1, NEW c \in WifiCallers,
                    NEW k2 \in GoodCalls, k2 = wfCall'[c], UnderWay(k2)
             PROVE  Aligned(k2)'
  BY DEF AlignedInv
<1>a. WireOK /\ wfLate \in Nat /\ Outstanding \in Nat
  BY WiFiBaseIs, QueueLengths DEF WiFiCountsOK
<1>c. PICK k \in GoodCalls : k = wfCall[c]
  BY WiFiBaseIs DEF CallsOK
<1>1. CASE Goes
  <2>1. /\ k2.op = k.op /\ k2.ssid = k.ssid /\ k2.psk = k.psk /\ UnderWay(k)
    BY <1>1, <1>c, OldCalls
  <2>2. wfSpoiled # Ssids /\ wfLate' = wfLate
    BY <1>1, OldCalls
  <2>3. \A d \in WifiCallers : InCall(d) => d = c
    BY <1>c, <2>1, <2>2 DEF AloneInv, InCall, UnderWay
  <2>4. wfSocket = 1 => Aligned(k)
    BY <1>c, <2>1, <2>2 DEF AlignedInv
  <2>5. ASSUME NEW d \in WifiCallers, SendCommand(d) PROVE Aligned(k2)'
    <3>1. d = c /\ wfSocket = 1 /\ wfReplies' = wfReplies /\ wfNets' = wfNets
      BY <2>5, <2>3 DEF SendCommand, wfDaemon
    <3>2. PICK q \in Queries :
           /\ k.waiting = 0 /\ k2.waiting = 1 /\ k2.id = k.id /\ k2.at = k.at
           /\ q.c = k.at /\ q.ssid = k.ssid /\ q.psk = k.psk /\ q.id = k.id
           /\ wfRequests' = Append(wfRequests, q)
      BY <2>5, <3>1, <1>c, SendMoves
    <3>3. Pend0(k2)'
      BY <3>1, <3>2, <2>1, <2>4, <1>a, PendSend DEF Aligned
    <3>4. wfReplies = <<>>
      BY <3>1, <3>2, <2>4, <1>a, QueueLengths DEF Aligned, Pend0
    <3> QED
      BY <3>1, <3>2, <3>3, <3>4, <2>1, <2>4 DEF Aligned, Found, Replied
  <2>6. ASSUME NEW d \in WifiCallers, SendFails(d) PROVE Aligned(k2)'
    <3>1. d = c /\ wfRequests' = <<>> /\ wfReplies' = <<>>
      BY <2>6, <2>3 DEF SendFails, SocketInv
    <3>2. PICK next \in AfterReply(k, Silence) :
             k2.told = next.told /\ k2.at = next.at /\ k2.waiting = 0
      BY <2>6, <3>1, <1>c, ReplyMoves
    <3>3. next.told = "nothing" /\ Silence.kind = "none" /\ Silence \in Answers
      BY <3>2, WiFiFacts DEF UnderWay, Silence, Reply
    <3>4. k2.at # "key" /\ k2.at # "ssid"
      BY <3>2, <3>3, <2>1, NotFromSilence
    <3>5. Outstanding' = 0
      BY <3>1 DEF Outstanding
    <3> QED
      BY <3>2, <3>4, <3>5 DEF Aligned, Pend0
  <2>7. ASSUME NEW d \in WifiCallers, TakeReply(d) PROVE Aligned(k2)'
    <3>1. /\ d = c /\ wfSocket = 1 /\ wfReplies' = Tail(wfReplies) /\ wfReplies # <<>>
          /\ wfRequests' = wfRequests /\ wfNets' = wfNets
      BY <2>7, <2>3 DEF TakeReply, wfDaemon
    <3>2. k.waiting = 1
      BY <2>7, <3>1, <1>c DEF TakeReply
    <3>3. k2 \in AfterReply(k, Head(wfReplies)) /\ k2.waiting = 0
      BY <2>7, <3>1, <1>c, ReplyMoves
    <3>4. Head(wfReplies) \in Answers /\ Head(wfReplies) = wfReplies[1]
      BY <1>a, <3>1 DEF WireOK
    <3>5. Outstanding = 1 /\ (k.at = "ssid" /\ Replied("ok") => Found(k))
      BY <3>1, <3>2, <2>4 DEF Aligned, Pend0
    <3>6. Outstanding' = 0
      <4>1. Outstanding' = Outstanding - 1
        BY <1>a, <3>1, ItemTake
      <4> QED
        BY <4>1, <3>5
    <3>7. ~Replied("ok")'
      <4>1. Len(wfReplies) = 1
        BY <1>a, <3>1, <3>5, QueueLengths
      <4>2. Tail(wfReplies) = <<>>
        BY <1>a, <3>1, <4>1 DEF WireOK
      <4> QED
        BY <3>1, <4>2 DEF Replied
    <3>8. ASSUME k2.at = "key" PROVE Found(k2)'
      <4>1. k.at = "ssid" /\ Head(wfReplies).kind = "ok" /\ k2.id = k.id
        BY <3>3, <3>4, <3>8, <2>1, KeyAfterSsid DEF UnderWay
      <4>2. Found(k)
        BY <3>1, <3>4, <3>5, <4>1 DEF Replied
      <4> QED
        BY <4>1, <4>2, <2>1, <3>1 DEF Found
    <3> QED
      BY <3>3, <3>6, <3>7, <3>8 DEF Aligned, Pend0
  <2>8. ASSUME NEW d \in WifiCallers, ReplyTimeout(d) PROVE FALSE
    <3>1. d = c /\ wfSocket = 1 /\ wfReplies = <<>> /\ wfRequests = <<>>
      BY <2>8, <2>3 DEF ReplyTimeout
    <3>2. k.waiting = 1
      BY <2>8, <3>1, <1>c DEF ReplyTimeout
    <3>3. Outstanding = 1
      BY <3>1, <3>2, <2>4 DEF Aligned, Pend0
    <3> QED
      BY <3>1, <3>3, <1>a, QueueLengths
  <2>9. ASSUME DaemonAnswers PROVE Aligned(k2)'
    <3>1. k2 = k /\ wfSocket = 1
      BY <2>9, <1>c, DaemonMoves DEF DaemonAnswers
    <3>2. Pend0(k)'
      BY <2>9, <2>4, <3>1, PendAnswer DEF Aligned
    <3>3. PICK c0 \in WifiCallers, k0 \in GoodCalls, q \in Queries :
           /\ k0 = wfCall[c0] /\ UnderWay(k0) /\ wfReplies = <<>>
           /\ q = Head(wfRequests) /\ q.c = k0.at /\ q.ssid = k0.ssid
           /\ k0.at \notin {"list", "add"} => q.id = k0.id
      BY <2>2, <2>9, OwnAnswer
    <3>4. k0 = k
      BY <3>3, <2>3, <1>c DEF InCall, UnderWay
    <3>5. ASSUME k.at = "key" PROVE Found(k)'
      <4>1. Found(k) /\ q.c = "key" /\ q.id = k.id
        BY <2>4, <3>1, <3>3, <3>4, <3>5 DEF Aligned
      <4> QED
        BY <4>1, <3>3, <2>9, AnswerEffect DEF Found
    <3>6. ASSUME k.at = "ssid", Replied("ok")' PROVE Found(k)'
      <4>1. q.c = "ssid" /\ q.id = k.id /\ q.ssid = k.ssid
        BY <3>3, <3>4, <3>6
      <4>2. wfReplies' = Append(wfReplies, Fail) \/ wfNets'[q.id].ssid = q.ssid
        BY <4>1, <3>3, <2>9, AnswerEffect
      <4>3. wfReplies' = Append(wfReplies, Fail) => wfReplies'[1] = Fail
        BY <3>3
      <4>4. wfReplies' # Append(wfReplies, Fail)
        BY <3>6, <4>3 DEF Replied, Fail, Reply
      <4> QED
        BY <4>1, <4>2, <4>4 DEF Found
    <3> QED
      BY <3>1, <3>2, <3>5, <3>6 DEF Aligned
  <2>10. ASSUME LinkUp \/ UNCHANGED wfVars PROVE Aligned(k2)'
    <3>1. /\ wfReplies' = wfReplies /\ wfRequests' = wfRequests /\ wfNets' = wfNets
          /\ wfSocket' = wfSocket
      BY <2>10 DEF LinkUp, wfVars
    <3>2. k2.id = k.id /\ k2.at = k.at /\ k2.waiting = k.waiting
      BY <2>10, <1>c, DaemonMoves
    <3>3. Aligned(k)
      BY <3>1, <2>4
    <3>4. Pend0(k2)'
      BY <3>1, <3>2, <3>3, <2>1, PendSame DEF Aligned
    <3> QED
      BY <3>1, <3>2, <3>3, <3>4, <2>1 DEF Aligned, Found, Replied
  <2>11. ~DaemonRestarts
    BY DEF DaemonRestarts
  <2> QED
    BY <1>1, <2>5, <2>6, <2>7, <2>8, <2>9, <2>10, <2>11 DEF Goes
<1>2. ASSUME NEW e \in WifiCallers, NEW op \in Ops, NEW s \in Ssids \union {0},
             NEW p \in Keys \union {"short"}, CallStart(e, op, s, p),
             op = "connect" => s \in Ssids /\ p # "none", op # "connect" => p = "none"
      PROVE  Aligned(k2)'
  <2>1. \A d \in WifiCallers : ~InCall(d)
    BY <1>2, StartMoves
  <2>2. c = e
    <3>1. SUFFICES ASSUME c # e PROVE FALSE
      OBVIOUS
    <3>2. k2.op = k.op /\ k2.told = k.told
      BY <1>2, <1>c, <3>1, StartMoves
    <3> QED
      BY <3>2, <2>1, <1>c DEF InCall, UnderWay
  <2>3. k2.at = FirstCommand(op) /\ k2.waiting = 0
    BY <1>2, <2>2, StartMoves
  <2>4. k2.at # "key" /\ k2.at # "ssid"
    BY <2>3 DEF FirstCommand, Ops
  <2>5. wfSpoiled # Ssids
    <3>1. wfSpoiled' = IF p = "short" THEN wfSpoiled \union {s} ELSE wfSpoiled
      BY <1>2, <2>1, StartMoves
    <3> QED
      BY <3>1, <1>2
  <2>6. Outstanding' = 0
    <3>1. wfReplies' = wfReplies /\ wfRequests' = wfRequests
      BY <1>2 DEF CallStart
    <3>2. Outstanding' = Outstanding
      BY <3>1, ItemSame
    <3>3. Waiting = {}
      BY <2>1 DEF Waiting
    <3>4. Cardinality(Waiting) = 0
      BY <3>3, FS_EmptySet
    <3>5. wfLate = 0
      BY <2>5 DEF PlanInv
    <3> QED
      BY <3>2, <3>4, <3>5, <1>a DEF LagInv
  <2> QED
    BY <2>3, <2>4, <2>6 DEF Aligned, Pend0
<1> QED
  BY <1>1, <1>2, WiFiSteps DEF Goes

\* The only call removes a network that it made and that did not work.
LEMMA HandlesAnswer ==
  ASSUME WiFiBase, LagInv, AloneInv, SocketInv, PlanInv, AlignedInv, DirtyInv, DaemonAnswers,
         wfSpoiled # Ssids
  PROVE  /\ \A n \in NetIds : ~Dirty(wfConf[n])'
         /\ \A n \in NetIds : Dirty(wfNets[n])' =>
              \E c \in WifiCallers, k \in GoodCalls :
                 k = wfCall[c] /\ UnderWay(k) /\ Handles(k, n)'
<1>a. wfNets \in NetTables /\ WireOK /\ wfSpoiled' = wfSpoiled
  BY WiFiBaseIs DEF NetsOK, DaemonAnswers
<1>b. PICK c \in WifiCallers, k \in GoodCalls, q \in Queries :
           /\ k = wfCall[c] /\ UnderWay(k) /\ k.waiting = 1 /\ wfReplies = <<>>
           /\ q = Head(wfRequests) /\ q.c = k.at /\ q.ssid = k.ssid /\ q.psk = k.psk
           /\ k.at \notin {"list", "add"} => q.id = k.id
           /\ Aligned(k)
  BY OwnAnswer
<1>c. PICK r \in Answers : wfReplies' = Append(wfReplies, r) /\ Fits(q.c, r)
  BY <1>b, AnswerFits
<1>d. wfReplies' # <<>> /\ wfReplies'[1] = r
  BY <1>b, <1>c
<1>e. ASSUME NEW n \in NetIds, Dirty(wfNets[n]) PROVE Handles(k, n)
  <2>1. PICK d \in WifiCallers, j \in GoodCalls : j = wfCall[d] /\ UnderWay(j) /\ Handles(j, n)
    BY <1>e DEF DirtyInv
  <2>2. InCall(c) /\ InCall(d)
    BY <1>b, <2>1 DEF InCall, UnderWay
  <2>3. d = c
    BY <2>2 DEF AloneInv
  <2> QED
    BY <2>1, <2>3, <1>b
<1>f. \A n \in NetIds : ~Dirty(wfConf[n])
  BY DEF DirtyInv
<1>g. \A n \in NetIds : wfNets'[n] = wfNets[n] => (Dirty(wfNets[n])' => Dirty(wfNets[n]))
  BY <1>a DEF Dirty
<1>h. k.id \in NetIds /\ (k.op = "connect" => k.ssid \in Ssids /\ k.psk # "none")
      /\ (k.psk = "short" => k.ssid \in wfSpoiled) /\ k.psk \in Keys \union {"short"}
      /\ (k.at \in {"add", "ssid", "key"} => k.new = 1)
  BY <1>b DEF PlanInv, Planned, GoodCalls, CallStates
<1>i. Ok.kind = "ok" /\ Ok \in Answers
  BY WiFiFacts DEF Ok, Reply
<1>j. wfReplies' = Append(wfReplies, Ok) => Replied("ok")'
  <2>1. wfReplies' = Append(wfReplies, Ok) => wfReplies'[1] = Ok
    BY <1>b
  <2> QED
    BY <2>1, <1>d, <1>i DEF Replied
<1> SUFFICES /\ \A n \in NetIds : ~Dirty(wfConf[n])'
             /\ \A n \in NetIds : Dirty(wfNets[n])' => Handles(k, n)'
  BY <1>b
<1>1. ASSUME k.at # "save" PROVE \A n \in NetIds : ~Dirty(wfConf[n])'
  <2>1. wfConf' = wfConf
    BY <1>1, <1>b, AnswerEffect
  <2> QED
    BY <2>1, <1>a, <1>f DEF Dirty
<1>2. CASE k.at \in {"list", "bssid", "status"}
  <2>1. wfNets' = wfNets /\ wfCurrent' = wfCurrent /\ wfLinked' = wfLinked
    BY <1>2, <1>b, AnswerEffect DEF wfDaemon
  <2>2. ASSUME NEW n \in NetIds, Dirty(wfNets[n])' PROVE Handles(k, n)'
    <3>1. Handles(k, n)
      BY <2>1, <2>2, <1>e, <1>g
    <3>2. CASE k.at = "list"
      BY <3>1, <3>2 DEF Handles
    <3>3. CASE k.at = "bssid"
      BY <3>1, <3>3, <2>1 DEF Handles
    <3>4. CASE k.at = "status"
      <4>1. wfReplies' = Append(wfReplies, Reply("status", wfLinked, NoNets))
        BY <3>4, <1>b, AnswerEffect
      <4>2. wfReplies'[1] = Reply("status", wfLinked, NoNets)
        BY <4>1, <1>b
      <4>3. wfLinked = 0
        BY <3>1, <3>4 DEF Handles
      <4> QED
        BY <3>1, <3>4, <4>2, <4>3, <2>1 DEF Handles, Reply
    <3> QED
      BY <1>2, <3>2, <3>3, <3>4
  <2> QED
    BY <1>1, <1>2, <2>2
<1>3. CASE k.at = "add"
  <2>1. ASSUME NEW n \in NetIds, Dirty(wfNets[n])' PROVE FALSE
    <3>1. wfNets'[n] = wfNets[n] \/ wfNets'[n] = Net(0, "none")
      BY <1>3, <1>b, AnswerEffect
    <3>2. CASE wfNets'[n] = wfNets[n]
      <4>1. Handles(k, n)
        BY <2>1, <3>2, <1>e, <1>g
      <4> QED
        BY <4>1, <1>3 DEF Handles
    <3>3. CASE wfNets'[n] = Net(0, "none")
      <4>1. wfNets'[n].ssid = 0
        BY <3>3 DEF Net
      <4> QED
        BY <2>1, <4>1, WiFiAssumption DEF Dirty
    <3> QED
      BY <3>1, <3>2, <3>3
  <2> QED
    BY <1>1, <1>3, <2>1
<1>4. CASE k.at = "ssid"
  <2>1. /\ q.id = k.id /\ \A n \in NetIds \ {q.id} : wfNets'[n] = wfNets[n]
        /\ \/ wfReplies' = Append(wfReplies, Ok) /\ wfNets'[q.id].ssid = q.ssid
           \/ wfNets' = wfNets
    BY <1>4, <1>b, AnswerEffect
  <2>2. ASSUME NEW n \in NetIds, Dirty(wfNets[n])' PROVE Handles(k, n)'
    <3>1. CASE wfNets'[n] = wfNets[n]
      <4>1. Handles(k, n)
        BY <2>2, <3>1, <1>e, <1>g
      <4> QED
        BY <4>1, <1>4, <1>b DEF Handles, Replied
    <3>2. CASE wfNets'[n] # wfNets[n]
      <4>1. n = k.id /\ wfReplies' = Append(wfReplies, Ok) /\ wfNets'[n].ssid = k.ssid
        BY <3>2, <2>1, <1>b
      <4>2. k.op = "connect"
        BY <1>b, <1>4 DEF GoodCalls, Steps, UnderWay, CallStates, Ops
      <4> QED
        BY <4>1, <4>2, <1>4, <1>h, <1>j DEF Handles
    <3> QED
      BY <3>1, <3>2
  <2> QED
    BY <1>1, <1>4, <2>2
<1>5. CASE k.at = "key"
  <2>1. /\ q.id = k.id /\ \A n \in NetIds \ {q.id} : wfNets'[n] = wfNets[n]
        /\ wfNets'[q.id].ssid = wfNets[q.id].ssid
        /\ Known(q.id) /\ q.psk \in Keys =>
              wfReplies' = Append(wfReplies, Ok) /\ wfNets'[q.id].key = q.psk
    BY <1>5, <1>b, AnswerEffect
  <2>2. k.op = "connect"
    BY <1>b, <1>5 DEF GoodCalls, Steps, UnderWay, CallStates, Ops
  <2>3. Found(k)
    BY <1>b, <1>5 DEF Aligned
  <2>4. Known(k.id)
    BY <2>2, <2>3, <1>h, WiFiAssumption DEF Found, Known, NoNet, Net, Absent
  <2>5. ASSUME NEW n \in NetIds, Dirty(wfNets[n])' PROVE Handles(k, n)'
    <3>1. CASE n # k.id
      <4>1. wfNets'[n] = wfNets[n]
        BY <2>1, <3>1
      <4>2. Handles(k, n)
        BY <2>5, <4>1, <1>e, <1>g
      <4> QED
        BY <4>2, <3>1 DEF Handles
    <3>2. CASE n = k.id
      <4>1. wfNets'[n].ssid = k.ssid
        BY <2>1, <2>3, <3>2 DEF Found
      <4>2. k.ssid \notin wfSpoiled
        BY <4>1, <2>5, <1>a DEF Dirty
      <4>3. k.psk \in Keys
        BY <4>2, <1>h
      <4>4. wfReplies' = Append(wfReplies, Ok) /\ wfNets'[n].key = k.psk
        BY <4>3, <2>1, <2>4, <3>2, <1>b
      <4> QED
        BY <4>1, <4>4, <2>2, <3>2, <1>5, <1>h, <1>j DEF Handles
    <3> QED
      BY <3>1, <3>2
  <2> QED
    BY <1>1, <1>5, <2>5
<1>6. CASE k.at = "select"
  <2>1. /\ q.id = k.id /\ wfNets' = wfNets
        /\ Known(q.id) => wfReplies' = Append(wfReplies, Ok) /\ wfCurrent' = q.id /\ wfLinked' = 0
    BY <1>6, <1>b, AnswerEffect
  <2>2. ASSUME NEW n \in NetIds, Dirty(wfNets[n])' PROVE Handles(k, n)'
    <3>1. Dirty(wfNets[n]) /\ Handles(k, n)
      BY <2>1, <2>2, <1>e, <1>g
    <3>2. n = k.id /\ Known(n)
      BY <3>1, WiFiAssumption DEF Handles, Dirty, Known, NoNet, Net, Absent
    <3>3. Replied("ok")' /\ wfCurrent' = n /\ wfLinked' = 0
      BY <3>2, <2>1, <1>j
    <3> QED
      BY <3>1, <3>3, <2>1, <1>6 DEF Handles
  <2> QED
    BY <1>1, <1>6, <2>2
<1>7. CASE k.at = "remove"
  <2>1. q.id = k.id /\ wfNets'[k.id] = NoNet /\ \A n \in NetIds \ {k.id} : wfNets'[n] = wfNets[n]
    BY <1>7, <1>b, AnswerEffect
  <2>2. ASSUME NEW n \in NetIds, Dirty(wfNets[n])' PROVE FALSE
    <3>1. CASE n # k.id
      <4>1. wfNets'[n] = wfNets[n]
        BY <2>1, <3>1
      <4>2. Handles(k, n)
        BY <2>2, <4>1, <1>e, <1>g
      <4> QED
        BY <4>2, <3>1 DEF Handles
    <3>2. CASE n = k.id
      <4>1. wfNets'[n].ssid = -1
        BY <2>1, <3>2 DEF NoNet, Net, Absent
      <4> QED
        BY <2>2, <4>1, WiFiAssumption DEF Dirty
    <3> QED
      BY <3>1, <3>2
  <2> QED
    BY <1>1, <1>7, <2>2
<1>8. CASE k.at \in {"save", "disconnect"}
  <2>1. wfNets' = wfNets /\ (wfConf' = wfConf \/ wfConf' = wfNets)
    BY <1>8, <1>b, AnswerEffect
  <2>2. ASSUME NEW n \in NetIds, Dirty(wfNets[n]) PROVE FALSE
    <3>1. Handles(k, n)
      BY <2>2, <1>e
    <3> QED
      BY <3>1, <1>8 DEF Handles
  <2>3. \A n \in NetIds : ~Dirty(wfNets[n])'
    BY <2>1, <2>2, <1>g
  <2>4. \A n \in NetIds : ~Dirty(wfConf[n])'
    BY <2>1, <2>2, <1>a, <1>f DEF Dirty
  <2> QED
    BY <2>3, <2>4
<1>9. k.at \in {"list", "add", "ssid", "key", "bssid", "select", "status", "remove", "save",
                "disconnect"}
  BY <1>b DEF GoodCalls, Steps, UnderWay, CallStates, Ops
<1> QED
  BY <1>2, <1>3, <1>4, <1>5, <1>6, <1>7, <1>8, <1>9

\* A network without the right key never outlives the call that made it.
LEMMA DirtyNext ==
  ASSUME WiFiBase, LagInv, AloneInv, SocketInv, PlanInv, AlignedInv, DirtyInv, [WiFiNext]_wfVars
  PROVE  DirtyInv'
<1> DEFINE Clean == /\ \A n \in NetIds : ~Dirty(wfConf[n])'
                    /\ \A n \in NetIds : Dirty(wfNets[n])' =>
                          /\ wfSocket' = 1
                          /\ \E c \in WifiCallers, k \in GoodCalls :
                                k = wfCall'[c] /\ UnderWay(k) /\ Handles(k, n)'
<1> SUFFICES Clean
  BY DEF DirtyInv
<1>a. wfSpoiled \subseteq Ssids /\ WireOK /\ wfCall \in [WifiCallers -> GoodCalls]
  BY WiFiBaseIs DEF WiFiCountsOK, CallsOK
<1>b. ASSUME wfSpoiled' = Ssids PROVE Clean
  BY <1>b DEF Dirty
<1>c. \A n \in NetIds : ~Dirty(wfConf[n])
  BY DEF DirtyInv
<1>d. ASSUME wfSpoiled \subseteq wfSpoiled', wfConf' = wfConf PROVE \A n \in NetIds : ~Dirty(wfConf[n])'
  BY <1>c, <1>d DEF Dirty
<1>e. ASSUME wfSpoiled \subseteq wfSpoiled', wfNets' = wfNets, NEW n \in NetIds, Dirty(wfNets[n])'
      PROVE  /\ Dirty(wfNets[n]) /\ wfSpoiled # Ssids /\ wfSocket = 1
             /\ \E c \in WifiCallers, k \in GoodCalls :
                   k = wfCall[c] /\ UnderWay(k) /\ Handles(k, n)
  <2>1. Dirty(wfNets[n])
    BY <1>e DEF Dirty
  <2>2. wfSpoiled # Ssids
    BY <2>1 DEF Dirty
  <2> QED
    BY <2>1, <2>2 DEF DirtyInv
<1> HIDE DEF Clean
<1>1. ASSUME NEW e \in WifiCallers, NEW op \in Ops, NEW s \in Ssids \union {0},
             NEW p \in Keys \union {"short"}, CallStart(e, op, s, p)
      PROVE  Clean
  <2>1. wfNets' = wfNets /\ wfConf' = wfConf
    BY <1>1 DEF CallStart, wfDaemon
  <2>2. CASE \E d \in WifiCallers : InCall(d)
    BY <1>1, <2>2, <1>b, StartMoves
  <2>3. CASE \A d \in WifiCallers : ~InCall(d)
    <3>1. wfSpoiled \subseteq wfSpoiled'
      <4>1. wfSpoiled' = IF p = "short" THEN wfSpoiled \union {s} ELSE wfSpoiled
        BY <1>1, <2>3, StartMoves
      <4> QED
        BY <4>1
    <3>2. ASSUME NEW n \in NetIds, Dirty(wfNets[n])' PROVE FALSE
      BY <3>1, <3>2, <2>1, <2>3, <1>e DEF InCall, UnderWay
    <3> QED
      BY <3>1, <3>2, <2>1, <1>d DEF Clean
  <2> QED
    BY <2>2, <2>3
<1>2. CASE Goes /\ wfSpoiled' # Ssids
  <2>a. wfSpoiled' = wfSpoiled
    BY <1>2, OldCalls
  <2>b. ASSUME NEW c \in WifiCallers, InCall(c), NEW d \in WifiCallers, InCall(d) PROVE d = c
    BY <2>a, <2>b, <1>2 DEF AloneInv
  <2>1. ASSUME NEW d \in WifiCallers, SendCommand(d) PROVE Clean
    <3>1. /\ wfNets' = wfNets /\ wfConf' = wfConf /\ wfReplies' = wfReplies /\ wfSocket' = wfSocket
          /\ wfCurrent' = wfCurrent /\ wfLinked' = wfLinked
      BY <2>1 DEF SendCommand, wfDaemon
    <3>2. ASSUME NEW n \in NetIds, Dirty(wfNets[n])'
          PROVE  /\ wfSocket' = 1
                 /\ \E c \in WifiCallers, k \in GoodCalls :
                       k = wfCall'[c] /\ UnderWay(k) /\ Handles(k, n)'
      <4>1. PICK c \in WifiCallers, k \in GoodCalls :
               wfSocket = 1 /\ k = wfCall[c] /\ UnderWay(k) /\ Handles(k, n)
        BY <3>1, <3>2, <2>a, <1>e
      <4>2. PICK k2 \in GoodCalls :
               /\ k2 = wfCall'[c] /\ k2.op = k.op /\ k2.told = k.told /\ k2.ssid = k.ssid
               /\ k2.psk = k.psk /\ k2.id = k.id /\ k2.at = k.at /\ k2.new = k.new
        <5>1. CASE c = d
          BY <5>1, <4>1, <2>1, SendMoves
        <5>2. CASE c # d
          BY <5>2, <4>1, <2>1, SendMoves
        <5> QED
          BY <5>1, <5>2
      <4>3. Handles(k2, n)' /\ UnderWay(k2)
        BY <4>1, <4>2, <3>1 DEF Handles, Replied, UnderWay
      <4> QED
        BY <4>1, <4>2, <4>3, <3>1
    <3> QED
      BY <3>1, <3>2, <2>a, <1>d DEF Clean
  <2>2. ASSUME NEW d \in WifiCallers, SendFails(d) PROVE Clean
    <3>1. wfNets' = wfNets /\ wfConf' = wfConf /\ wfSocket = 0
      BY <2>2 DEF SendFails, wfDaemon
    <3>2. ASSUME NEW n \in NetIds, Dirty(wfNets[n])' PROVE FALSE
      BY <3>1, <3>2, <2>a, <1>e
    <3> QED
      BY <3>1, <3>2, <2>a, <1>d DEF Clean
  <2>3. ASSUME NEW d \in WifiCallers, TakeReply(d) PROVE Clean
    <3>1. /\ wfNets' = wfNets /\ wfConf' = wfConf /\ wfReplies' = Tail(wfReplies)
          /\ wfSocket' = wfSocket /\ wfReplies # <<>> /\ InCall(d)
          /\ wfCurrent' = wfCurrent /\ wfLinked' = wfLinked /\ wfCall[d].waiting = 1
      BY <2>3 DEF TakeReply, wfDaemon
    <3>2. ASSUME NEW n \in NetIds, Dirty(wfNets[n])'
          PROVE  /\ wfSocket' = 1
                 /\ \E c \in WifiCallers, k \in GoodCalls :
                       k = wfCall'[c] /\ UnderWay(k) /\ Handles(k, n)'
      <4>1. PICK c \in WifiCallers, k \in GoodCalls :
               wfSocket = 1 /\ k = wfCall[c] /\ UnderWay(k) /\ Handles(k, n)
        BY <3>1, <3>2, <2>a, <1>e
      <4>2. c = d
        BY <4>1, <3>1, <2>b DEF InCall, UnderWay
      <4>3. PICK k2 \in GoodCalls : /\ k2 = wfCall'[c] /\ k2 \in AfterReply(k, Head(wfReplies))
                                    /\ k2.op = k.op /\ k2.ssid = k.ssid /\ k2.psk = k.psk
        BY <4>1, <4>2, <2>3, ReplyMoves
      <4>4. Head(wfReplies) \in Answers /\ Head(wfReplies) = wfReplies[1]
        BY <1>a, <3>1 DEF WireOK
      <4>5. wfReplies' = <<>>
        <5>1. Aligned(k)
          BY <4>1, <2>a, <1>2 DEF AlignedInv
        <5>2. Outstanding = 1
          BY <5>1, <4>1, <4>2, <3>1 DEF Aligned, Pend0
        <5>3. Len(wfReplies) = 1
          BY <5>2, <3>1, <1>a, QueueLengths
        <5>4. Tail(wfReplies) = <<>>
          BY <5>3, <3>1, <1>a DEF WireOK
        <5> QED
          BY <5>4, <3>1
      <4>6. k.op = "connect" /\ k.new = 1 /\ k.id = n /\ k.ssid = wfNets[n].ssid
        BY <4>1 DEF Handles
      <4>7. /\ k2.told = "nothing" /\ k2.id = k.id /\ k2.new = k.new
            /\ \/ k2.at = "key"
               \/ k2.at = "bssid" /\ wfNets[n].key = k.psk
               \/ k2.at = "select" /\ wfNets[n].key = k.psk
               \/ k2.at = "status" /\ wfNets[n].key = k.psk /\ wfCurrent = n /\ wfLinked = 0
               \/ k2.at = "remove"
        <5>1. CASE k.at = "ssid"
          BY <5>1, <4>1, <4>3, <4>4, <4>6, ConnectGoesOn DEF Handles, Replied
        <5>2. CASE k.at = "key"
          BY <5>2, <4>1, <4>3, <4>4, <4>6, <3>1, ConnectGoesOn DEF Handles, Replied
        <5>3. CASE k.at = "bssid"
          BY <5>3, <4>1, <4>3, <4>4, <4>6, ConnectGoesOn DEF Handles
        <5>4. CASE k.at = "select"
          BY <5>4, <4>1, <4>3, <4>4, <4>6, <3>1, ConnectGoesOn DEF Handles, Replied
        <5>5. CASE k.at = "status"
          <6>1. Head(wfReplies).id # 1 /\ wfNets[n].key = k.psk /\ wfCurrent = n /\ wfLinked = 0
            BY <5>5, <4>1, <4>4, <3>1 DEF Handles
          <6> QED
            BY <5>5, <6>1, <4>1, <4>3, <4>4, <4>6, ConnectGoesOn
        <5>6. k.at \in {"ssid", "key", "bssid", "select", "status"}
          BY <4>1, <3>1 DEF Handles
        <5> QED
          BY <5>1, <5>2, <5>3, <5>4, <5>5, <5>6
      <4>8. UnderWay(k2) /\ Handles(k2, n)'
        BY <4>3, <4>5, <4>6, <4>7, <3>1 DEF Handles, UnderWay
      <4> QED
        BY <4>1, <4>3, <4>8, <3>1
    <3> QED
      BY <3>1, <3>2, <2>a, <1>d DEF Clean
  <2>4. ASSUME NEW d \in WifiCallers, ReplyTimeout(d) PROVE Clean
    <3>1. /\ wfNets' = wfNets /\ wfConf' = wfConf /\ wfReplies = <<>> /\ wfRequests = <<>>
          /\ InCall(d) /\ wfCall[d].waiting = 1
      BY <2>4, <1>2 DEF ReplyTimeout, wfDaemon
    <3>2. ASSUME NEW n \in NetIds, Dirty(wfNets[n])' PROVE FALSE
      <4>1. wfSocket = 1
        BY <3>1, <3>2, <2>a, <1>e
      <4>2. PICK k \in GoodCalls : k = wfCall[d] /\ UnderWay(k)
        BY <3>1, <1>a DEF InCall, UnderWay
      <4>3. Outstanding = 1
        BY <4>1, <4>2, <3>1, <2>a, <1>2 DEF AlignedInv, Aligned, Pend0
      <4> QED
        BY <4>3, <3>1, <1>a, QueueLengths
    <3> QED
      BY <3>1, <3>2, <2>a, <1>d DEF Clean
  <2>5. ASSUME DaemonAnswers PROVE Clean
    <3>1. wfSocket' = 1 /\ wfCall' = wfCall
      <4>1. wfSocket' = wfSocket /\ wfRequests # <<>> /\ wfCall' = wfCall
        BY <2>5 DEF DaemonAnswers
      <4> QED
        BY <4>1, <1>a DEF SocketInv, WireOK
    <3>2. /\ \A n \in NetIds : ~Dirty(wfConf[n])'
          /\ \A n \in NetIds : Dirty(wfNets[n])' =>
               \E c \in WifiCallers, k \in GoodCalls :
                  k = wfCall[c] /\ UnderWay(k) /\ Handles(k, n)'
      BY <2>5, <2>a, <1>2, HandlesAnswer
    <3> QED
      BY <3>1, <3>2 DEF Clean
  <2>6. ASSUME LinkUp \/ UNCHANGED wfVars PROVE Clean
    <3>1. /\ wfNets' = wfNets /\ wfConf' = wfConf /\ wfReplies' = wfReplies /\ wfSocket' = wfSocket
          /\ wfCurrent' = wfCurrent /\ (wfLinked' = wfLinked \/ wfNets[wfCurrent].key = "right")
      BY <2>6 DEF LinkUp, wfVars
    <3>2. ASSUME NEW n \in NetIds, Dirty(wfNets[n])'
          PROVE  /\ wfSocket' = 1
                 /\ \E c \in WifiCallers, k \in GoodCalls :
                       k = wfCall'[c] /\ UnderWay(k) /\ Handles(k, n)'
      <4>1. PICK c \in WifiCallers, k \in GoodCalls :
               /\ wfSocket = 1 /\ k = wfCall[c] /\ UnderWay(k) /\ Handles(k, n)
               /\ Dirty(wfNets[n])
        BY <3>1, <3>2, <2>a, <1>e
      <4>2. PICK k2 \in GoodCalls :
               /\ k2 = wfCall'[c] /\ k2.op = k.op /\ k2.told = k.told /\ k2.ssid = k.ssid
               /\ k2.psk = k.psk /\ k2.id = k.id /\ k2.at = k.at /\ k2.new = k.new
        BY <4>1, <2>6, DaemonMoves
      <4>3. wfCurrent = n => wfLinked' = wfLinked
        BY <4>1, <3>1 DEF Dirty
      <4>4. Handles(k2, n)' /\ UnderWay(k2)
        BY <4>1, <4>2, <4>3, <3>1 DEF Handles, Replied, UnderWay
      <4> QED
        BY <4>1, <4>2, <4>4, <3>1
    <3> QED
      BY <3>1, <3>2, <2>a, <1>d DEF Clean
  <2>7. ASSUME DaemonRestarts PROVE Clean
    <3>1. wfNets' = wfConf /\ wfConf' = wfConf
      BY <2>7 DEF DaemonRestarts
    <3>2. \A n \in NetIds : ~Dirty(wfNets[n])'
      BY <3>1, <2>a, <1>c DEF Dirty
    <3> QED
      BY <3>1, <3>2, <2>a, <1>d DEF Clean
  <2> QED
    BY <1>2, <2>1, <2>2, <2>3, <2>4, <2>5, <2>6, <2>7 DEF Goes
<1> QED
  BY <1>1, <1>2, <1>b, WiFiSteps DEF Goes

LEMMA HonestInit == WiFiInit => HonestInv
<1> SUFFICES ASSUME WiFiInit PROVE HonestInv
  OBVIOUS
<1>a. WiFiBase
  BY WiFiBaseInit
<1>b. /\ wfReplies = <<>> /\ wfRequests = <<>> /\ wfSocket = 1 /\ wfLate = 0
      /\ wfNets = wfConf
  BY DEF WiFiInit
<1>c. \A c \in WifiCallers : \A k : k = wfCall[c] => k = Rest
  BY DEF WiFiInit
<1>d. Rest.op = "none" /\ Rest.told = "nothing" /\ ~UnderWay(Rest)
  BY DEF Rest, UnderWay
<1>e. \A c \in WifiCallers : ~InCall(c)
  BY <1>c, <1>d DEF InCall
<1>1. LagInv
  <2>1. Outstanding = 0
    BY <1>b DEF Outstanding
  <2>2. Cardinality(Waiting) \in Nat
    BY WaitingIs
  <2> QED
    BY <2>1, <2>2, <1>b DEF LagInv
<1>2. AloneInv
  BY <1>e DEF AloneInv
<1>3. SocketInv /\ ListInv
  BY <1>b DEF SocketInv, ListInv
<1>4. PlanInv
  BY <1>b, <1>c, <1>d DEF PlanInv
<1>5. StageInv
  BY <1>c, <1>d DEF StageInv, Staged
<1>6. AlignedInv
  BY <1>c, <1>d DEF AlignedInv
<1>7. DirtyInv
  <2>1. ASSUME NEW n \in NetIds PROVE ~Dirty(wfConf[n])
    <3>1. \/ wfConf = NoNets
          \/ \E s \in Ssids, k \in {"right", "wrong"} : wfConf = [NoNets EXCEPT ![0] = Net(s, k)]
      BY DEF WiFiInit
    <3>2. \/ wfConf[n] = NoNet
          \/ \E s \in Ssids, k \in {"right", "wrong"} : wfConf[n] = Net(s, k) /\ wfConf[0] = Net(s, k)
      BY <3>1 DEF NoNets, NetIds
    <3>3. NoNet.ssid = -1 /\ \A s, k : Net(s, k).ssid = s /\ Net(s, k).key = k
      BY DEF NoNet, Net, Absent
    <3>4. \A s \in Ssids : wfConf[0] = Net(s, "wrong") => s \in wfSpoiled
      BY DEF WiFiInit
    <3> QED
      BY <3>2, <3>3, <3>4, WiFiAssumption DEF Dirty
  <2> QED
    BY <2>1, <1>b DEF DirtyInv
<1> QED
  BY <1>a, <1>1, <1>2, <1>3, <1>4, <1>5, <1>6, <1>7 DEF HonestInv

LEMMA HonestNext == HonestInv /\ [WiFiNext]_wfVars => HonestInv'
<1> SUFFICES ASSUME HonestInv, [WiFiNext]_wfVars PROVE HonestInv'
  OBVIOUS
<1>a. /\ WiFiBase /\ LagInv /\ AloneInv /\ SocketInv /\ ListInv /\ PlanInv /\ StageInv
      /\ AlignedInv /\ DirtyInv
  BY DEF HonestInv
<1>1. WiFiBase'
  BY <1>a, WiFiBaseNext
<1>2. LagInv' /\ AloneInv' /\ SocketInv' /\ ListInv'
  BY <1>a, LagNext, AloneNext, SocketNext, ListNext
<1>3. PlanInv' /\ StageInv' /\ AlignedInv' /\ DirtyInv'
  BY <1>a, PlanNext, StageNext, AlignedNext, DirtyNext
<1> QED
  BY <1>1, <1>2, <1>3 DEF HonestInv

LEMMA HonestImplies == HonestInv => ConnectHonest
<1> SUFFICES ASSUME HonestInv PROVE ConnectHonest
  OBVIOUS
<1>a. WiFiBase /\ AloneInv /\ PlanInv /\ StageInv /\ DirtyInv
  BY DEF HonestInv
<1>b. wfCall \in [WifiCallers -> GoodCalls] /\ wfNets \in NetTables
  BY <1>a, WiFiBaseIs DEF CallsOK, NetsOK
<1>1. ConnectTruthful
  BY <1>a, <1>b DEF ConnectTruthful, StageInv, Staged
<1>2. RightPasswordUsed
  <2> SUFFICES ASSUME NEW c \in WifiCallers, NEW k \in GoodCalls, k = wfCall[c], InCall(c),
                      k.op = "connect", k.psk = "right", k.at = "status", k.calm = 1,
                      k.ssid \notin wfSpoiled
               PROVE  wfNets[k.id] = Net(k.ssid, "right")
    BY <1>b DEF RightPasswordUsed
  <2>1. UnderWay(k)
    BY DEF InCall, UnderWay
  <2>2. k.ssid \in Ssids /\ wfSpoiled # Ssids
    BY <1>a, <2>1 DEF PlanInv, Planned
  <2>3. wfLate = 0
    BY <1>a, <2>2 DEF PlanInv
  <2>4. wfNets[k.id].ssid = k.ssid
    <3>1. Stage(k)
      BY <1>a, <2>1, <2>3 DEF StageInv, Staged
    <3> QED
      BY <3>1 DEF Stage, Found
  <2>5. k.id \in NetIds
    BY DEF GoodCalls, CallStates
  <2>6. wfNets[k.id].key = "right"
    <3>1. SUFFICES ASSUME Dirty(wfNets[k.id]) PROVE FALSE
      BY <2>2, <2>4 DEF Dirty
    <3>2. PICK d \in WifiCallers, j \in GoodCalls :
             j = wfCall[d] /\ UnderWay(j) /\ Handles(j, k.id)
      BY <1>a, <2>5, <3>1 DEF DirtyInv
    <3>3. d = c
      BY <1>a, <3>2, <2>2 DEF AloneInv, InCall, UnderWay
    <3>4. wfNets[k.id].key = k.psk
      BY <3>2, <3>3 DEF Handles
    <3> QED
      BY <3>1, <3>4 DEF Dirty
  <2>7. wfNets[k.id] \in [ssid: Ssids \union {Absent, 0}, key: Keys]
    BY <1>b, <2>5 DEF NetTables
  <2> QED
    BY <2>4, <2>6, <2>7 DEF Net
<1> QED
  BY <1>1, <1>2 DEF ConnectHonest

\* connect() reports success only when the link it was asked for was up during the call, however
\* two late replies shift the answers it reads, and a connect with the right password that was
\* not disturbed selects a network that has it (WiFiManager::connect, wpa).
THEOREM ConnectIsHonest == WiFiSpec => []ConnectHonest
  BY HonestInit, HonestNext, HonestImplies, PTL DEF WiFiSpec

-----------------------------------------------------------------------------
(* All services *)

\* Side by side, each service behaves as it does alone.
LEMMA ServicesImplement ==
  ServicesSpec => /\ DownloadSpec /\ AuthSpec /\ AgentSpec /\ InstallSpec /\ DataMountSpec
                  /\ McpSpec /\ WiFiSpec
<1>1. ServicesInit => /\ DownloadInit /\ AuthInit /\ AgentInit /\ InstallInit /\ DataMountInit
                      /\ McpInit /\ WiFiInit
  BY DEF ServicesInit
<1>2. [ServicesNext]_servicesVars =>
         /\ [DownloadNext]_dlVars /\ [AuthNext]_auVars /\ [AgentNext]_agVars
         /\ [InstallNext]_inVars /\ [DataMountNext]_dmVars /\ [McpNext]_mcVars
         /\ [WiFiNext]_wfVars
  BY DEF ServicesNext, servicesVars
<1> QED
  BY <1>1, <1>2, PTL DEF ServicesSpec, DownloadSpec, AuthSpec, AgentSpec, InstallSpec,
     DataMountSpec, McpSpec, WiFiSpec

\* All services keep the types of their state, with the limits these state.
THEOREM ServicesTypesCorrect == ServicesSpec => []ServicesTypeOK
  BY ServicesImplement, DownloadTypeCorrect, AuthTypeCorrect, AgentTypeCorrect,
     InstallTypeCorrect, DataMountTypeCorrect, McpTypeCorrect, WiFiTypeCorrect, PTL
     DEF ServicesTypeOK

\* The flags of a download and of an upgrade are set only while a thread runs that will clear
\* them, and on an installation `finished' is set once nobody works on it, on every error path
\* (start_async_download, do_auto_upgrade_check, install_worker).
THEOREM WorkersAreAccountedFor == ServicesSpec => []WorkersAccountedFor
  BY ServicesImplement, FlagsMeanRunning, EndsAreReported, PTL DEF WorkersAccountedFor
=============================================================================
