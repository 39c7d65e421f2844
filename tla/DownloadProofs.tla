--------------------------- MODULE DownloadProofs ---------------------------
(***************************************************************************)
(* Proofs about the downloads of models (Download), for any number of      *)
(* threads, shards, pieces, inodes, requests and faults.                   *)
(***************************************************************************)
EXTENDS Download, WellFoundedInduction, TLAPS

-----------------------------------------------------------------------------
(* Types *)

\* The content of the files, with what DownloadTypeOK says of it.
ContentOK == dlData \in [Inodes -> Seq(Pieces)]

\* A thread has a descriptor while it writes, and at no other time; it has met an error only
\* when it is about to finish.
GoodJobs == {j \in Job : /\ j.fd # 0 <=> j.pc \in {"recv", "finish", "copy"}
                         /\ j.res # "none" <=> j.pc = "finish"}

DownloadBase == CoreTypeOK /\ ContentOK /\ dlJob \in [Writers -> GoodJobs]

\* What the upgrade is told, and the history of faults.
NeedOK == dlNeed \in Needs /\ dlCut \in {0, 1}

LEMMA DownloadFacts ==
  /\ Files \subseteq Nat \ {0} /\ 1 \in Files /\ Shards \in Files /\ "upgrade" \in Writers
  /\ Requests \subseteq Writers /\ Files \subseteq Inodes /\ 0 \notin Inodes
  /\ NoJob \in Job /\ NoJob.fd = 0 /\ NoJob.pc = "idle" /\ NoJob.kind = "none" /\ NoJob.res = "none"
  /\ Chunks \in Nat /\ Pieces \subseteq Nat /\ Hole \in Pieces /\ ErrorPage \in Pieces
  /\ \A n \in Nat : n < Chunks => n + 1 \in Pieces
  BY DownloadAssumption DEF Files, Writers, Job, NoJob, Kinds, Pieces, Hole, ErrorPage

\* Writing a piece keeps a file a sequence of pieces.
LEMMA WrittenType ==
  ASSUME NEW s \in Seq(Pieces), NEW j \in Job, NEW p \in Pieces
  PROVE  Written(s, j, p) \in Seq(Pieces)
<1>1. Len(s) \in Nat /\ j.got \in Nat /\ j.old \in Nat /\ Hole \in Pieces
      /\ \A i \in 1..Len(s) : s[i] \in Pieces
  BY DownloadFacts DEF Job
<1>2. CASE j.old > 0
  BY <1>2 DEF Written
<1>3. CASE ~(j.old > 0)
  <2> DEFINE n == IF Len(s) > j.got THEN Len(s) ELSE j.got + 1
             e(i) == IF i = j.got + 1 THEN p ELSE IF i <= Len(s) THEN s[i] ELSE Hole
  <2>1. n \in Nat
    BY <1>1
  <2>2. \A i \in 1..n : e(i) \in Pieces
    BY <1>1
  <2>3. Written(s, j, p) = [i \in 1..n |-> e(i)]
    BY <1>3 DEF Written
  <2> HIDE DEF n, e
  <2> QED
    BY <2>1, <2>2, <2>3
<1> QED
  BY <1>2, <1>3

\* A fresh inode is a free one.
LEMMA FreshIsFree == Free # {} => FreshInode \in Free
<1> SUFFICES ASSUME Free # {} PROVE FreshInode \in Free
  OBVIOUS
<1> DEFINE Less == OpToRel(<, Nat)
<1>1. Free \subseteq Nat
  BY DownloadAssumption DEF Free
<1>2. IsWellFoundedOn(Less, Nat)
  BY NatLessThanWellFounded, Zenon
<1>3. \E m \in Free : \A k \in Free : ~ (<<k, m>> \in Less)
  <2> HIDE DEF Less
  <2> QED BY <1>1, <1>2, WFMin
<1>4. PICK m \in Free : \A k \in Free : ~ (<<k, m>> \in Less)
  BY <1>3
<1>5. \A k \in Free : m <= k
  <2> SUFFICES ASSUME NEW k \in Free PROVE m <= k
    OBVIOUS
  <2>1. ~ (k < m)
    BY <1>1, <1>4, Zenon DEF OpToRel
  <2> QED
    BY <2>1, <1>1
<1> QED
  BY <1>5 DEF FreshInode

LEMMA DownloadBaseInit == DownloadInit => DownloadBase
<1> SUFFICES ASSUME DownloadInit PROVE DownloadBase
  OBVIOUS
<1>1. PICK present \in SUBSET Files :
         /\ dlDest = [f \in Files |-> IF f \in present THEN f ELSE 0]
         /\ dlData = [i \in Inodes |-> IF i \in present THEN Whole ELSE <<>>]
  BY DEF DownloadInit
<1>2. Whole \in Seq(Pieces)
  BY DownloadFacts DEF Whole, Pieces
<1>3. ContentOK
  BY <1>1, <1>2 DEF ContentOK
<1>4. NoJob \in GoodJobs
  BY DownloadFacts DEF GoodJobs
<1>5. dlJob \in [Writers -> GoodJobs] /\ dlJob \in [Writers -> Job]
  BY <1>4 DEF DownloadInit, GoodJobs
<1>6. dlDest \in [Files -> Inodes \union {0}] /\ dlPart \in [Files -> Inodes \union {0}]
  BY <1>1, DownloadFacts DEF DownloadInit
<1>7. DOMAIN dlData = Inodes /\ \A i \in Inodes : \A k \in DOMAIN dlData[i] : dlData[i][k] \in Pieces
  BY <1>3 DEF ContentOK
<1> QED
  BY <1>3, <1>5, <1>6, <1>7, DownloadAssumption DEF DownloadBase, CoreTypeOK, DownloadInit

\* A thread changes what it is doing.
LEMMA JobStep ==
  ASSUME dlJob \in [Writers -> GoodJobs], NEW w \in Writers, NEW k \in GoodJobs, Set(w, k)
  PROVE  /\ dlJob' \in [Writers -> GoodJobs] /\ dlJob'[w] = k
         /\ \A v \in Writers \ {w} : dlJob'[v] = dlJob[v]
  BY DEF Set

\* The steps of a download leave it a proper one.
LEMMA JobForms ==
  ASSUME NEW j \in GoodJobs
  PROVE  /\ NoJob \in GoodJobs
         /\ [NoJob EXCEPT !.kind = "async", !.pc = "set", !.last = Shards] \in GoodJobs
         /\ [NoJob EXCEPT !.kind = "upgrade", !.pc = "stat"] \in GoodJobs
         /\ \A f, l \in Files :
               [NoJob EXCEPT !.kind = "tool", !.pc = "file", !.shard = f, !.last = l] \in GoodJobs
         /\ \A f \in Files, i \in Inodes :
               [NoJob EXCEPT !.kind = "usb", !.pc = "copy", !.shard = f, !.last = f, !.fd = i]
                  \in GoodJobs
         /\ j.fd = 0 => \A pc \in {"file", "end"} : [j EXCEPT !.pc = pc] \in GoodJobs
         /\ j.fd = 0 => \A n \in Nat : [j EXCEPT !.pc = "open", !.old = n] \in GoodJobs
         /\ j.fd = 0 => \A i \in Inodes, n \in Nat :
               [j EXCEPT !.pc = "recv", !.fd = i, !.got = n] \in GoodJobs
         /\ j.pc \in {"recv", "copy"} => [j EXCEPT !.got = @ + 1] \in GoodJobs
         /\ j.pc = "recv" => \A r \in {"ok", "http", "curl"} :
               [j EXCEPT !.pc = "finish", !.res = r] \in GoodJobs
         /\ \A pc \in {"file", "end"}, f \in Files :
               [j EXCEPT !.old = 0, !.fd = 0, !.got = 0, !.res = "none", !.pc = pc, !.shard = f]
                  \in GoodJobs
         /\ j.fd = 0 => \A pc \in {"file", "stat", "end"}, f \in Files :
               [j EXCEPT !.pc = pc, !.shard = f] \in GoodJobs
<1> USE DEF GoodJobs, Job
<1>1. NoJob \in GoodJobs
  BY DownloadFacts DEF NoJob, Kinds
<1>2. [NoJob EXCEPT !.kind = "async", !.pc = "set", !.last = Shards] \in GoodJobs
      /\ [NoJob EXCEPT !.kind = "upgrade", !.pc = "stat"] \in GoodJobs
  BY DownloadFacts DEF NoJob, Kinds
<1>3. ASSUME NEW f \in Files, NEW l \in Files
      PROVE  [NoJob EXCEPT !.kind = "tool", !.pc = "file", !.shard = f, !.last = l] \in GoodJobs
  BY <1>3, DownloadFacts DEF NoJob, Kinds
<1>4. ASSUME NEW f \in Files, NEW i \in Inodes
      PROVE  [NoJob EXCEPT !.kind = "usb", !.pc = "copy", !.shard = f, !.last = f, !.fd = i]
                \in GoodJobs
  BY <1>4, DownloadFacts DEF NoJob, Kinds
<1>5. ASSUME j.fd = 0, NEW pc \in {"file", "end"} PROVE [j EXCEPT !.pc = pc] \in GoodJobs
  BY <1>5
<1>6. ASSUME j.fd = 0, NEW n \in Nat PROVE [j EXCEPT !.pc = "open", !.old = n] \in GoodJobs
  BY <1>6
<1>7. ASSUME j.fd = 0, NEW i \in Inodes, NEW n \in Nat
      PROVE  [j EXCEPT !.pc = "recv", !.fd = i, !.got = n] \in GoodJobs
  BY <1>7, DownloadFacts
<1>8. ASSUME j.pc \in {"recv", "copy"} PROVE [j EXCEPT !.got = @ + 1] \in GoodJobs
  BY <1>8
<1>9. ASSUME j.pc = "recv", NEW r \in {"ok", "http", "curl"}
      PROVE  [j EXCEPT !.pc = "finish", !.res = r] \in GoodJobs
  BY <1>9
<1>10. ASSUME NEW pc \in {"file", "end"}, NEW f \in Files
       PROVE  [j EXCEPT !.old = 0, !.fd = 0, !.got = 0, !.res = "none", !.pc = pc, !.shard = f]
                 \in GoodJobs
  BY <1>10
<1>11. ASSUME j.fd = 0, NEW pc \in {"file", "stat", "end"}, NEW f \in Files
       PROVE  [j EXCEPT !.pc = pc, !.shard = f] \in GoodJobs
  BY <1>11
<1> HIDE DEF GoodJobs, Job
<1> QED
  BY <1>1, <1>2, <1>3, <1>4, <1>5, <1>6, <1>7, <1>8, <1>9, <1>10, <1>11

\* The parts of the type.
JobsOK == dlJob \in [Writers -> GoodJobs]
DirectoryOK ==
    dlPart \in [Files -> Inodes \union {0}] /\ dlDest \in [Files -> Inodes \union {0}]
FlagsOK == dlActive \in {0, 1} /\ dlUpgrading \in {0, 1} /\ dlTainted \subseteq Files
CountsOK == dlStarts \in 0..MaxStarts /\ dlFaults \in 0..MaxFaults

LEMMA BaseIs == DownloadBase <=> JobsOK /\ ContentOK /\ DirectoryOK /\ FlagsOK /\ CountsOK
<1>1. JobsOK => dlJob \in [Writers -> Job]
  BY DEF JobsOK, GoodJobs
<1>2. ContentOK => DOMAIN dlData = Inodes
                   /\ \A i \in Inodes : \A k \in DOMAIN dlData[i] : dlData[i][k] \in Pieces
  BY DEF ContentOK
<1> QED
  BY <1>1, <1>2 DEF DownloadBase, CoreTypeOK, JobsOK, DirectoryOK, FlagsOK, CountsOK

\* What is known of the fields of a job.
LEMMA JobFields ==
  ASSUME JobsOK, NEW w \in Writers
  PROVE  /\ dlJob[w] \in GoodJobs
         /\ dlJob[w].shard \in Files /\ dlJob[w].last \in Files /\ dlJob[w].old \in Nat
         /\ dlJob[w].got \in Nat /\ dlJob[w].fd \in Inodes \union {0}
         /\ dlJob[w].fd # 0 <=> dlJob[w].pc \in {"recv", "finish", "copy"}
         /\ dlJob[w].res # "none" <=> dlJob[w].pc = "finish"
         /\ dlJob[w].shard < dlJob[w].last => dlJob[w].shard + 1 \in Files
         /\ dlJob[w].kind \in Kinds
  BY DownloadAssumption DEF JobsOK, GoodJobs, Job, Files

LEMMA JobsNext == DownloadBase /\ [DownloadStep]_dlCore => JobsOK'
<1> SUFFICES ASSUME DownloadBase, [DownloadStep]_dlCore PROVE JobsOK'
  OBVIOUS
<1>a. JobsOK /\ ContentOK /\ DirectoryOK
  BY BaseIs
<1>b. ASSUME NEW w \in Writers, NEW k \in GoodJobs, Set(w, k) PROVE JobsOK'
  BY <1>a, <1>b, JobStep DEF JobsOK
<1>c. \A w \in Writers : dlJob[w] \in GoodJobs
  BY <1>a DEF JobsOK
<1>1. ASSUME NEW r \in Requests, AsyncTest(r) PROVE JobsOK'
  BY <1>1, <1>b, <1>c, JobForms, DownloadFacts DEF AsyncTest
<1>2. ASSUME NEW r \in Requests, AsyncSet(r) PROVE JobsOK'
  <2>1. dlJob[r].pc = "set" /\ r \in Writers
    BY <1>2, DownloadFacts DEF AsyncSet
  <2> QED
    BY <1>2, <1>a, <1>b, <1>c, <2>1, JobForms, JobFields DEF AsyncSet
<1>3. ASSUME NEW r \in Requests, UsbCopy(r) PROVE JobsOK'
  BY <1>3, <1>b, <1>c, JobForms, DownloadFacts DEF UsbCopy
<1>4. ASSUME NEW r \in Requests, UsbClose(r) PROVE JobsOK'
  BY <1>4, <1>b, <1>c, JobForms, DownloadFacts DEF UsbClose
<1>5. ASSUME NEW r \in Requests, NEW f \in Files, NEW l \in Files, ToolDownload(r, f, l) PROVE JobsOK'
  BY <1>5, <1>b, <1>c, JobForms, DownloadFacts DEF ToolDownload
<1>6. ASSUME NEW r \in Requests, NEW f \in Files, UsbOpen(r, f) PROVE JobsOK'
  <2> DEFINE i == IF dlDest[f] = 0 THEN FreshInode ELSE dlDest[f]
  <2>1. i \in Inodes
    BY <1>6, <1>a, FreshIsFree DEF UsbOpen, DirectoryOK, Free
  <2>2. r \in Writers
    BY DownloadFacts
  <2>3. [NoJob EXCEPT !.kind = "usb", !.pc = "copy", !.shard = f, !.last = f, !.fd = i] \in GoodJobs
    BY <2>1, <2>2, <1>c, JobForms
  <2> QED
    BY <1>6, <1>b, <2>2, <2>3 DEF UsbOpen
<1>7. CASE AutoUpgradeCheck
  BY <1>7, <1>b, <1>c, JobForms, DownloadFacts DEF AutoUpgradeCheck
<1>8. ASSUME NEW w \in Writers, FileStep(w) PROVE JobsOK'
  <2>a. /\ dlJob[w] \in GoodJobs /\ dlJob[w].shard \in Files /\ dlJob[w].old \in Nat
        /\ dlJob[w].fd # 0 <=> dlJob[w].pc \in {"recv", "finish", "copy"}
        /\ dlJob[w].shard < dlJob[w].last => dlJob[w].shard + 1 \in Files
    BY <1>a, JobFields
  <2>1. CASE CheckDest(w)
    <3>1. dlJob[w].fd = 0
      BY <2>1, <2>a DEF CheckDest
    <3> QED
      BY <2>1, <3>1, <2>a, <1>b, JobForms DEF CheckDest
  <2>2. CASE StatPart(w)
    <3>1. dlJob[w].fd = 0
      BY <2>2, <2>a DEF StatPart
    <3>2. (IF dlPart[dlJob[w].shard] = 0 THEN 0 ELSE Len(dlData[dlPart[dlJob[w].shard]])) \in Nat
      BY <2>a, <1>a DEF ContentOK, DirectoryOK
    <3> QED
      BY <2>2, <3>1, <3>2, <2>a, <1>b, JobForms DEF StatPart
  <2>3. CASE OpenPart(w)
    <3> DEFINE f == dlJob[w].shard
               i == IF dlPart[f] = 0 THEN FreshInode ELSE dlPart[f]
    <3>1. i \in Inodes
      BY <2>3, <2>a, <1>a, FreshIsFree DEF OpenPart, DirectoryOK, Free
    <3>2. [dlJob[w] EXCEPT !.pc = "recv", !.fd = i, !.got = dlJob[w].old] \in GoodJobs
      <4>1. dlJob[w].fd = 0
        BY <2>3, <2>a DEF OpenPart
      <4> QED
        BY <3>1, <4>1, <2>a, JobForms
    <3> QED
      BY <2>3, <3>2, <1>b DEF OpenPart
  <2>4. CASE OpenFails(w)
    BY <2>4, <2>a, <1>b, JobForms DEF OpenFails
  <2>5. CASE Receive(w)
    BY <2>5, <2>a, <1>b, JobForms DEF Receive
  <2>6. CASE CurlError(w)
    BY <2>6, <2>a, <1>b, JobForms DEF CurlError
  <2>7. CASE HttpError(w)
    BY <2>7, <2>a, <1>b, JobForms DEF HttpError
  <2>8. CASE FlushFails(w)
    BY <2>8, <2>a, <1>b, JobForms DEF FlushFails
  <2>9. CASE FinishFile(w)
    <3> DEFINE j == dlJob[w]
               f == j.shard
               renamed == Result(j) = "ok" /\ dlPart[f] # 0
               pc == IF renamed /\ f < j.last THEN "file" ELSE "end"
               g == IF renamed /\ f < j.last THEN f + 1 ELSE f
    <3>1. pc \in {"file", "end"} /\ g \in Files
      BY <2>a
    <3>2. Set(w, [j EXCEPT !.old = 0, !.fd = 0, !.got = 0, !.res = "none", !.pc = pc, !.shard = g])
      BY <2>9 DEF FinishFile
    <3>3. [j EXCEPT !.old = 0, !.fd = 0, !.got = 0, !.res = "none", !.pc = pc, !.shard = g] \in GoodJobs
      <4> HIDE DEF pc, g
      <4> QED
        BY <3>1, <2>a, JobForms
    <3> QED
      BY <3>2, <3>3, <1>b
  <2>10. CASE EndJob(w)
    BY <2>10, <2>a, <1>b, JobForms DEF EndJob
  <2> QED
    BY <1>8, <2>1, <2>2, <2>3, <2>4, <2>5, <2>6, <2>7, <2>8, <2>9, <2>10 DEF FileStep
<1>9. CASE DownloadCrash
  <2>1. NoJob \in GoodJobs
    BY DownloadFacts DEF GoodJobs
  <2> QED
    BY <1>9, <2>1 DEF DownloadCrash, JobsOK
<1>10. CASE UNCHANGED dlCore
  BY <1>10, <1>a DEF dlCore, JobsOK
<1> QED
  BY <1>1, <1>2, <1>3, <1>4, <1>5, <1>6, <1>7, <1>8, <1>9, <1>10 DEF DownloadStep

\* Writing through a descriptor, truncating and freeing.
LEMMA ContentForms ==
  ASSUME ContentOK
  PROVE  /\ \A i \in Inodes, t \in Seq(Pieces) :
               dlData' = [dlData EXCEPT ![i] = t] => ContentOK'
         /\ FreeUnused => ContentOK'
<1>1. ASSUME NEW i \in Inodes, NEW t \in Seq(Pieces), dlData' = [dlData EXCEPT ![i] = t]
      PROVE  ContentOK'
  BY <1>1 DEF ContentOK
<1>2. ASSUME FreeUnused PROVE ContentOK'
  <2>1. <<>> \in Seq(Pieces)
    OBVIOUS
  <2> QED
    BY <1>2, <2>1 DEF ContentOK, FreeUnused
<1> QED
  BY <1>1, <1>2

LEMMA ContentNext == DownloadBase /\ [DownloadStep]_dlCore => ContentOK'
<1> SUFFICES ASSUME DownloadBase, [DownloadStep]_dlCore PROVE ContentOK'
  OBVIOUS
<1>a. JobsOK /\ ContentOK /\ DirectoryOK
  BY BaseIs
<1>b. dlData' = dlData => ContentOK'
  BY <1>a DEF ContentOK
<1>c. ASSUME NEW w \in Writers, NEW p \in Pieces, dlJob[w].fd # 0,
             dlData' = [dlData EXCEPT ![dlJob[w].fd] = Written(@, dlJob[w], p)]
      PROVE  ContentOK'
  <2>1. dlJob[w] \in Job /\ dlJob[w].fd \in Inodes
    BY <1>c, <1>a, JobFields DEF GoodJobs
  <2>2. Written(dlData[dlJob[w].fd], dlJob[w], p) \in Seq(Pieces)
    BY <2>1, <1>a, WrittenType DEF ContentOK
  <2>3. dlData' = [dlData EXCEPT ![dlJob[w].fd] = Written(dlData[dlJob[w].fd], dlJob[w], p)]
    BY <1>c, <1>a, <2>1 DEF ContentOK
  <2> QED
    BY <2>1, <2>2, <2>3, <1>a, ContentForms
<1>1. CASE UNCHANGED dlCore \/ (\E r \in Requests : AsyncTest(r) \/ AsyncSet(r))
             \/ (\E r \in Requests : \E f, l \in Files : ToolDownload(r, f, l)) \/ AutoUpgradeCheck
  BY <1>1, <1>b DEF dlCore, AsyncTest, AsyncSet, ToolDownload, AutoUpgradeCheck
<1>2. ASSUME NEW r \in Requests, UsbCopy(r) PROVE ContentOK'
  <2>1. r \in Writers /\ dlJob[r].fd # 0 /\ dlJob[r].got + 1 \in Pieces
    BY <1>2, <1>a, JobFields, DownloadFacts DEF UsbCopy
  <2> QED
    BY <1>2, <2>1, <1>b, <1>c DEF UsbCopy
<1>3. CASE (\E r \in Requests : UsbClose(r)) \/ DownloadCrash
  BY <1>3, <1>a, ContentForms DEF UsbClose, DownloadCrash
<1>4. ASSUME NEW r \in Requests, NEW f \in Files, UsbOpen(r, f) PROVE ContentOK'
  <2> DEFINE i == IF dlDest[f] = 0 THEN FreshInode ELSE dlDest[f]
  <2>1. i \in Inodes
    BY <1>4, <1>a, FreshIsFree DEF UsbOpen, DirectoryOK, Free
  <2>2. dlData' = [dlData EXCEPT ![i] = <<>>]
    BY <1>4 DEF UsbOpen
  <2>3. <<>> \in Seq(Pieces)
    OBVIOUS
  <2> HIDE DEF i
  <2> QED
    BY <2>1, <2>2, <2>3, <1>a, ContentForms
<1>5. ASSUME NEW w \in Writers, FileStep(w) PROVE ContentOK'
  <2>1. CASE CheckDest(w) \/ StatPart(w) \/ OpenFails(w) \/ CurlError(w) \/ FlushFails(w) \/ EndJob(w)
    BY <2>1, <1>b DEF CheckDest, StatPart, OpenFails, CurlError, FlushFails, EndJob
  <2>2. CASE OpenPart(w)
    <3> DEFINE f == dlJob[w].shard
               i == IF dlPart[f] = 0 THEN FreshInode ELSE dlPart[f]
               t == IF dlPart[f] # 0 /\ dlJob[w].old > 0 THEN dlData[i] ELSE <<>>
    <3>1. i \in Inodes
      BY <2>2, <1>a, JobFields, FreshIsFree DEF OpenPart, DirectoryOK, Free
    <3>2. t \in Seq(Pieces)
      BY <3>1, <1>a DEF ContentOK
    <3>3. dlData' = [dlData EXCEPT ![i] = t]
      BY <2>2, <3>1, <1>a DEF OpenPart, ContentOK
    <3> HIDE DEF i, t
    <3> QED
      BY <3>1, <3>2, <3>3, <1>a, ContentForms
  <2>3. CASE Receive(w)
    <3>1. dlJob[w].fd # 0 /\ dlJob[w].got + 1 \in Pieces
      BY <2>3, <1>a, JobFields, DownloadFacts DEF Receive
    <3> QED
      BY <2>3, <3>1, <1>c DEF Receive
  <2>4. CASE HttpError(w)
    <3>1. dlJob[w].fd # 0 /\ ErrorPage \in Pieces
      BY <2>4, <1>a, JobFields, DownloadFacts DEF HttpError
    <3> QED
      BY <2>4, <3>1, <1>b, <1>c DEF HttpError
  <2>5. CASE FinishFile(w)
    BY <2>5, <1>a, ContentForms DEF FinishFile
  <2> QED
    BY <1>5, <2>1, <2>2, <2>3, <2>4, <2>5 DEF FileStep
<1> QED
  BY <1>1, <1>2, <1>3, <1>4, <1>5 DEF DownloadStep

LEMMA DirectoryNext == DownloadBase /\ [DownloadStep]_dlCore => DirectoryOK'
<1> SUFFICES ASSUME DownloadBase, [DownloadStep]_dlCore PROVE DirectoryOK'
  OBVIOUS
<1>a. JobsOK /\ DirectoryOK
  BY BaseIs
<1>1. CASE UNCHANGED <<dlPart, dlDest>>
  BY <1>1, <1>a DEF DirectoryOK
<1>2. ASSUME NEW r \in Requests, NEW f \in Files, UsbOpen(r, f) PROVE DirectoryOK'
  <2> DEFINE i == IF dlDest[f] = 0 THEN FreshInode ELSE dlDest[f]
  <2>1. i \in Inodes
    BY <1>2, <1>a, FreshIsFree DEF UsbOpen, DirectoryOK, Free
  <2>2. dlDest' = [dlDest EXCEPT ![f] = i] /\ dlPart' = dlPart
    BY <1>2 DEF UsbOpen
  <2> HIDE DEF i
  <2> QED
    BY <2>1, <2>2, <1>a DEF DirectoryOK
<1>3. ASSUME NEW w \in Writers, OpenPart(w) PROVE DirectoryOK'
  <2> DEFINE f == dlJob[w].shard
             i == IF dlPart[f] = 0 THEN FreshInode ELSE dlPart[f]
  <2>1. i \in Inodes /\ f \in Files
    BY <1>3, <1>a, JobFields, FreshIsFree DEF OpenPart, DirectoryOK, Free
  <2>2. dlPart' = [dlPart EXCEPT ![f] = i] /\ dlDest' = dlDest
    BY <1>3 DEF OpenPart
  <2> HIDE DEF i, f
  <2> QED
    BY <2>1, <2>2, <1>a DEF DirectoryOK
<1>4. ASSUME NEW w \in Writers, FinishFile(w) PROVE DirectoryOK'
  <2> DEFINE f == dlJob[w].shard
  <2>1. f \in Files /\ dlPart[f] \in Inodes \union {0}
    BY <1>a, JobFields DEF DirectoryOK
  <2>2. /\ dlDest' = [dlDest EXCEPT ![f] = dlPart[f]] \/ dlDest' = dlDest
        /\ dlPart' = [dlPart EXCEPT ![f] = 0] \/ dlPart' = dlPart
    BY <1>4 DEF FinishFile
  <2> HIDE DEF f
  <2> QED
    BY <2>1, <2>2, <1>a DEF DirectoryOK
<1> QED
  BY <1>1, <1>2, <1>3, <1>4 DEF DownloadStep, FileStep, dlCore, AsyncTest, AsyncSet, ToolDownload,
     AutoUpgradeCheck, UsbCopy, UsbClose, DownloadCrash, CheckDest, StatPart, OpenFails, Receive,
     CurlError, HttpError, FlushFails, EndJob

LEMMA FlagsNext == DownloadBase /\ [DownloadStep]_dlCore => FlagsOK'
<1> SUFFICES ASSUME DownloadBase, [DownloadStep]_dlCore PROVE FlagsOK'
  OBVIOUS
<1>a. JobsOK /\ FlagsOK /\ \A w \in Writers : dlJob[w].shard \in Files
  BY BaseIs, JobFields
<1>1. dlActive' \in {0, 1} /\ dlUpgrading' \in {0, 1}
  BY ZenonT(40), <1>a DEF FlagsOK, DownloadStep, FileStep, dlCore, AsyncTest, AsyncSet, ToolDownload, UsbOpen,
     AutoUpgradeCheck, UsbCopy, UsbClose, DownloadCrash, CheckDest, StatPart, OpenPart, OpenFails,
     Receive, CurlError, HttpError, FlushFails, FinishFile, EndJob
<1>2. dlTainted' \subseteq Files
  <2>1. CASE UNCHANGED dlTainted
    BY <2>1, <1>a DEF FlagsOK
  <2>2. ASSUME NEW f \in Files, dlTainted' \subseteq dlTainted \union {f} PROVE dlTainted' \subseteq Files
    BY <2>2, <1>a DEF FlagsOK
  <2>3. ASSUME NEW w \in Writers, StatPart(w) PROVE dlTainted' \subseteq Files
    BY <2>3, <2>2, <1>a DEF StatPart
  <2>4. ASSUME NEW w \in Writers, FlushFails(w) PROVE dlTainted' \subseteq Files
    BY <2>4, <2>2, <1>a DEF FlushFails
  <2>5. ASSUME NEW w \in Writers, FinishFile(w) PROVE dlTainted' \subseteq Files
    BY <2>5, <2>2, <1>a DEF FinishFile
  <2>6. CASE DownloadCrash
    BY <2>6, <1>a DEF FlagsOK, DownloadCrash, PageLeft
  <2>7. ASSUME NEW r \in Requests, NEW f \in Files, UsbOpen(r, f) PROVE dlTainted' \subseteq Files
    BY <2>7, <2>2 DEF UsbOpen
  <2> QED
    BY <2>1, <2>3, <2>4, <2>5, <2>6, <2>7 DEF DownloadStep, FileStep, dlCore, AsyncTest, AsyncSet,
       ToolDownload, AutoUpgradeCheck, UsbCopy, UsbClose, CheckDest, OpenPart, OpenFails, Receive,
       CurlError, HttpError, EndJob
<1> QED
  BY <1>1, <1>2 DEF FlagsOK

LEMMA CountsNext == CountsOK /\ [DownloadStep]_dlCore => CountsOK'
<1> SUFFICES ASSUME CountsOK, [DownloadStep]_dlCore PROVE CountsOK'
  OBVIOUS
<1>1. /\ UNCHANGED dlStarts \/ (dlStarts < MaxStarts /\ dlStarts' = dlStarts + 1)
      /\ UNCHANGED dlFaults \/ Fault
  BY DEF DownloadStep, FileStep, dlCore, AsyncTest, AsyncSet, ToolDownload, UsbOpen,
     AutoUpgradeCheck, UsbCopy, UsbClose, DownloadCrash, CheckDest, StatPart, OpenPart, OpenFails,
     Receive, CurlError, HttpError, FlushFails, FinishFile, EndJob
<1> QED
  BY <1>1, DownloadAssumption DEF CountsOK, Fault

LEMMA DownloadBaseNext == DownloadBase /\ [DownloadStep]_dlCore => DownloadBase'
<1> SUFFICES ASSUME DownloadBase, [DownloadStep]_dlCore PROVE DownloadBase'
  OBVIOUS
<1>1. (JobsOK /\ ContentOK /\ DirectoryOK /\ FlagsOK /\ CountsOK)'
  BY JobsNext, ContentNext, DirectoryNext, FlagsNext, CountsNext, BaseIs
<1>2. (DownloadBase <=> JobsOK /\ ContentOK /\ DirectoryOK /\ FlagsOK /\ CountsOK)'
  BY BaseIs, PTL
<1> QED
  BY <1>1, <1>2

\* Only what the upgrade is told lies outside the steps of the downloads.
LEMMA CoreStep == [DownloadNext]_dlVars => [DownloadStep]_dlCore
  BY DEF DownloadNext, NeedChanges, dlVars, dlCore

LEMMA NeedOKInit == DownloadInit => NeedOK
  BY DEF DownloadInit, NeedOK

LEMMA NeedOKNext == NeedOK /\ [DownloadNext]_dlVars => NeedOK'
  BY DEF DownloadNext, Noted, NeedChanges, dlVars, NeedOK

\* The state of the downloads keeps its type; no thread goes past the last shard of its model
\* (start_async_download), and one that writes has a file open.
THEOREM DownloadTypeCorrect == DownloadSpec => []DownloadTypeOK
<1>1. DownloadBase /\ NeedOK => DownloadTypeOK
  BY DEF DownloadBase, NeedOK, DownloadTypeOK
<1> QED
  BY <1>1, CoreStep, NeedOKInit, NeedOKNext, DownloadBaseInit, DownloadBaseNext, PTL
     DEF DownloadSpec

-----------------------------------------------------------------------------
(* The flags *)

\* What each kind of thread does, and that a thread that rests is of none.
KindInv ==
    \A w \in Writers :
        LET j == dlJob[w] IN
        /\ j.pc = "idle" => j.kind = "none"
        /\ j.pc = "set" => j.kind = "async"
        /\ j.pc = "copy" => j.kind = "usb"
        /\ w = "upgrade" => j.kind \in {"none", "upgrade"}
        /\ w # "upgrade" => j.kind # "upgrade"
        /\ j.kind = "none" => j.pc = "idle"

FlagInv == KindInv /\ FlagMeansRunning

LEMMA FlagInvInit == DownloadInit => FlagInv
  BY DownloadFacts DEF DownloadInit, FlagInv, KindInv, FlagMeansRunning, Writers

LEMMA FlagInvNext == DownloadBase /\ FlagInv /\ [DownloadStep]_dlCore => FlagInv'
<1> SUFFICES ASSUME DownloadBase, FlagInv, [DownloadStep]_dlCore PROVE FlagInv'
  OBVIOUS
<1>a. JobsOK /\ FlagsOK /\ "upgrade" \notin Requests /\ Writers = Requests \union {"upgrade"}
  BY BaseIs, DownloadAssumption DEF Writers
<1>b. \A w \in Writers : dlJob[w] \in GoodJobs
  BY <1>a DEF JobsOK
<1>c. ASSUME NEW w \in Writers, NEW k \in GoodJobs, Set(w, k)
      PROVE  dlJob'[w] = k /\ \A v \in Writers \ {w} : dlJob'[v] = dlJob[v]
  BY <1>c, <1>a, JobStep DEF JobsOK
\* A step of a download that goes on.
<1>d. ASSUME NEW w \in Writers, dlJob'[w].kind = dlJob[w].kind,
             dlJob[w].pc \notin {"idle", "set", "copy"}, dlJob'[w].pc \notin {"idle", "set", "copy"},
             \A v \in Writers \ {w} : dlJob'[v] = dlJob[v], UNCHANGED <<dlActive, dlUpgrading>>
      PROVE  FlagInv'
  BY <1>d, <1>a DEF FlagInv, KindInv, FlagMeansRunning
\* A request starts or ends something that has no flag, or has not set it.
<1>e. ASSUME NEW r \in Requests, dlJob[r].pc \in {"idle", "copy"},
             \/ dlJob'[r] = NoJob
             \/ dlJob'[r].pc = "set" /\ dlJob'[r].kind = "async"
             \/ dlJob'[r].pc = "copy" /\ dlJob'[r].kind = "usb"
             \/ dlJob'[r].pc = "file" /\ dlJob'[r].kind = "tool",
             \A v \in Writers \ {r} : dlJob'[v] = dlJob[v], UNCHANGED <<dlActive, dlUpgrading>>
      PROVE  FlagInv'
  <2>1. dlJob[r].kind \in {"none", "usb"}
    BY <1>e, <1>a DEF FlagInv, KindInv
  <2> QED
    BY <1>e, <1>a, <2>1, DownloadFacts DEF FlagInv, KindInv, FlagMeansRunning
<1>1. ASSUME NEW r \in Requests, AsyncTest(r) PROVE FlagInv'
  <2>1. r \in Writers /\ [NoJob EXCEPT !.kind = "async", !.pc = "set", !.last = Shards] \in GoodJobs
    BY <1>a, <1>b, JobForms
  <2>2. dlJob'[r].pc = "set" /\ dlJob'[r].kind = "async" /\ \A v \in Writers \ {r} : dlJob'[v] = dlJob[v]
    <3>1. dlJob'[r] = [NoJob EXCEPT !.kind = "async", !.pc = "set", !.last = Shards]
          /\ \A v \in Writers \ {r} : dlJob'[v] = dlJob[v]
      BY <1>1, <1>c, <2>1 DEF AsyncTest
    <3> QED
      BY <3>1 DEF NoJob
  <2> QED
    BY <1>1, <1>e, <2>2 DEF AsyncTest
<1>2. ASSUME NEW r \in Requests, AsyncSet(r) PROVE FlagInv'
  <2>1. /\ r \in Writers /\ dlJob[r].fd = 0 /\ dlJob[r] \in Job /\ dlJob[r].kind = "async"
        /\ [dlJob[r] EXCEPT !.pc = "file"] \in GoodJobs
    BY ZenonT(40), <1>2, <1>a, <1>b, JobForms, JobFields DEF AsyncSet, FlagInv, KindInv, GoodJobs
  <2>2. /\ dlJob'[r].pc = "file" /\ dlJob'[r].kind = "async"
        /\ \A v \in Writers \ {r} : dlJob'[v] = dlJob[v]
    BY <1>2, <1>c, <2>1 DEF AsyncSet, Job
  <2> QED
    BY <1>2, <2>1, <2>2, <1>a DEF AsyncSet, FlagInv, KindInv, FlagMeansRunning
<1>3. ASSUME NEW r \in Requests, UsbCopy(r) PROVE FlagInv'
  <2>1. /\ r \in Writers /\ dlJob[r].kind = "usb" /\ dlJob[r] \in Job /\ dlJob[r].pc = "copy"
        /\ [dlJob[r] EXCEPT !.got = @ + 1] \in GoodJobs
    BY <1>3, <1>a, <1>b, JobForms DEF UsbCopy, FlagInv, KindInv, GoodJobs
  <2>2. /\ dlJob'[r].pc = "copy" /\ dlJob'[r].kind = "usb"
        /\ \A v \in Writers \ {r} : dlJob'[v] = dlJob[v]
    BY <1>3, <1>c, <2>1 DEF UsbCopy, Job
  <2> QED
    BY <1>3, <1>e, <2>1, <2>2 DEF UsbCopy
<1>4. ASSUME NEW r \in Requests, UsbClose(r) PROVE FlagInv'
  <2>1. r \in Writers /\ NoJob \in GoodJobs
    BY <1>a, <1>b, JobForms
  <2>2. dlJob'[r] = NoJob /\ \A v \in Writers \ {r} : dlJob'[v] = dlJob[v]
    BY <1>4, <2>1, <1>c DEF UsbClose
  <2> QED
    BY <1>4, <2>2, <1>e DEF UsbClose
<1>5. ASSUME NEW r \in Requests, NEW f \in Files, NEW l \in Files, ToolDownload(r, f, l) PROVE FlagInv'
  <2>1. /\ r \in Writers
        /\ [NoJob EXCEPT !.kind = "tool", !.pc = "file", !.shard = f, !.last = l] \in GoodJobs
    BY <1>a, <1>b, JobForms
  <2>2. dlJob'[r].pc = "file" /\ dlJob'[r].kind = "tool" /\ \A v \in Writers \ {r} : dlJob'[v] = dlJob[v]
    <3>1. dlJob'[r] = [NoJob EXCEPT !.kind = "tool", !.pc = "file", !.shard = f, !.last = l]
          /\ \A v \in Writers \ {r} : dlJob'[v] = dlJob[v]
      BY <1>5, <1>c, <2>1 DEF ToolDownload
    <3> QED
      BY <3>1 DEF NoJob
  <2> QED
    BY <1>5, <1>e, <2>2 DEF ToolDownload
<1>6. ASSUME NEW r \in Requests, NEW f \in Files, UsbOpen(r, f) PROVE FlagInv'
  <2>1. /\ \E i : dlJob' = [dlJob EXCEPT ![r] =
                    [NoJob EXCEPT !.kind = "usb", !.pc = "copy", !.shard = f, !.last = f, !.fd = i]]
        /\ DOMAIN dlJob = Writers /\ r \in Writers
    BY <1>6, <1>a DEF UsbOpen, Set, JobsOK
  <2>2. dlJob'[r].pc = "copy" /\ dlJob'[r].kind = "usb" /\ \A v \in Writers \ {r} : dlJob'[v] = dlJob[v]
    BY <2>1 DEF NoJob
  <2> QED
    BY <1>6, <1>e, <2>2 DEF UsbOpen
<1>7. CASE AutoUpgradeCheck
  <2>1. "upgrade" \in Writers /\ [NoJob EXCEPT !.kind = "upgrade", !.pc = "stat"] \in GoodJobs
    BY <1>a, <1>b, JobForms
  <2>2. /\ dlJob'["upgrade"].pc = "stat" /\ dlJob'["upgrade"].kind = "upgrade"
        /\ \A v \in Writers \ {"upgrade"} : dlJob'[v] = dlJob[v]
    <3>1. dlJob'["upgrade"] = [NoJob EXCEPT !.kind = "upgrade", !.pc = "stat"]
          /\ \A v \in Writers \ {"upgrade"} : dlJob'[v] = dlJob[v]
      BY <1>7, <1>c, <2>1 DEF AutoUpgradeCheck
    <3> QED
      BY <3>1 DEF NoJob
  <2> QED
    BY <1>7, <2>1, <2>2, <1>a DEF AutoUpgradeCheck, FlagInv, KindInv, FlagMeansRunning
<1>8. ASSUME NEW w \in Writers, FileStep(w) PROVE FlagInv'
  <2>1. CASE EndJob(w)
    <3>1. dlJob'[w] = NoJob /\ \A v \in Writers \ {w} : dlJob'[v] = dlJob[v]
      BY <2>1, <1>b, <1>c, JobForms DEF EndJob
    <3>2. NoJob.kind = "none" /\ NoJob.pc = "idle"
      BY DEF NoJob
    <3> HIDE DEF NoJob
    <3>3. KindInv'
      BY <3>1, <3>2, <1>a DEF FlagInv, KindInv
    <3>4. (dlActive = 1 => \E r \in Requests : dlJob[r].kind = "async" /\ dlJob[r].pc # "set")'
      BY <2>1, <3>1, <1>a DEF EndJob, FlagInv, FlagMeansRunning
    <3>5. (dlUpgrading = 1 <=> dlJob["upgrade"].pc # "idle")'
      BY <2>1, <3>1, <3>2, <1>a DEF EndJob, FlagInv, KindInv, FlagMeansRunning
    <3> QED
      BY <3>3, <3>4, <3>5 DEF FlagInv, FlagMeansRunning
  <2>2. CASE ~EndJob(w)
    <3>a. DOMAIN dlJob = Writers /\ dlJob[w] \in Job
      BY <1>a, <1>b DEF JobsOK, GoodJobs
    <3>1. /\ dlJob'[w].kind = dlJob[w].kind /\ dlJob[w].pc \notin {"idle", "set", "copy"}
          /\ dlJob'[w].pc \notin {"idle", "set", "copy"}
          /\ \A v \in Writers \ {w} : dlJob'[v] = dlJob[v]
      <4> DEFINE Goes == /\ dlJob'[w].kind = dlJob[w].kind /\ dlJob[w].pc \notin {"idle", "set", "copy"}
                         /\ dlJob'[w].pc \notin {"idle", "set", "copy"}
                         /\ \A v \in Writers \ {w} : dlJob'[v] = dlJob[v]
      <4>1. CheckDest(w) => Goes
        BY <3>a DEF CheckDest, Set, Job
      <4>2. StatPart(w) => Goes
        BY <3>a DEF StatPart, Set, Job
      <4>3. OpenPart(w) => Goes
        BY <3>a DEF OpenPart, Set, Job
      <4>4. OpenFails(w) => Goes
        BY <3>a DEF OpenFails, Set, Job
      <4>5. Receive(w) => Goes
        BY <3>a DEF Receive, Set, Job
      <4>6. CurlError(w) => Goes
        BY <3>a DEF CurlError, Set, Job
      <4>7. HttpError(w) => Goes
        BY <3>a DEF HttpError, Set, Job
      <4>8. FlushFails(w) => Goes
        BY <3>a DEF FlushFails, Set, Job
      <4>9. FinishFile(w) => Goes
        BY <3>a DEF FinishFile, Set, Job
      <4> QED
        BY <1>8, <2>2, <4>1, <4>2, <4>3, <4>4, <4>5, <4>6, <4>7, <4>8, <4>9 DEF FileStep
    <3>2. UNCHANGED <<dlActive, dlUpgrading>>
      BY <1>8, <2>2 DEF FileStep, CheckDest, StatPart, OpenPart, OpenFails, Receive, CurlError,
         HttpError, FlushFails, FinishFile
    <3> QED
      BY <3>1, <3>2, <1>d
  <2> QED
    BY <2>1, <2>2
<1>9. CASE DownloadCrash
  BY <1>9, <1>a DEF DownloadCrash, FlagInv, KindInv, FlagMeansRunning, NoJob
<1>10. CASE UNCHANGED dlCore
  BY <1>10 DEF dlCore, FlagInv, KindInv, FlagMeansRunning
<1> QED
  BY <1>1, <1>2, <1>3, <1>4, <1>5, <1>6, <1>7, <1>8, <1>9, <1>10 DEF DownloadStep

\* g_dl.active and g_upgrade_downloading are never left behind: one that is set has a thread
\* that is going to clear it, on every error path (start_async_download, do_auto_upgrade_check).
THEOREM FlagsMeanRunning == DownloadSpec => []FlagMeansRunning
<1>1. FlagInv => FlagMeansRunning
  BY DEF FlagInv
<1> QED
  BY <1>1, CoreStep, FlagInvInit, FlagInvNext, DownloadBaseInit, DownloadBaseNext, PTL
     DEF DownloadSpec

-----------------------------------------------------------------------------
(* The model store *)

\* The first n pieces of a file.
Prefix(n) == [i \in 1..n |-> i]
Partial(s) == \E n \in 0..Chunks : s = Prefix(n)

\* An inode belongs to one shard, by its names and by the descriptors of it.
Refers(i, f) ==
    dlPart[f] = i \/ dlDest[f] = i \/ \E w \in Writers : dlJob[w].shard = f /\ dlJob[w].fd = i
OwnInv == \A i \in Inodes : \A f, g \in Files : Refers(i, f) /\ Refers(i, g) => f = g

\* A shard with two writers is tainted.
SoleInv ==
    \A v, w \in Writers :
        v # w /\ Writing(v) /\ Writing(w) /\ dlJob[v].shard = dlJob[w].shard
            => dlJob[w].shard \in dlTainted

\* The one writer of an untainted shard knows how far its part has got, and the file under
\* the final name is another.
WriterSound(w, f) ==
    LET j == dlJob[w] IN
    /\ j.pc # "copy"
    /\ j.pc = "open" => j.old = IF dlPart[f] = 0 THEN 0 ELSE Len(dlData[dlPart[f]])
    /\ j.pc \in {"recv", "finish"} => j.fd = dlPart[f]
    /\ j.pc = "recv" => /\ j.res = "none" /\ j.old <= j.got /\ j.got <= Chunks
                        /\ dlData[j.fd] = Prefix(j.got)
    /\ j.pc = "finish" => /\ j.res \in {"curl", "http"}
                          /\ Partial(dlData[j.fd]) \/ dlData[j.fd] = <<ErrorPage>>
FinishPending(f) == \E w \in Writers : dlJob[w].shard = f /\ dlJob[w].pc = "finish"
FileSound(f) ==
    /\ dlDest[f] # 0 => dlData[dlDest[f]] = Whole /\ dlDest[f] # dlPart[f]
    /\ dlPart[f] # 0 /\ ~FinishPending(f) => Partial(dlData[dlPart[f]])
    /\ \A w \in Writers : dlJob[w].shard = f /\ Writing(w) => WriterSound(w, f)
CleanInv == \A f \in Files \ dlTainted : FileSound(f)

StoreInv == OwnInv /\ SoleInv /\ CleanInv

\* Pieces arrive in order.
LEMMA PrefixFacts ==
  /\ Whole = Prefix(Chunks) /\ Prefix(0) = <<>> /\ Partial(Whole) /\ Partial(<<>>)
  /\ \A n \in Nat : Prefix(n) \in Seq(Nat) /\ Len(Prefix(n)) = n
  /\ \A n \in Nat : n <= Chunks => Partial(Prefix(n))
<1>1. Whole = Prefix(Chunks) /\ Prefix(0) = <<>> /\ Chunks \in Nat
  BY DownloadFacts DEF Whole, Prefix
<1>2. \A n \in Nat : Prefix(n) \in Seq(Nat) /\ Len(Prefix(n)) = n
  BY DEF Prefix
<1>3. ASSUME NEW n \in Nat, n <= Chunks PROVE Partial(Prefix(n))
  <2>1. n \in 0..Chunks
    BY <1>3, <1>1
  <2> QED
    BY <2>1 DEF Partial
<1>4. Partial(Prefix(Chunks)) /\ Partial(Prefix(0))
  BY <1>1, <1>3
<1> QED
  BY <1>1, <1>2, <1>3, <1>4

LEMMA PrefixIs ==
  ASSUME NEW m \in Nat, NEW s \in Seq(Nat), Len(s) = m, \A i \in 1..m : s[i] = i
  PROVE  s = Prefix(m)
<1>1. DOMAIN s = 1..m /\ s = [i \in DOMAIN s |-> s[i]]
  OBVIOUS
<1> QED
  BY <1>1 DEF Prefix

LEMMA WrittenPrefix ==
  ASSUME NEW j \in Job
  PROVE  /\ Written(Prefix(j.got), j, j.got + 1) = Prefix(j.got + 1)
         /\ j.got = 0 /\ j.old = 0 => Written(<<>>, j, ErrorPage) = <<ErrorPage>>
<1>a. j.got \in Nat /\ j.old \in Nat
  BY DEF Job
<1> DEFINE n == j.got
<1>b. n \in Nat /\ Prefix(n) \in Seq(Nat) /\ Len(Prefix(n)) = n /\ \A i \in 1..n : Prefix(n)[i] = i
  BY <1>a DEF Prefix
<1>1. CASE j.old > 0
  <2> DEFINE t == Append(Prefix(n), n + 1)
             m == n + 1
  <2>1. t \in Seq(Nat) /\ Len(t) = m /\ m \in Nat
    BY <1>b
  <2>2. \A i \in 1..m : t[i] = i
    BY <1>b
  <2>3. t = Prefix(m)
    <3> HIDE DEF t, m
    <3> QED
      BY <2>1, <2>2, PrefixIs
  <2>4. Written(Prefix(n), j, n + 1) = t
    BY <1>1 DEF Written
  <2>5. j.old # 0
    BY <1>1
  <2> QED
    BY <2>3, <2>4, <2>5
<1>2. CASE ~(j.old > 0)
  <2>1. Written(Prefix(n), j, n + 1) = [i \in 1..(n + 1) |-> IF i = n + 1 THEN n + 1
                                          ELSE IF i <= n THEN Prefix(n)[i] ELSE Hole]
    BY SMTT(30), <1>2, <1>b DEF Written
  <2>2. Written(Prefix(n), j, n + 1) = Prefix(n + 1)
    BY SMTT(30), <2>1, <1>b DEF Prefix
  <2>3. ASSUME n = 0 PROVE Written(<<>>, j, ErrorPage) = <<ErrorPage>>
    <3>1. Written(<<>>, j, ErrorPage) = [i \in 1..1 |-> IF i = 1 THEN ErrorPage
                                            ELSE IF i <= 0 THEN <<>>[i] ELSE Hole]
      BY <1>2, <2>3 DEF Written
    <3> QED
      BY <3>1
  <2> QED
    BY <1>2, <2>2, <2>3
<1> QED
  BY <1>1, <1>2, <1>a

LEMMA StoreInvInit == DownloadInit => StoreInv
<1> SUFFICES ASSUME DownloadInit PROVE StoreInv
  OBVIOUS
<1>1. PICK present \in SUBSET Files :
         /\ dlDest = [f \in Files |-> IF f \in present THEN f ELSE 0]
         /\ dlData = [i \in Inodes |-> IF i \in present THEN Whole ELSE <<>>]
  BY DEF DownloadInit
<1>2. /\ dlPart = [f \in Files |-> 0]
      /\ \A w \in Writers : dlJob[w].pc = "idle" /\ dlJob[w].fd = 0
  BY DownloadFacts DEF DownloadInit
<1>3. OwnInv
  BY <1>1, <1>2, DownloadFacts DEF OwnInv, Refers
<1>4. SoleInv
  BY <1>2 DEF SoleInv, Writing
<1>5. CleanInv
  BY <1>1, <1>2, DownloadFacts DEF CleanInv, FileSound, Writing
<1> QED
  BY <1>3, <1>4, <1>5 DEF StoreInv

\* A shard that a step does not touch.
Still(f) ==
    /\ dlPart'[f] = dlPart[f] /\ dlDest'[f] = dlDest[f]
    /\ dlPart[f] # 0 => dlData'[dlPart[f]] = dlData[dlPart[f]]
    /\ dlDest[f] # 0 => dlData'[dlDest[f]] = dlData[dlDest[f]]
Unwritten(f) ==
    \A w \in Writers :
        \/ dlJob'[w] = dlJob[w]
        \/ /\ ~(dlJob[w].shard = f /\ Writing(w))
           /\ ~(dlJob[w].shard = f /\ Writing(w))'

LEMMA StillSound ==
  ASSUME JobsOK, NEW f \in Files, Still(f), Unwritten(f), FileSound(f)
  PROVE  FileSound(f)'
<1>1. (dlDest[f] # 0 => dlData[dlDest[f]] = Whole /\ dlDest[f] # dlPart[f])'
  BY DEF Still, FileSound
<1>2. FinishPending(f) => FinishPending(f)'
  BY DEF FinishPending, Unwritten, Writing
<1>3. (dlPart[f] # 0 /\ ~FinishPending(f) => Partial(dlData[dlPart[f]]))'
  BY <1>2 DEF Still, FileSound, Partial
<1>4. ASSUME NEW w \in Writers, (dlJob[w].shard = f /\ Writing(w))' PROVE WriterSound(w, f)'
  <2>1. dlJob'[w] = dlJob[w]
    BY <1>4 DEF Unwritten
  <2>2. WriterSound(w, f)
    BY <1>4, <2>1 DEF FileSound, Writing
  <2>3. dlJob[w].fd # 0 <=> dlJob[w].pc \in {"recv", "finish", "copy"}
    BY JobFields
  <2> QED
    BY <2>1, <2>2, <2>3 DEF WriterSound, Still, Partial
<1> QED
  BY <1>1, <1>3, <1>4 DEF FileSound

\* One thread moves.
Moves(w) == \A v \in Writers \ {w} : dlJob'[v] = dlJob[v]

LEMMA SoleStep ==
  ASSUME SoleInv, NEW w \in Writers, Moves(w), dlTainted \subseteq dlTainted',
         Writing(w)' => \/ Writing(w) /\ dlJob'[w].shard = dlJob[w].shard
                        \/ dlJob'[w].shard \in dlTainted'
                        \/ ~Contended(w, dlJob'[w].shard)
  PROVE  SoleInv'
<1> SUFFICES ASSUME NEW u \in Writers, NEW v \in Writers, u # v, Writing(u)', Writing(v)',
                    dlJob'[u].shard = dlJob'[v].shard
             PROVE  dlJob'[v].shard \in dlTainted'
  BY DEF SoleInv
<1>1. CASE u # w /\ v # w
  BY <1>1 DEF Moves, SoleInv, Writing
<1>2. ASSUME NEW x \in Writers, x # w, Writing(x)', Writing(w)', dlJob'[x].shard = dlJob'[w].shard
      PROVE  dlJob'[w].shard \in dlTainted'
  <2>1. Writing(x) /\ dlJob[x].shard = dlJob'[w].shard
    BY <1>2 DEF Moves, Writing
  <2>2. CASE Writing(w) /\ dlJob'[w].shard = dlJob[w].shard
    BY <1>2, <2>1, <2>2 DEF SoleInv
  <2>3. CASE ~Contended(w, dlJob'[w].shard)
    BY <1>2, <2>1, <2>3 DEF Contended
  <2> QED
    BY <1>2, <2>2, <2>3
<1> QED
  BY <1>1, <1>2

\* After a step, an inode that a shard refers to was its own before, or is the one it is given.
LEMMA OwnStep ==
  ASSUME OwnInv, NEW g \in Files, NEW n,
         \A f \in Files : Refers(n, f) => f = g,
         \A i \in Inodes : \A f \in Files : Refers(i, f)' => Refers(i, f) \/ (i = n /\ f = g)
  PROVE  OwnInv'
  BY DEF OwnInv

\* A name or a descriptor that is given up, and a rename.
LEMMA OwnShrinks ==
  ASSUME OwnInv, \A w \in Writers : \/ dlJob'[w].fd = 0
                                    \/ dlJob'[w].fd = dlJob[w].fd /\ dlJob'[w].shard = dlJob[w].shard,
         \A f \in Files : dlPart'[f] \in {dlPart[f], 0} /\ dlDest'[f] \in {dlDest[f], dlPart[f]}
  PROVE  OwnInv'
<1>1. ASSUME NEW i \in Inodes, NEW f \in Files, Refers(i, f)' PROVE Refers(i, f)
  BY <1>1, DownloadFacts DEF Refers
<1> QED
  BY <1>1 DEF OwnInv

\* An inode that is not in use belongs to no shard.
LEMMA FreeIsUnowned == \A i \in Free : \A f \in Files : ~Refers(i, f)
  BY DEF Free, Used, Refers

\* Freeing leaves the files with a name alone.
LEMMA FreeingStill ==
  ASSUME DirectoryOK, FreeUnused, NEW f \in Files, dlPart'[f] = dlPart[f], dlDest'[f] = dlDest[f]
  PROVE  Still(f)
<1>1. dlPart[f] \in Inodes \union {0} /\ dlDest[f] \in Inodes \union {0}
  BY DEF DirectoryOK
<1>2. dlPart[f] \in Used' /\ dlDest[f] \in Used'
  BY DEF Used
<1> QED
  BY <1>1, <1>2 DEF Still, FreeUnused

\* So does writing to an inode of another shard, or to a free one.
LEMMA WritingStill ==
  ASSUME OwnInv, DirectoryOK, ContentOK, NEW g \in Files, NEW n \in Inodes, NEW t,
         Refers(n, g) \/ n \in Free, dlData' = [dlData EXCEPT ![n] = t],
         NEW f \in Files \ {g}, dlPart'[f] = dlPart[f], dlDest'[f] = dlDest[f]
  PROVE  Still(f)
<1>1. dlPart[f] \in Inodes \union {0} /\ dlDest[f] \in Inodes \union {0}
  BY DEF DirectoryOK
<1>2. dlPart[f] # n /\ dlDest[f] # n
  <2>1. CASE Refers(n, g)
    BY <2>1 DEF OwnInv, Refers
  <2>2. CASE n \in Free
    BY <2>2, FreeIsUnowned DEF Refers
  <2> QED
    BY <2>1, <2>2
<1> QED
  BY <1>1, <1>2 DEF Still, ContentOK

\* The state of a file as a reader of the directory finds it.
State(f) == IF dlDest[f] = 0 THEN "absent"
            ELSE IF dlData[dlDest[f]] = Whole THEN "whole" ELSE "broken"
KeepsFiles ==
    dlTainted \subseteq dlTainted' /\ \A f \in Files \ dlTainted' : State(f)' = State(f)
Publishes(f) ==
    /\ UNCHANGED dlTainted /\ State(f) = "absent" /\ State(f)' = "whole"
    /\ \A g \in Files \ {f} : State(g)' = State(g)
StoreStep == KeepsFiles \/ \E f \in Files : Publishes(f)

LEMMA StillState == \A f \in Files : Still(f) => State(f)' = State(f)
  BY DEF Still, State

\* A thread that does not write, and goes on so, changes nothing.
LEMMA QuietStep ==
  ASSUME JobsOK, StoreInv, NEW w \in Writers, Moves(w), ~Writing(w), ~Writing(w)',
         dlJob'[w].fd = 0, UNCHANGED <<dlPart, dlDest, dlData, dlTainted>>
  PROVE  StoreInv' /\ StoreStep
<1>1. \A f \in Files : Still(f) /\ Unwritten(f)
  BY DEF Still, Unwritten, Moves
<1>2. CleanInv'
  BY <1>1, StillSound DEF StoreInv, CleanInv
<1>3. SoleInv'
  BY SoleStep DEF StoreInv
<1>4. OwnInv'
  BY OwnShrinks DEF StoreInv, Moves
<1>5. KeepsFiles
  BY <1>1, StillState DEF KeepsFiles
<1> QED
  BY <1>2, <1>3, <1>4, <1>5 DEF StoreInv, StoreStep

\* A step of a thread on its own shard g: the others are sound as before.
LEMMA ShardStep ==
  ASSUME JobsOK, CleanInv, NEW w \in Writers, NEW g \in Files, Moves(w),
         dlJob[w].shard = g \/ ~Writing(w), dlJob'[w].shard = g \/ ~Writing(w)',
         \A f \in Files \ {g} : Still(f),
         dlTainted \subseteq dlTainted', g \notin dlTainted' => FileSound(g)'
  PROVE  CleanInv' /\ \A f \in Files \ {g} : State(f)' = State(f)
<1>1. ASSUME NEW f \in Files \ {g} PROVE Unwritten(f)
  BY <1>1 DEF Unwritten, Moves
<1>2. ASSUME NEW f \in Files \ {g}, f \notin dlTainted' PROVE FileSound(f)'
  BY <1>1, <1>2, StillSound DEF CleanInv
<1>3. CleanInv'
  BY <1>2 DEF CleanInv
<1> QED
  BY <1>3, StillState

\* A thread is given a job of a known form.
LEMMA Given ==
  ASSUME JobsOK, NEW w \in Writers, NEW k, Set(w, k)
  PROVE  dlJob'[w] = k /\ Moves(w)
  BY DEF JobsOK, Set, Moves

\* The only writer of an untainted shard.
LEMMA OnlyWriter ==
  ASSUME SoleInv, NEW w \in Writers, Writing(w), dlJob[w].shard \notin dlTainted
  PROVE  ~Contended(w, dlJob[w].shard)
  BY DEF SoleInv, Contended

\* A shard that has no writer, or whose one writer is w, is sound when w and the files are.
LEMMA SoundAlone ==
  ASSUME NEW w \in Writers, NEW g \in Files, Moves(w), ~Contended(w, g),
         (dlDest[g] # 0 => dlData[dlDest[g]] = Whole /\ dlDest[g] # dlPart[g])',
         (dlPart[g] # 0 /\ ~(dlJob[w].shard = g /\ dlJob[w].pc = "finish")
             => Partial(dlData[dlPart[g]]))',
         (dlJob[w].shard = g /\ Writing(w) => WriterSound(w, g))'
  PROVE  FileSound(g)'
<1>1. \A v \in Writers \ {w} : ~(dlJob[v].shard = g /\ Writing(v))'
  BY DEF Moves, Contended, Writing
<1>2. FinishPending(g)' <=> (dlJob[w].shard = g /\ dlJob[w].pc = "finish")'
  BY <1>1 DEF FinishPending, Writing
<1> QED
  BY <1>1, <1>2 DEF FileSound

\* Nothing but w may have the part of an untainted shard in hand.
LEMMA NoneFinishes ==
  ASSUME NEW w \in Writers, NEW g \in Files, ~Contended(w, g),
         ~(dlJob[w].shard = g /\ dlJob[w].pc = "finish")
  PROVE  ~FinishPending(g)
  BY DEF FinishPending, Contended, Writing

LEMMA StatStep ==
  ASSUME DownloadBase, StoreInv, NEW w \in Writers, StatPart(w)
  PROVE  StoreInv' /\ StoreStep
<1> DEFINE g == dlJob[w].shard
<1>a. JobsOK /\ DirectoryOK /\ ContentOK
  BY BaseIs
<1>b. /\ dlJob[w] \in Job /\ g \in Files /\ dlJob[w].pc = "stat" /\ dlJob[w].fd = 0
  BY <1>a, JobFields DEF StatPart, GoodJobs
<1>1. /\ dlJob'[w].shard = g /\ dlJob'[w].pc = "open" /\ dlJob'[w].fd = 0 /\ Moves(w)
      /\ dlJob'[w].old = IF dlPart[g] = 0 THEN 0 ELSE Len(dlData[dlPart[g]])
  <2>1. dlJob'[w] = [dlJob[w] EXCEPT !.pc = "open",
                        !.old = IF dlPart[g] = 0 THEN 0 ELSE Len(dlData[dlPart[g]])] /\ Moves(w)
    BY <1>a, Given DEF StatPart
  <2> QED
    BY <2>1, <1>b DEF Job
<1>2. UNCHANGED <<dlPart, dlDest, dlData>> /\ dlTainted \subseteq dlTainted'
      /\ (Contended(w, g) => g \in dlTainted')
  BY DEF StatPart
<1>3. \A f \in Files : Still(f)
  BY <1>2 DEF Still
<1>4. ASSUME g \notin dlTainted' PROVE FileSound(g)'
  <2>1. ~Contended(w, g) /\ g \notin dlTainted /\ FileSound(g)
    BY <1>2, <1>4, <1>b DEF StoreInv, CleanInv
  <2>2. ~FinishPending(g)
    BY <2>1, <1>b, NoneFinishes
  <2>3. (dlDest[g] # 0 => dlData[dlDest[g]] = Whole /\ dlDest[g] # dlPart[g])'
        /\ (dlPart[g] # 0 => Partial(dlData[dlPart[g]]))'
    BY <2>1, <2>2, <1>1, <1>2 DEF FileSound, Partial
  <2>4. WriterSound(w, g)'
    BY <1>1, <1>2 DEF WriterSound
  <2> QED
    BY <2>1, <2>3, <2>4, <1>1, <1>b, SoundAlone
<1>5. CleanInv' /\ \A f \in Files \ {g} : State(f)' = State(f)
  BY <1>1, <1>2, <1>3, <1>4, <1>a, <1>b, ShardStep DEF StoreInv
<1>6. SoleInv'
  BY <1>1, <1>2, SoleStep DEF StoreInv
<1>7. OwnInv'
  BY <1>1, <1>2, OwnShrinks DEF StoreInv, Moves
<1> QED
  BY <1>2, <1>3, <1>5, <1>6, <1>7, StillState DEF StoreInv, StoreStep, KeepsFiles

LEMMA OpenStep ==
  ASSUME DownloadBase, StoreInv, NEW w \in Writers, OpenPart(w)
  PROVE  StoreInv' /\ StoreStep
<1>a. JobsOK /\ DirectoryOK /\ ContentOK /\ OwnInv /\ SoleInv /\ CleanInv
  BY BaseIs DEF StoreInv
<1>g. PICK g \in Files : g = dlJob[w].shard
  BY <1>a, JobFields
<1>b. /\ dlJob[w] \in Job /\ g \in Files /\ dlJob[w].pc = "open" /\ Writing(w) /\ dlJob[w].old \in Nat
      /\ dlJob[w].shard = g
  BY <1>a, <1>g, JobFields DEF OpenPart, GoodJobs, Writing
<1>i. PICK i \in Inodes : i = IF dlPart[g] = 0 THEN FreshInode ELSE dlPart[g]
  BY <1>a, <1>g, FreshIsFree DEF OpenPart, DirectoryOK, Free
<1>t. PICK t : t = IF dlPart[g] # 0 /\ dlJob[w].old > 0 THEN dlData[i] ELSE <<>>
  OBVIOUS
<1>c. i \in Inodes /\ (dlPart[g] = 0 => i \in Free) /\ (dlPart[g] # 0 => i = dlPart[g] /\ Refers(i, g))
  BY <1>a, <1>b, <1>i, FreshIsFree DEF OpenPart, DirectoryOK, Free, Refers
<1>d. \A f \in Files : Refers(i, f) => f = g
  BY <1>a, <1>b, <1>c, FreeIsUnowned DEF OwnInv
<1>1. /\ dlJob'[w].shard = g /\ dlJob'[w].pc = "recv" /\ dlJob'[w].fd = i /\ Moves(w)
      /\ dlJob'[w].got = dlJob[w].old /\ dlJob'[w].old = dlJob[w].old
      /\ dlJob'[w].res = dlJob[w].res
  <2>1. dlJob'[w] = [dlJob[w] EXCEPT !.pc = "recv", !.fd = i, !.got = dlJob[w].old] /\ Moves(w)
    BY <1>a, <1>g, <1>i, Given DEF OpenPart
  <2> QED
    BY <2>1, <1>b DEF Job
<1>2. /\ dlPart' = [dlPart EXCEPT ![g] = i] /\ dlData' = [dlData EXCEPT ![i] = t]
      /\ UNCHANGED <<dlDest, dlTainted>>
  BY <1>a, <1>c, <1>g, <1>i, <1>t DEF OpenPart, ContentOK
<1>3. ASSUME NEW f \in Files \ {g} PROVE Still(f)
  <2>1. dlPart'[f] = dlPart[f] /\ dlDest'[f] = dlDest[f]
    BY <1>2, <1>a DEF DirectoryOK
  <2> QED
    BY <2>1, <1>a, <1>b, <1>c, <1>2, WritingStill
<1>5. ASSUME g \notin dlTainted
      PROVE  FileSound(g)' /\ State(g)' = State(g)
  <2>1. ~Contended(w, g) /\ FileSound(g) /\ WriterSound(w, g)
    BY <1>5, <1>a, <1>b, OnlyWriter DEF CleanInv, FileSound
  <2>2. ~FinishPending(g)
    BY <2>1, <1>b, NoneFinishes
  <2>3. dlDest[g] # i
    <3>1. CASE dlPart[g] = 0
      BY <3>1, <1>b, <1>c, FreeIsUnowned DEF Refers
    <3>2. CASE dlPart[g] # 0
      BY <3>2, <2>1, <1>c, DownloadFacts DEF FileSound
    <3> QED
      BY <3>1, <3>2
  <2>4. dlDest'[g] = dlDest[g] /\ (dlDest[g] # 0 => dlData'[dlDest[g]] = dlData[dlDest[g]])
        /\ dlPart'[g] = i /\ dlData'[i] = t
    BY <2>3, <1>2, <1>a, <1>b, <1>c DEF ContentOK, DirectoryOK
  <2>5. t = Prefix(dlJob[w].old) /\ dlJob[w].old <= Chunks
    <3>1. CASE dlPart[g] # 0 /\ dlJob[w].old > 0
      <4>1. t = dlData[dlPart[g]] /\ dlJob[w].old = Len(t)
        BY <3>1, <2>1, <1>b, <1>c, <1>t DEF WriterSound
      <4>2. PICK n \in 0..Chunks : t = Prefix(n)
        BY <3>1, <4>1, <2>1, <2>2 DEF FileSound, Partial
      <4>3. n \in Nat /\ n <= Chunks
        BY DownloadFacts
      <4> QED
        BY <4>1, <4>2, <4>3, PrefixFacts
    <3>2. CASE ~(dlPart[g] # 0 /\ dlJob[w].old > 0)
      <4>1. t = <<>>
        BY <3>2, <1>t
      <4>2. dlJob[w].old = 0
        BY <3>2, <2>1, <1>b DEF WriterSound
      <4> QED
        BY <4>1, <4>2, PrefixFacts, DownloadFacts
    <3> QED
      BY <3>1, <3>2
  <2>6. dlJob[w].res = "none"
    BY <1>a, <1>b, JobFields
  <2>7. WriterSound(w, g)'
    BY <2>4, <2>5, <2>6, <1>1, <1>b DEF WriterSound
  <2>8. (dlDest[g] # 0 => dlData[dlDest[g]] = Whole /\ dlDest[g] # dlPart[g])'
    BY <2>1, <2>3, <2>4 DEF FileSound
  <2>9. Partial(dlData[dlPart[g]])'
    BY <2>4, <2>5, <1>b, PrefixFacts DEF Partial
  <2>10. FileSound(g)'
    BY <2>1, <2>7, <2>8, <2>9, <1>1, <1>b, SoundAlone
  <2> QED
    BY <2>10, <2>4 DEF State
<1>6. CleanInv' /\ \A f \in Files \ {g} : State(f)' = State(f)
  BY <1>1, <1>2, <1>3, <1>5, <1>a, <1>b, ShardStep
<1>7. SoleInv'
  BY <1>1, <1>2, <1>a, <1>b, SoleStep
<1>8. ASSUME NEW n \in Inodes, NEW f \in Files, Refers(n, f)' PROVE Refers(n, f) \/ (n = i /\ f = g)
  <2>1. dlPart'[f] = (IF f = g THEN i ELSE dlPart[f]) /\ dlDest'[f] = dlDest[f]
    BY <1>2, <1>a DEF DirectoryOK
  <2>2. \A v \in Writers : v # w => dlJob'[v] = dlJob[v]
    BY <1>1 DEF Moves
  <2> QED
    BY <1>8, <2>1, <2>2, <1>1 DEF Refers
<1>9. OwnInv'
  BY <1>8, <1>d, <1>a, <1>b, OwnStep
<1>10. KeepsFiles
  BY <1>2, <1>5, <1>6 DEF KeepsFiles
<1> QED
  BY <1>6, <1>7, <1>9, <1>10 DEF StoreInv, StoreStep

\* A step of a writer that keeps its shard, or leaves it, and changes no names; what it writes
\* is the file it has open.  The shard stays sound when the writer and the part are.
LEMMA WriterStep ==
  ASSUME DownloadBase, StoreInv, NEW w \in Writers, NEW g \in Files, dlJob[w].shard = g, Moves(w),
         Writing(w), dlJob'[w].shard = g, dlJob'[w].fd \in {0, dlJob[w].fd},
         UNCHANGED <<dlPart, dlDest>>,
         dlTainted \subseteq dlTainted',
         \/ UNCHANGED dlData
         \/ dlJob[w].fd # 0 /\ \E t : dlData' = [dlData EXCEPT ![dlJob[w].fd] = t],
         g \notin dlTainted' =>
            /\ dlPart[g] # 0 /\ dlJob'[w].pc # "finish" => Partial(dlData'[dlPart[g]])
            /\ Writing(w)' => WriterSound(w, g)'
  PROVE  StoreInv' /\ StoreStep
<1>a. JobsOK /\ DirectoryOK /\ ContentOK /\ OwnInv /\ SoleInv /\ CleanInv
  BY BaseIs DEF StoreInv
<1>n. PICK n \in Inodes \union {0} : n = dlJob[w].fd
  BY <1>a, JobFields
<1>1. ASSUME NEW f \in Files \ {g} PROVE Still(f)
  <2>1. CASE UNCHANGED dlData
    BY <2>1 DEF Still
  <2>2. CASE n # 0 /\ \E t : dlData' = [dlData EXCEPT ![n] = t]
    <3>1. PICK t : dlData' = [dlData EXCEPT ![n] = t]
      BY <2>2
    <3>2. n \in Inodes /\ Refers(n, g)
      BY <2>2, <1>n DEF Refers
    <3> QED
      BY <1>a, <3>1, <3>2, WritingStill
  <2> QED
    BY <2>1, <2>2, <1>n
<1>2. ASSUME g \notin dlTainted'
      PROVE  FileSound(g)' /\ State(g)' = State(g)
  <2>1. ~Contended(w, g) /\ FileSound(g) /\ WriterSound(w, g)
    BY <1>2, <1>a, OnlyWriter DEF CleanInv, FileSound
  <2>2. dlDest[g] # 0 => dlData'[dlDest[g]] = dlData[dlDest[g]]
    <3>1. CASE n # 0 /\ dlDest[g] # 0
      <4>1. dlJob[w].pc \in {"recv", "finish"}
        BY <3>1, <1>n, <1>a, <2>1, JobFields DEF WriterSound
      <4>2. dlDest[g] # n
        BY <4>1, <3>1, <1>n, <2>1 DEF WriterSound, FileSound
      <4>3. dlDest[g] \in Inodes
        BY <3>1, <1>a DEF DirectoryOK
      <4> QED
        BY <4>2, <4>3, <1>n, <1>a DEF ContentOK
    <3> QED
      BY <3>1, <1>n
  <2>3. (dlDest[g] # 0 => dlData[dlDest[g]] = Whole /\ dlDest[g] # dlPart[g])'
    BY <2>1, <2>2 DEF FileSound
  <2>4. FileSound(g)'
    BY <1>2, <2>1, <2>3, SoundAlone
  <2> QED
    BY <2>2, <2>4 DEF State
<1>3. CleanInv' /\ \A f \in Files \ {g} : State(f)' = State(f)
  BY <1>1, <1>2, <1>a, ShardStep
<1>4. SoleInv'
  BY <1>a, SoleStep
<1>5. OwnInv'
  BY <1>a, OwnShrinks DEF Moves
<1>6. KeepsFiles
  BY <1>2, <1>3 DEF KeepsFiles
<1> QED
  BY <1>3, <1>4, <1>5, <1>6 DEF StoreInv, StoreStep

LEMMA OpenFailsStep ==
  ASSUME DownloadBase, StoreInv, NEW w \in Writers, OpenFails(w)
  PROVE  StoreInv' /\ StoreStep
<1>a. JobsOK /\ CleanInv /\ SoleInv
  BY BaseIs DEF StoreInv
<1>g. PICK g \in Files : g = dlJob[w].shard
  BY <1>a, JobFields
<1>b. dlJob[w] \in Job /\ dlJob[w].pc = "open" /\ Writing(w)
  BY <1>a, JobFields DEF OpenFails, GoodJobs, Writing
<1>1. dlJob'[w].shard = g /\ dlJob'[w].pc = "end" /\ dlJob'[w].fd = dlJob[w].fd /\ Moves(w)
  <2>1. dlJob'[w] = [dlJob[w] EXCEPT !.pc = "end"] /\ Moves(w)
    BY <1>a, Given DEF OpenFails
  <2> QED
    BY <2>1, <1>b, <1>g DEF Job
<1>2. UNCHANGED <<dlPart, dlDest, dlData, dlTainted>> /\ ~Writing(w)'
  BY <1>1 DEF OpenFails, Writing
<1>3. ASSUME g \notin dlTainted, dlPart[g] # 0 PROVE Partial(dlData'[dlPart[g]])
  <2>1. ~Contended(w, g) /\ FileSound(g)
    BY <1>3, <1>a, <1>b, <1>g, OnlyWriter DEF CleanInv
  <2>2. ~FinishPending(g)
    BY <2>1, <1>b, NoneFinishes
  <2> QED
    BY <2>1, <2>2, <1>2, <1>3 DEF FileSound
<1> QED
  BY <1>b, <1>g, <1>1, <1>2, <1>3, WriterStep

\* The writer of an untainted shard in the middle of its transfer.
LEMMA Receiving ==
  ASSUME DownloadBase, StoreInv, NEW w \in Writers, dlJob[w].pc = "recv"
  PROVE  /\ dlJob[w] \in Job /\ Writing(w) /\ dlJob[w].fd \in Inodes /\ dlJob[w].fd # 0
         /\ dlJob[w].shard \in Files /\ dlJob[w].got \in Nat /\ dlJob[w].old \in Nat
         /\ dlJob[w].shard \notin dlTainted =>
               /\ dlJob[w].fd = dlPart[dlJob[w].shard]
               /\ dlJob[w].res = "none" /\ dlJob[w].old <= dlJob[w].got /\ dlJob[w].got <= Chunks
               /\ dlData[dlJob[w].fd] = Prefix(dlJob[w].got)
<1>a. JobsOK /\ CleanInv
  BY BaseIs DEF StoreInv
<1>1. /\ dlJob[w] \in Job /\ Writing(w) /\ dlJob[w].fd \in Inodes /\ dlJob[w].fd # 0
      /\ dlJob[w].shard \in Files /\ dlJob[w].got \in Nat /\ dlJob[w].old \in Nat
  BY <1>a, JobFields DEF GoodJobs, Writing
<1> QED
  BY <1>1, <1>a DEF CleanInv, FileSound, WriterSound

LEMMA ReceiveStep ==
  ASSUME DownloadBase, StoreInv, NEW w \in Writers, Receive(w)
  PROVE  StoreInv' /\ StoreStep
<1>a. JobsOK /\ ContentOK /\ dlJob[w].pc = "recv"
  BY BaseIs DEF Receive
<1>g. PICK g \in Files : g = dlJob[w].shard
  BY <1>a, JobFields
<1>b. /\ dlJob[w] \in Job /\ Writing(w) /\ dlJob[w].fd \in Inodes /\ dlJob[w].fd # 0
      /\ dlJob[w].got \in Nat /\ dlJob[w].old \in Nat /\ dlJob[w].got < Chunks
  BY <1>a, Receiving DEF Receive
<1>1. /\ dlJob'[w].shard = g /\ dlJob'[w].pc = "recv" /\ dlJob'[w].fd = dlJob[w].fd /\ Moves(w)
      /\ dlJob'[w].got = dlJob[w].got + 1 /\ dlJob'[w].old = dlJob[w].old
      /\ dlJob'[w].res = dlJob[w].res
  <2>1. dlJob'[w] = [dlJob[w] EXCEPT !.got = @ + 1] /\ Moves(w)
    BY <1>a, Given DEF Receive
  <2> QED
    BY <2>1, <1>a, <1>b, <1>g DEF Job
<1>2. /\ dlData' = [dlData EXCEPT ![dlJob[w].fd] =
                       Written(dlData[dlJob[w].fd], dlJob[w], dlJob[w].got + 1)]
      /\ UNCHANGED <<dlPart, dlDest, dlTainted>>
  BY <1>a, <1>b DEF Receive, ContentOK
<1>3. ASSUME g \notin dlTainted
      PROVE  Partial(dlData'[dlPart[g]]) /\ WriterSound(w, g)'
  <2>1. /\ dlJob[w].fd = dlPart[g] /\ dlJob[w].res = "none" /\ dlJob[w].old <= dlJob[w].got
        /\ dlData[dlJob[w].fd] = Prefix(dlJob[w].got)
    BY <1>3, <1>a, <1>g, Receiving
  <2>2. dlData'[dlJob[w].fd] = Prefix(dlJob[w].got + 1)
    BY <2>1, <1>a, <1>b, <1>2, WrittenPrefix DEF ContentOK
  <2>3. /\ dlJob[w].got + 1 \in Nat /\ dlJob[w].got + 1 <= Chunks /\ dlJob[w].old <= dlJob[w].got + 1
    BY <1>b, <2>1, DownloadFacts
  <2>4. Partial(dlData'[dlPart[g]])
    BY <2>1, <2>2, <2>3, PrefixFacts
  <2> QED
    BY <2>1, <2>2, <2>3, <2>4, <1>1, <1>2 DEF WriterSound
<1> QED
  BY <1>b, <1>g, <1>1, <1>2, <1>3, WriterStep

LEMMA CurlErrorStep ==
  ASSUME DownloadBase, StoreInv, NEW w \in Writers, CurlError(w)
  PROVE  StoreInv' /\ StoreStep
<1>a. JobsOK /\ ContentOK /\ dlJob[w].pc = "recv"
  BY BaseIs DEF CurlError
<1>g. PICK g \in Files : g = dlJob[w].shard
  BY <1>a, JobFields
<1>b. dlJob[w] \in Job /\ Writing(w) /\ dlJob[w].got \in Nat
  BY <1>a, Receiving
<1>1. /\ dlJob'[w].shard = g /\ dlJob'[w].pc = "finish" /\ dlJob'[w].fd = dlJob[w].fd /\ Moves(w)
      /\ dlJob'[w].res = "curl"
  <2>1. dlJob'[w] = [dlJob[w] EXCEPT !.pc = "finish", !.res = "curl"] /\ Moves(w)
    BY <1>a, Given DEF CurlError
  <2> QED
    BY <2>1, <1>a, <1>b, <1>g DEF Job
<1>2. UNCHANGED <<dlPart, dlDest, dlTainted, dlData>>
  BY DEF CurlError
<1>3. ASSUME g \notin dlTainted PROVE WriterSound(w, g)'
  <2>1. /\ dlJob[w].fd = dlPart[g] /\ dlJob[w].got <= Chunks
        /\ dlData[dlJob[w].fd] = Prefix(dlJob[w].got)
    BY <1>3, <1>a, <1>g, Receiving
  <2>2. Partial(dlData'[dlJob[w].fd])
    BY <2>1, <1>2, <1>b, PrefixFacts
  <2> QED
    BY <2>1, <2>2, <1>1, <1>2 DEF WriterSound
<1> QED
  BY <1>b, <1>g, <1>1, <1>2, <1>3, WriterStep

LEMMA HttpErrorStep ==
  ASSUME DownloadBase, StoreInv, NEW w \in Writers, HttpError(w)
  PROVE  StoreInv' /\ StoreStep
<1>a. JobsOK /\ ContentOK /\ dlJob[w].pc = "recv"
  BY BaseIs DEF HttpError
<1>g. PICK g \in Files : g = dlJob[w].shard
  BY <1>a, JobFields
<1>b. /\ dlJob[w] \in Job /\ Writing(w) /\ dlJob[w].got \in Nat /\ dlJob[w].fd \in Inodes
      /\ dlJob[w].fd # 0 /\ dlJob[w].got = dlJob[w].old
  BY <1>a, Receiving DEF HttpError
<1>1. /\ dlJob'[w].shard = g /\ dlJob'[w].pc = "finish" /\ dlJob'[w].fd = dlJob[w].fd /\ Moves(w)
      /\ dlJob'[w].res \in {"curl", "http"}
  <2>1. PICK r \in {"curl", "http"} : Set(w, [dlJob[w] EXCEPT !.pc = "finish", !.res = r])
    BY DEF HttpError
  <2>2. dlJob'[w] = [dlJob[w] EXCEPT !.pc = "finish", !.res = r] /\ Moves(w)
    BY <2>1, <1>a, Given
  <2> QED
    BY <2>2, <1>a, <1>b, <1>g DEF Job
<1>2. /\ UNCHANGED <<dlPart, dlDest, dlTainted>>
      /\ dlJob[w].old # 0 => UNCHANGED dlData
      /\ dlJob[w].old = 0 => dlData' = [dlData EXCEPT ![dlJob[w].fd] =
                                          Written(dlData[dlJob[w].fd], dlJob[w], ErrorPage)]
  BY <1>a, <1>b DEF HttpError, ContentOK
<1>3. ASSUME g \notin dlTainted PROVE WriterSound(w, g)'
  <2>1. /\ dlJob[w].fd = dlPart[g] /\ dlJob[w].got <= Chunks
        /\ dlData[dlJob[w].fd] = Prefix(dlJob[w].got)
    BY <1>3, <1>a, <1>g, Receiving
  <2>2. CASE dlJob[w].old # 0
    <3>1. Partial(dlData'[dlJob[w].fd])
      BY <2>1, <2>2, <1>2, <1>b, PrefixFacts
    <3> QED
      BY <3>1, <2>1, <1>1, <1>2 DEF WriterSound
  <2>3. CASE dlJob[w].old = 0
    <3>1. dlData[dlJob[w].fd] = <<>>
      BY <2>1, <2>3, <1>b, PrefixFacts
    <3>2. dlData'[dlJob[w].fd] = <<ErrorPage>>
      BY <3>1, <2>3, <1>a, <1>b, <1>2, WrittenPrefix DEF ContentOK
    <3> QED
      BY <3>2, <2>1, <1>1, <1>2 DEF WriterSound
  <2> QED
    BY <2>2, <2>3
<1> QED
  BY <1>b, <1>g, <1>1, <1>2, <1>3, WriterStep

LEMMA FlushFailsStep ==
  ASSUME DownloadBase, StoreInv, NEW w \in Writers, FlushFails(w)
  PROVE  StoreInv' /\ StoreStep
<1>a. JobsOK /\ ContentOK /\ dlJob[w].pc = "recv"
  BY BaseIs DEF FlushFails
<1>g. PICK g \in Files : g = dlJob[w].shard
  BY <1>a, JobFields
<1>b. dlJob[w] \in Job /\ Writing(w)
  BY <1>a, Receiving
<1>1. dlJob'[w].shard = g /\ dlJob'[w].fd = dlJob[w].fd /\ Moves(w)
  <2>1. dlJob'[w] = [dlJob[w] EXCEPT !.pc = "finish", !.res = "ok"] /\ Moves(w)
    BY <1>a, Given DEF FlushFails
  <2> QED
    BY <2>1, <1>a, <1>b, <1>g DEF Job
<1>2. UNCHANGED <<dlPart, dlDest, dlData>> /\ dlTainted' = dlTainted \union {g}
  BY <1>g DEF FlushFails
<1> QED
  BY <1>b, <1>g, <1>1, <1>2, WriterStep

\* A part of an untainted shard that its writer leaves behind has no error page in it.
LEMMA NoPageIsPartial ==
  ASSUME NEW f \in Files, NEW part, part[f] # 0, f \notin PageLeft(part),
         Partial(dlData[part[f]]) \/ dlData[part[f]] = <<ErrorPage>>
  PROVE  Partial(dlData[part[f]])
<1>1. dlData[part[f]] # <<ErrorPage>>
  <2> SUFFICES ASSUME dlData[part[f]] = <<ErrorPage>> PROVE FALSE
    OBVIOUS
  <2>1. 1 \in DOMAIN dlData[part[f]] /\ dlData[part[f]][1] = ErrorPage
    OBVIOUS
  <2> QED
    BY <2>1 DEF PageLeft
<1> QED
  BY <1>1

LEMMA FinishStep ==
  ASSUME DownloadBase, StoreInv, NEW w \in Writers, FinishFile(w)
  PROVE  StoreInv' /\ StoreStep
<1>a. JobsOK /\ ContentOK /\ DirectoryOK /\ OwnInv /\ SoleInv /\ CleanInv
  BY BaseIs DEF StoreInv
<1>g. PICK g \in Files : g = dlJob[w].shard
  BY <1>a, JobFields
<1>b. /\ dlJob[w] \in Job /\ Writing(w) /\ dlJob[w].fd \in Inodes /\ dlJob[w].fd # 0
      /\ dlJob[w].got \in Nat /\ dlJob[w].old \in Nat /\ Chunks \in Nat /\ g \in Nat
      /\ dlJob[w].pc \in {"recv", "finish"} /\ (dlJob[w].pc = "recv" => dlJob[w].got >= Chunks)
  BY <1>a, JobFields, DownloadFacts DEF FinishFile, GoodJobs, Writing
<1> DEFINE renamed == Result(dlJob[w]) = "ok" /\ dlPart[g] # 0
<1>1. dlJob'[w].fd = 0 /\ ~Writing(w)' /\ Moves(w)
  <2> DEFINE k(pc, h) == [dlJob[w] EXCEPT !.old = 0, !.fd = 0, !.got = 0, !.res = "none",
                                          !.pc = pc, !.shard = h]
  <2>1. Set(w, k("file", g + 1)) \/ Set(w, k("end", g))
    BY <1>g DEF FinishFile
  <2>2. (dlJob'[w] = k("file", g + 1) \/ dlJob'[w] = k("end", g)) /\ Moves(w)
    BY <2>1, <1>a, Given
  <2>3. dlJob'[w].fd = 0 /\ dlJob'[w].pc \in {"file", "end"}
    BY <2>2, <1>b DEF Job
  <2> QED
    BY <2>2, <2>3 DEF Writing
<1>2. /\ renamed => dlDest' = [dlDest EXCEPT ![g] = dlPart[g]] /\ dlPart' = [dlPart EXCEPT ![g] = 0]
      /\ ~renamed => dlDest' = dlDest /\ (dlPart' = dlPart \/ dlPart' = [dlPart EXCEPT ![g] = 0])
      /\ dlTainted' = dlTainted \union ({g} \intersect PageLeft(dlPart'))
      /\ FreeUnused
  BY <1>g DEF FinishFile
<1>3. \A f \in Files \ {g} : dlPart'[f] = dlPart[f] /\ dlDest'[f] = dlDest[f]
  BY <1>2, <1>a DEF DirectoryOK
<1>4. \A f \in Files \ {g} : Still(f)
  BY <1>2, <1>3, <1>a, FreeingStill
<1>5. /\ renamed => dlDest'[g] = dlPart[g] /\ dlPart'[g] = 0
      /\ ~renamed => dlDest'[g] = dlDest[g] /\ dlPart'[g] \in {dlPart[g], 0}
  BY <1>2, <1>a DEF DirectoryOK
<1>6. ASSUME NEW f \in Files
      PROVE  /\ dlDest'[f] # 0 => dlData'[dlDest'[f]] = dlData[dlDest'[f]]
             /\ dlPart'[f] # 0 => dlData'[dlPart'[f]] = dlData[dlPart'[f]]
  <2>1. dlDest'[f] \in Used' /\ dlPart'[f] \in Used'
    BY DEF Used
  <2>2. dlDest'[f] \in Inodes \union {0} /\ dlPart'[f] \in Inodes \union {0}
    BY <1>3, <1>5, <1>a DEF DirectoryOK
  <2> QED
    BY <1>2, <2>1, <2>2 DEF FreeUnused
<1>7. ASSUME g \notin dlTainted'
      PROVE  FileSound(g)' /\ (State(g)' = State(g) \/ (State(g) = "absent" /\ State(g)' = "whole" /\ UNCHANGED dlTainted))
  <2>1. ~Contended(w, g) /\ FileSound(g) /\ WriterSound(w, g) /\ g \notin dlTainted
    BY <1>7, <1>2, <1>a, <1>b, <1>g, OnlyWriter DEF CleanInv, FileSound
  <2>2. dlPart[g] = dlJob[w].fd /\ dlPart[g] # 0
    BY <2>1, <1>b DEF WriterSound
  <2>3. CASE renamed
    <3>1. dlJob[w].pc = "recv" /\ dlJob[w].got = Chunks
      BY <2>1, <2>3, <1>b DEF WriterSound, Result
    <3>2. dlData[dlPart[g]] = Whole
      BY <3>1, <2>1, <2>2, PrefixFacts DEF WriterSound
    <3>3. dlDest'[g] = dlPart[g] /\ dlPart'[g] = 0 /\ dlData'[dlDest'[g]] = Whole
      BY <3>2, <2>2, <2>3, <1>5, <1>6
    <3>4. FileSound(g)'
      BY <3>3, <2>1, <2>2, <1>1, <1>b, SoundAlone
    <3>5. State(g)' = "whole" /\ State(g) \in {"absent", "whole"}
      BY <3>3, <2>1, <2>2 DEF State, FileSound
    <3>6. dlTainted' = dlTainted
      BY <1>2, <3>3 DEF PageLeft
    <3> QED
      BY <3>4, <3>5, <3>6
  <2>4. CASE ~renamed
    <3>1. dlDest'[g] = dlDest[g] /\ dlPart'[g] \in {dlPart[g], 0}
      BY <2>4, <1>5
    <3>2. Partial(dlData[dlPart[g]]) \/ dlData[dlPart[g]] = <<ErrorPage>>
      BY <2>1, <2>2, <1>b, PrefixFacts DEF WriterSound
    <3>3. ASSUME dlPart'[g] # 0 PROVE Partial(dlData'[dlPart'[g]])
      <4>1. dlPart'[g] = dlPart[g] /\ dlData'[dlPart'[g]] = dlData[dlPart[g]]
        BY <3>3, <3>1, <1>6
      <4>2. g \notin PageLeft(dlPart')
        BY <1>7, <1>2
      <4>3. g \notin PageLeft(dlPart)
        BY <4>1, <4>2 DEF PageLeft
      <4> QED
        BY <4>1, <4>3, <3>2, <2>2, NoPageIsPartial
    <3>4. dlDest'[g] # 0 => dlData'[dlDest'[g]] = dlData[dlDest[g]]
      BY <3>1, <1>6
    <3>5. (dlDest[g] # 0 => dlData[dlDest[g]] = Whole /\ dlDest[g] # dlPart[g])'
      BY <3>1, <3>4, <2>1 DEF FileSound
    <3>6. FileSound(g)'
      BY <3>3, <3>5, <2>1, <1>1, SoundAlone
    <3> QED
      BY <3>1, <3>4, <3>6 DEF State
  <2> QED
    BY <2>3, <2>4
<1>8. dlTainted \subseteq dlTainted'
  BY <1>2
<1>9. CleanInv' /\ \A f \in Files \ {g} : State(f)' = State(f)
  BY <1>1, <1>4, <1>7, <1>8, <1>a, <1>g, ShardStep
<1>10. SoleInv'
  BY <1>1, <1>8, <1>a, SoleStep
<1>11. OwnInv'
  <2>1. \A f \in Files : dlPart'[f] \in {dlPart[f], 0} /\ dlDest'[f] \in {dlDest[f], dlPart[f]}
    BY <1>3, <1>5
  <2> QED
    BY <2>1, <1>1, <1>a, OwnShrinks DEF Moves
<1>12. StoreStep
  BY <1>7, <1>8, <1>9 DEF StoreStep, KeepsFiles, Publishes
<1> QED
  BY <1>9, <1>10, <1>11, <1>12 DEF StoreInv

LEMMA UsbOpenStep ==
  ASSUME DownloadBase, StoreInv, NEW r \in Requests, NEW g \in Files, UsbOpen(r, g)
  PROVE  StoreInv' /\ StoreStep
<1>a. /\ JobsOK /\ ContentOK /\ DirectoryOK /\ OwnInv /\ SoleInv /\ CleanInv
      /\ r \in Writers /\ dlJob[r].pc = "idle"
  BY BaseIs, DownloadFacts DEF StoreInv, UsbOpen
<1>i. PICK i \in Inodes : i = IF dlDest[g] = 0 THEN FreshInode ELSE dlDest[g]
  BY <1>a, FreshIsFree DEF UsbOpen, DirectoryOK, Free
<1>c. (dlDest[g] = 0 => i \in Free) /\ (dlDest[g] # 0 => Refers(i, g))
  BY <1>a, <1>i, FreshIsFree DEF UsbOpen, Refers
<1>d. \A f \in Files : Refers(i, f) => f = g
  BY <1>a, <1>c, FreeIsUnowned DEF OwnInv
<1>1. dlJob'[r].shard = g /\ dlJob'[r].fd = i /\ Moves(r)
  <2>1. dlJob'[r] = [NoJob EXCEPT !.kind = "usb", !.pc = "copy", !.shard = g, !.last = g, !.fd = i]
        /\ Moves(r)
    BY <1>a, <1>i, Given DEF UsbOpen
  <2> QED
    BY <2>1 DEF NoJob
<1>2. /\ dlDest' = [dlDest EXCEPT ![g] = i] /\ dlData' = [dlData EXCEPT ![i] = <<>>]
      /\ UNCHANGED dlPart /\ dlTainted' = dlTainted \union {g}
  BY <1>i DEF UsbOpen
<1>3. \A f \in Files : dlPart'[f] = dlPart[f] /\ dlDest'[f] = IF f = g THEN i ELSE dlDest[f]
  BY <1>2, <1>a DEF DirectoryOK
<1>4. \A f \in Files \ {g} : Still(f)
  BY <1>2, <1>3, <1>a, <1>c, WritingStill
<1>5. ~Writing(r)
  BY <1>a DEF Writing
<1>6. CleanInv' /\ \A f \in Files \ {g} : State(f)' = State(f)
  BY <1>1, <1>2, <1>4, <1>5, <1>a, ShardStep
<1>7. SoleInv'
  BY <1>1, <1>2, <1>a, SoleStep
<1>8. ASSUME NEW n \in Inodes, NEW f \in Files, Refers(n, f)' PROVE Refers(n, f) \/ (n = i /\ f = g)
  BY <1>8, <1>1, <1>3 DEF Refers, Moves
<1>9. OwnInv'
  BY <1>8, <1>d, <1>a, OwnStep
<1> QED
  BY <1>2, <1>6, <1>7, <1>9 DEF StoreInv, StoreStep, KeepsFiles

LEMMA UsbCopyStep ==
  ASSUME DownloadBase, StoreInv, NEW r \in Requests, UsbCopy(r)
  PROVE  StoreInv' /\ StoreStep
<1>a. /\ JobsOK /\ ContentOK /\ CleanInv /\ r \in Writers /\ dlJob[r].pc = "copy" /\ Writing(r)
  BY BaseIs, DownloadFacts DEF StoreInv, UsbCopy, Writing
<1>g. PICK g \in Files : g = dlJob[r].shard
  BY <1>a, JobFields
<1>b. dlJob[r] \in Job /\ dlJob[r].fd # 0
  BY <1>a, JobFields DEF GoodJobs
<1>1. dlJob'[r].shard = g /\ dlJob'[r].fd = dlJob[r].fd /\ Moves(r)
  <2>1. dlJob'[r] = [dlJob[r] EXCEPT !.got = @ + 1] /\ Moves(r)
    BY <1>a, Given DEF UsbCopy
  <2> QED
    BY <2>1, <1>b, <1>g DEF Job
<1>2. /\ UNCHANGED <<dlPart, dlDest, dlTainted>>
      /\ UNCHANGED dlData \/ \E t : dlData' = [dlData EXCEPT ![dlJob[r].fd] = t]
  BY <1>a DEF UsbCopy
<1>3. g \in dlTainted
  BY <1>a, <1>g DEF CleanInv, FileSound, WriterSound
<1> QED
  BY <1>a, <1>b, <1>g, <1>1, <1>2, <1>3, WriterStep

LEMMA UsbCloseStep ==
  ASSUME DownloadBase, StoreInv, NEW r \in Requests, UsbClose(r)
  PROVE  StoreInv' /\ StoreStep
<1>a. /\ JobsOK /\ DirectoryOK /\ OwnInv /\ SoleInv /\ CleanInv /\ r \in Writers
      /\ dlJob[r].pc = "copy" /\ Writing(r)
  BY BaseIs, DownloadFacts DEF StoreInv, UsbClose, Writing
<1>g. PICK g \in Files : g = dlJob[r].shard
  BY <1>a, JobFields
<1>1. dlJob'[r] = NoJob /\ Moves(r) /\ dlJob'[r].fd = 0 /\ dlJob'[r].pc = "idle"
  BY <1>a, Given, DownloadFacts DEF UsbClose
<1>2. UNCHANGED <<dlPart, dlDest, dlTainted>> /\ FreeUnused /\ ~Writing(r)'
  BY <1>1 DEF UsbClose, Writing
<1>3. g \in dlTainted
  BY <1>a, <1>g DEF CleanInv, FileSound, WriterSound
<1>4. \A f \in Files : Still(f)
  BY <1>2, <1>a, FreeingStill
<1>5. CleanInv' /\ \A f \in Files \ {g} : State(f)' = State(f)
  BY <1>1, <1>2, <1>3, <1>4, <1>a, <1>g, ShardStep
<1>6. SoleInv'
  BY <1>1, <1>2, <1>a, SoleStep
<1>7. OwnInv'
  BY <1>1, <1>2, <1>a, OwnShrinks DEF Moves
<1> QED
  BY <1>2, <1>4, <1>5, <1>6, <1>7, StillState DEF StoreInv, StoreStep, KeepsFiles

LEMMA CrashStep ==
  ASSUME DownloadBase, StoreInv, DownloadCrash
  PROVE  StoreInv' /\ StoreStep
<1>a. JobsOK /\ DirectoryOK /\ OwnInv /\ SoleInv /\ CleanInv
  BY BaseIs DEF StoreInv
<1>1. \A w \in Writers : dlJob'[w].fd = 0 /\ dlJob'[w].pc = "idle"
  BY DownloadFacts DEF DownloadCrash
<1>2. /\ UNCHANGED <<dlPart, dlDest>> /\ FreeUnused
      /\ dlTainted' = dlTainted \union PageLeft(dlPart)
  BY DEF DownloadCrash
<1>3. \A w \in Writers : ~Writing(w)'
  BY <1>1 DEF Writing
<1>4. \A f \in Files : Still(f)
  BY <1>2, <1>a, FreeingStill
<1>5. ASSUME NEW f \in Files, f \notin dlTainted' PROVE FileSound(f)'
  <2>1. FileSound(f)
    BY <1>5, <1>2, <1>a DEF CleanInv
  <2>2. ASSUME dlPart[f] # 0 PROVE Partial(dlData[dlPart[f]])
    <3>1. CASE ~FinishPending(f)
      BY <3>1, <2>1, <2>2 DEF FileSound
    <3>2. CASE FinishPending(f)
      <4>1. PICK w \in Writers : dlJob[w].shard = f /\ dlJob[w].pc = "finish"
        BY <3>2 DEF FinishPending
      <4>2. WriterSound(w, f)
        BY <4>1, <2>1 DEF FileSound, Writing
      <4>3. Partial(dlData[dlPart[f]]) \/ dlData[dlPart[f]] = <<ErrorPage>>
        BY <4>1, <4>2 DEF WriterSound
      <4> QED
        BY <4>3, <2>2, <1>5, <1>2, NoPageIsPartial
    <3> QED
      BY <3>1, <3>2
  <2>3. dlPart'[f] # 0 => Partial(dlData'[dlPart'[f]])
    BY <2>2, <1>4 DEF Still
  <2>4. (dlDest[f] # 0 => dlData[dlDest[f]] = Whole /\ dlDest[f] # dlPart[f])'
    BY <2>1, <1>4 DEF Still, FileSound
  <2> QED
    BY <2>3, <2>4, <1>3 DEF FileSound
<1>6. CleanInv'
  BY <1>5 DEF CleanInv
<1>7. SoleInv'
  BY <1>3 DEF SoleInv
<1>8. OwnInv'
  BY <1>1, <1>2, <1>a, OwnShrinks
<1> QED
  BY <1>2, <1>4, <1>6, <1>7, <1>8, StillState DEF StoreInv, StoreStep, KeepsFiles

\* The upgrade starts its thread anew only when the last one has ended, for its flag says so.
LEMMA StoreInvNext ==
  ASSUME DownloadBase, FlagMeansRunning, StoreInv, [DownloadStep]_dlCore
  PROVE  StoreInv' /\ StoreStep
<1>a. JobsOK /\ \A w \in Writers : dlJob[w] \in Job
  BY BaseIs DEF JobsOK, GoodJobs
<1>b. \A w \in Writers : dlJob[w].pc \in {"idle", "set", "file", "end"} => dlJob[w].fd = 0 /\ ~Writing(w)
  BY <1>a, JobFields DEF Writing
<1>1. ASSUME NEW w \in Writers, dlJob[w].pc \in {"idle", "set", "file", "end"},
             NEW k, Set(w, k), k.pc \notin {"open", "recv", "finish", "copy"}, k.fd = 0,
             UNCHANGED <<dlPart, dlDest, dlData, dlTainted>>
      PROVE  StoreInv' /\ StoreStep
  <2>1. dlJob'[w] = k /\ Moves(w)
    BY <1>1, <1>a, Given
  <2>2. ~Writing(w)' /\ dlJob'[w].fd = 0
    BY <1>1, <2>1 DEF Writing
  <2> QED
    BY <1>1, <1>a, <1>b, <2>1, <2>2, QuietStep
<1>2. ASSUME NEW r \in Requests, AsyncTest(r) PROVE StoreInv' /\ StoreStep
  <2> DEFINE k == [NoJob EXCEPT !.kind = "async", !.pc = "set", !.last = Shards]
  <2>1. k.pc = "set" /\ k.fd = 0
    BY DEF NoJob
  <2>2. Set(r, k) /\ dlJob[r].pc = "idle" /\ UNCHANGED <<dlPart, dlDest, dlData, dlTainted>>
    BY <1>2 DEF AsyncTest
  <2> HIDE DEF k
  <2> QED
    BY <2>1, <2>2, <1>1, DownloadFacts
<1>3. ASSUME NEW r \in Requests, AsyncSet(r) PROVE StoreInv' /\ StoreStep
  <2> DEFINE k == [dlJob[r] EXCEPT !.pc = "file"]
  <2>1. k.pc = "file" /\ k.fd = 0
    BY <1>3, <1>a, <1>b, DownloadFacts DEF AsyncSet, Job
  <2>2. Set(r, k) /\ dlJob[r].pc = "set" /\ UNCHANGED <<dlPart, dlDest, dlData, dlTainted>>
    BY <1>3 DEF AsyncSet
  <2> HIDE DEF k
  <2> QED
    BY <2>1, <2>2, <1>1, DownloadFacts
<1>4. ASSUME NEW r \in Requests, NEW f \in Files, NEW l \in Files, ToolDownload(r, f, l)
      PROVE  StoreInv' /\ StoreStep
  <2> DEFINE k == [NoJob EXCEPT !.kind = "tool", !.pc = "file", !.shard = f, !.last = l]
  <2>1. k.pc = "file" /\ k.fd = 0
    BY DEF NoJob
  <2>2. Set(r, k) /\ dlJob[r].pc = "idle" /\ UNCHANGED <<dlPart, dlDest, dlData, dlTainted>>
    BY <1>4 DEF ToolDownload
  <2> HIDE DEF k
  <2> QED
    BY <2>1, <2>2, <1>1, DownloadFacts
<1>5. CASE AutoUpgradeCheck
  <2> DEFINE k == [NoJob EXCEPT !.kind = "upgrade", !.pc = "stat"]
  <2>1. k.pc = "stat" /\ k.fd = 0
    BY DEF NoJob
  <2>2. /\ Set("upgrade", k) /\ dlJob["upgrade"].pc = "idle"
        /\ UNCHANGED <<dlPart, dlDest, dlData, dlTainted>>
    BY <1>5 DEF AutoUpgradeCheck, FlagMeansRunning
  <2> HIDE DEF k
  <2> QED
    BY <2>1, <2>2, <1>1, DownloadFacts
<1>6. ASSUME NEW w \in Writers, CheckDest(w) PROVE StoreInv' /\ StoreStep
  <2> DEFINE f == dlJob[w].shard
             k == [dlJob[w] EXCEPT !.pc = IF dlDest[f] = 0 THEN "stat"
                                          ELSE IF f < dlJob[w].last THEN "file" ELSE "end",
                                   !.shard = IF dlDest[f] # 0 /\ @ < dlJob[w].last THEN @ + 1 ELSE @]
  <2>1. k.pc \in {"stat", "file", "end"} /\ k.fd = 0
    BY <1>6, <1>a, <1>b DEF CheckDest, Job
  <2>2. Set(w, k) /\ dlJob[w].pc = "file" /\ UNCHANGED <<dlPart, dlDest, dlData, dlTainted>>
    BY <1>6 DEF CheckDest
  <2> HIDE DEF k
  <2> QED
    BY <2>1, <2>2, <1>1
<1>7. ASSUME NEW w \in Writers, EndJob(w) PROVE StoreInv' /\ StoreStep
  <2>1. Set(w, NoJob) /\ dlJob[w].pc = "end" /\ UNCHANGED <<dlPart, dlDest, dlData, dlTainted>>
    BY <1>7 DEF EndJob
  <2> QED
    BY <2>1, <1>1, DownloadFacts
<1>8. ASSUME NEW w \in Writers, FileStep(w) PROVE StoreInv' /\ StoreStep
  BY <1>6, <1>7, <1>8, StatStep, OpenStep, OpenFailsStep, ReceiveStep, CurlErrorStep, HttpErrorStep,
     FlushFailsStep, FinishStep DEF FileStep
<1>9. CASE UNCHANGED dlCore
  <2>1. UNCHANGED <<dlJob, dlPart, dlDest, dlData, dlTainted>>
    BY <1>9 DEF dlCore
  <2>2. StoreInv'
    BY <2>1 DEF StoreInv, OwnInv, Refers, SoleInv, Writing, CleanInv, FileSound, WriterSound,
                Partial, FinishPending
  <2>3. KeepsFiles
    BY <2>1 DEF KeepsFiles, State
  <2> QED
    BY <2>2, <2>3 DEF StoreStep
<1> QED
  BY <1>2, <1>3, <1>4, <1>5, <1>8, <1>9, UsbOpenStep, UsbCopyStep, UsbCloseStep, CrashStep
     DEF DownloadStep

\* Every step of the downloads is a step of the abstract store, or leaves it alone.
LEMMA StoreStepRefines == FlagsOK /\ FlagsOK' /\ StoreStep => [Store!StoreNext]_(Store!storeVars)
<1> SUFFICES ASSUME FlagsOK, FlagsOK', StoreStep PROVE [Store!StoreNext]_(Store!storeVars)
  OBVIOUS
<1> DEFINE S == [f \in Files |-> State(f)]
<1>1. S = [f \in Files |-> IF dlDest[f] = 0 THEN "absent"
                           ELSE IF dlData[dlDest[f]] = Whole THEN "whole" ELSE "broken"]
  BY DEF State
<1>2. S' \in [Files -> {"absent", "whole", "broken"}]
  BY DEF State
<1>3. CASE KeepsFiles
  <2>1. \A f \in Files \ dlTainted' : S'[f] = S[f]
    BY <1>3 DEF KeepsFiles
  <2>2. dlTainted' \in SUBSET Files /\ dlTainted \subseteq dlTainted'
    BY <1>3 DEF KeepsFiles, FlagsOK
  <2>3. Store!Spoil
    BY <1>1, <1>2, <2>1, <2>2 DEF Store!Spoil, Store!FileStates, State
  <2> QED
    BY <2>3 DEF Store!StoreNext
<1>4. ASSUME NEW f \in Files, Publishes(f) PROVE Store!Publish(f)
  <2>1. S[f] = "absent" /\ S' = [S EXCEPT ![f] = "whole"] /\ dlTainted' = dlTainted
    BY <1>4 DEF Publishes
  <2> QED
    BY <2>1 DEF Store!Publish, State
<1> QED
  BY <1>3, <1>4 DEF StoreStep, Store!StoreNext

\* What readers of /data/models see is what ModelStore promises them: a file that was not
\* written by two threads at once, imported from USB or resumed after an error page is absent
\* or whole, gets its name in one step and keeps its content, whatever requests, errors and
\* crashes do (download_single_file, do_auto_upgrade_check).
THEOREM StoreImplemented == DownloadSpec => ImplementsModelStore
<1>1. DownloadInit => Store!StoreInit
  <2> SUFFICES ASSUME DownloadInit PROVE Store!StoreInit
    OBVIOUS
  <2>1. PICK present \in SUBSET Files :
           /\ dlDest = [f \in Files |-> IF f \in present THEN f ELSE 0]
           /\ dlData = [i \in Inodes |-> IF i \in present THEN Whole ELSE <<>>]
    BY DEF DownloadInit
  <2>2. \A f \in Files : State(f) \in {"absent", "whole"}
    BY <2>1, DownloadFacts DEF State
  <2> QED
    BY <2>2 DEF Store!StoreInit, State, DownloadInit
<1>2. DownloadBase /\ FlagInv /\ StoreInv /\ [DownloadStep]_dlCore
      => StoreInv' /\ [Store!StoreNext]_(Store!storeVars)
  <2> SUFFICES ASSUME DownloadBase, FlagInv, StoreInv, [DownloadStep]_dlCore
               PROVE  StoreInv' /\ [Store!StoreNext]_(Store!storeVars)
    OBVIOUS
  <2>1. FlagsOK /\ FlagsOK' /\ StoreInv' /\ StoreStep
    BY BaseIs, FlagsNext, StoreInvNext DEF FlagInv
  <2> QED
    BY <2>1, StoreStepRefines
<1> QED
  BY <1>1, <1>2, CoreStep, StoreInvInit, FlagInvInit, FlagInvNext, DownloadBaseInit, DownloadBaseNext, PTL
     DEF DownloadSpec, ImplementsModelStore, Store!StoreSpec
=============================================================================
