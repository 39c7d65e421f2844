------------------------------ MODULE Download ------------------------------
(***************************************************************************)
(* The files under /data/models and the threads that write them: the       *)
(* background download of the web interface (start_async_download), the    *)
(* model.download tool and its route, the import from a USB drive, and the *)
(* automatic upgrade that the cluster heartbeat starts.                    *)
(*                                                                         *)
(* A model is a list of files (its shards), each of Chunks pieces.  A file *)
(* is downloaded into <name>.part and renamed when it is complete.  The    *)
(* directory maps names to inodes, for a thread goes on writing to the     *)
(* inode it opened whatever happens to the name.                           *)
(*                                                                         *)
(* libcurl and the server are external: a request for a byte range is      *)
(* answered by the missing pieces; a request beyond the end by 416, which  *)
(* libcurl reports as success with that code and without a body; a failing *)
(* server by an error page, which a fresh request writes to the file and a *)
(* resumed one refuses (CURLE_RANGE_ERROR).                                *)
(***************************************************************************)
EXTENDS Integers, Sequences

CONSTANTS
    Requests,    \* threads of the HTTP server that may run a model request
    Shards,      \* number of files of the model
    Chunks,      \* number of pieces of a file
    Inodes,      \* inodes of the file system, numbers from 1
    MaxStarts,   \* bound on the requests made
    MaxFaults    \* bound on network errors, full disks and crashes

ASSUME DownloadAssumption ==
    /\ "upgrade" \notin Requests
    /\ Shards \in Nat \ {0}
    /\ Chunks \in Nat \ {0}
    /\ Inodes \subseteq Nat \ {0} /\ 1..Shards \subseteq Inodes
    /\ MaxStarts \in Nat
    /\ MaxFaults \in Nat

VARIABLES
    dlJob,        \* what each thread is doing
    dlActive,     \* g_dl.active
    dlUpgrading,  \* g_upgrade_downloading
    dlPart,       \* inode named <shard>.part, 0 when there is none
    dlDest,       \* inode with the final name of the shard, 0 when there is none
    dlData,       \* content of each inode
    dlTainted,    \* shards that two threads wrote at once, that a USB import wrote,
                  \* whose last bytes fclose lost or whose part kept an error page (history)
    dlStarts, dlFaults,
    dlNeed,       \* what the appliance lacks: "none", "bigger" (cap.upgrade_available is set and
                  \* a model is loaded) or "model" (it is set and none is loaded)
    dlCut         \* 1 once a fault has left a part of the first shard that is as long as
                  \* the file, with nobody to rename it (history)

dlCore == <<dlJob, dlActive, dlUpgrading, dlPart, dlDest, dlData, dlTainted,
            dlStarts, dlFaults>>
dlVars == <<dlCore, dlNeed, dlCut>>

Needs == {"none", "bigger", "model"}

Files == 1..Shards
Writers == Requests \union {"upgrade"}
ErrorPage == Chunks + 1
Hole == 0
Pieces == 0..(Chunks + 1)
Whole == [i \in 1..Chunks |-> i]

Kinds == {"none", "async", "tool", "upgrade", "usb"}
Job == [kind: Kinds,
        pc: {"idle", "set", "file", "stat", "open", "recv", "finish", "copy", "end"},
        shard: Files, last: Files, old: Nat, fd: Inodes \union {0}, got: Nat,
        res: {"none", "ok", "http", "curl"}]
NoJob == [kind |-> "none", pc |-> "idle", shard |-> 1, last |-> 1, old |-> 0,
          fd |-> 0, got |-> 0, res |-> "none"]

Used == {dlPart[f] : f \in Files} \union {dlDest[f] : f \in Files}
            \union {dlJob[w].fd : w \in Writers}
\* The file system frees an inode that has neither a name nor a descriptor.
FreeUnused == dlData' = [i \in Inodes |-> IF i \in Used' THEN dlData[i] ELSE <<>>]
Free == Inodes \ Used
FreshInode == CHOOSE i \in Free : \A j \in Free : i <= j

\* The shard a thread has a file descriptor of, or a size it is about to rely on.
Writing(w) == dlJob[w].pc \in {"open", "recv", "finish", "copy"}
Contended(w, f) == \E v \in Writers \ {w} : Writing(v) /\ dlJob[v].shard = f

\* An error page in a part that its writer leaves behind: the next attempt appends to it.
PageLeft(part) == {f \in Files : /\ part[f] # 0
                                 /\ \E k \in DOMAIN dlData[part[f]] :
                                       dlData[part[f]][k] = ErrorPage}

Set(w, job) == dlJob' = [dlJob EXCEPT ![w] = job]
Fault == dlFaults < MaxFaults /\ dlFaults' = dlFaults + 1

\* One piece written through a descriptor: at the end of the file when it was opened
\* with "ab", where the thread itself has got to when it was opened with "wb".
Written(data, job, piece) ==
    IF job.old > 0
    THEN Append(data, piece)
    ELSE [i \in 1..(IF Len(data) > job.got THEN Len(data) ELSE job.got + 1) |->
             IF i = job.got + 1 THEN piece
             ELSE IF i <= Len(data) THEN data[i] ELSE Hole]

-----------------------------------------------------------------------------
(* Requests. *)

\* start_async_download looks at the flag; a request that finds it set is answered
\* "busy".
AsyncTest(r) ==
    /\ dlJob[r].pc = "idle" /\ dlActive = 0 /\ dlStarts < MaxStarts
    /\ dlStarts' = dlStarts + 1
    /\ Set(r, [NoJob EXCEPT !.kind = "async", !.pc = "set", !.last = Shards])
    /\ UNCHANGED <<dlActive, dlUpgrading, dlPart, dlDest, dlData, dlTainted, dlFaults>>

\* It sets the flag, resets the progress and starts the thread.
AsyncSet(r) ==
    /\ dlJob[r].pc = "set"
    /\ dlActive' = 1
    /\ Set(r, [dlJob[r] EXCEPT !.pc = "file"])
    /\ UNCHANGED <<dlUpgrading, dlPart, dlDest, dlData, dlTainted, dlStarts, dlFaults>>

\* model.download: all shards of a Hugging Face model, or one file by its URL.
ToolDownload(r, first, last) ==
    /\ dlJob[r].pc = "idle" /\ dlStarts < MaxStarts
    /\ first = last \/ (first = 1 /\ last = Shards)
    /\ dlStarts' = dlStarts + 1
    /\ Set(r, [NoJob EXCEPT !.kind = "tool", !.pc = "file", !.shard = first, !.last = last])
    /\ UNCHANGED <<dlActive, dlUpgrading, dlPart, dlDest, dlData, dlTainted, dlFaults>>

\* Mutant of AutoUpgradeCheck: an attempt is taken to be under way while there is a part.
AutoUpgradeCheck_NotOverPart ==
    /\ dlNeed # "none" /\ dlDest[1] = 0 /\ dlPart[1] = 0
    /\ dlUpgrading = 0
    /\ dlUpgrading' = 1
    /\ Set("upgrade", [NoJob EXCEPT !.kind = "upgrade", !.pc = "stat"])
    /\ UNCHANGED <<dlActive, dlPart, dlDest, dlData, dlTainted, dlStarts, dlFaults>>

\* do_auto_upgrade_check, called by the topology callback and, while no model is loaded, by
\* the heartbeat.  It returns when analyze_capacity finds no bigger model that fits the
\* memory; the one it fetches is the smallest, which is one file.
AutoUpgradeCheck ==
    /\ dlNeed # "none"
    /\ dlDest[1] = 0
    /\ dlUpgrading = 0
    /\ dlUpgrading' = 1
    /\ Set("upgrade", [NoJob EXCEPT !.kind = "upgrade", !.pc = "stat"])
    /\ UNCHANGED <<dlActive, dlPart, dlDest, dlData, dlTainted, dlStarts, dlFaults>>

-----------------------------------------------------------------------------
(* The download of one file. *)

\* A file that has its final name is not downloaded again.
CheckDest(w) ==
    /\ dlJob[w].pc = "file"
    /\ Set(w, [dlJob[w] EXCEPT !.pc =
                  IF dlDest[dlJob[w].shard] = 0 THEN "stat"
                  ELSE IF dlJob[w].shard < dlJob[w].last THEN "file" ELSE "end",
               !.shard = IF dlDest[dlJob[w].shard] # 0 /\ @ < dlJob[w].last
                         THEN @ + 1 ELSE @])
    /\ UNCHANGED <<dlActive, dlUpgrading, dlPart, dlDest, dlData, dlTainted, dlStarts,
                   dlFaults>>

StatPart(w) ==
    LET f == dlJob[w].shard IN
    /\ dlJob[w].pc = "stat"
    /\ Set(w, [dlJob[w] EXCEPT !.pc = "open",
               !.old = IF dlPart[f] = 0 THEN 0 ELSE Len(dlData[dlPart[f]])])
    /\ dlTainted' = IF Contended(w, f) THEN dlTainted \union {f} ELSE dlTainted
    /\ UNCHANGED <<dlActive, dlUpgrading, dlPart, dlDest, dlData, dlStarts, dlFaults>>

\* fopen with "ab" when there was something to resume, else with "wb".
OpenPart(w) ==
    LET f == dlJob[w].shard
        i == IF dlPart[f] = 0 THEN FreshInode ELSE dlPart[f]
        kept == dlPart[f] # 0 /\ dlJob[w].old > 0 IN
    /\ dlJob[w].pc = "open" /\ (dlPart[f] = 0 => Free # {})
    /\ dlPart' = [dlPart EXCEPT ![f] = i]
    /\ dlData' = [dlData EXCEPT ![i] = IF kept THEN @ ELSE <<>>]
    /\ Set(w, [dlJob[w] EXCEPT !.pc = "recv", !.fd = i, !.got = dlJob[w].old])
    /\ UNCHANGED <<dlActive, dlUpgrading, dlDest, dlTainted, dlStarts, dlFaults>>

\* Mutant of OpenFails: the flag stays set on this error path.
OpenFails_FlagKept(w) ==
    /\ dlJob[w].pc = "open" /\ Fault
    /\ Set(w, NoJob)
    /\ UNCHANGED <<dlActive, dlUpgrading, dlPart, dlDest, dlData, dlTainted, dlStarts>>

OpenFails(w) ==
    /\ dlJob[w].pc = "open" /\ Fault
    /\ Set(w, [dlJob[w] EXCEPT !.pc = "end"])
    /\ UNCHANGED <<dlActive, dlUpgrading, dlPart, dlDest, dlData, dlTainted, dlStarts>>

Receive(w) ==
    LET j == dlJob[w] IN
    /\ j.pc = "recv" /\ j.got < Chunks
    /\ dlData' = [dlData EXCEPT ![j.fd] = Written(@, j, j.got + 1)]
    /\ Set(w, [j EXCEPT !.got = @ + 1])
    /\ UNCHANGED <<dlActive, dlUpgrading, dlPart, dlDest, dlTainted, dlStarts, dlFaults>>

\* The connection breaks, stalls, or a write fails.
CurlError(w) ==
    /\ dlJob[w].pc = "recv" /\ Fault
    /\ Set(w, [dlJob[w] EXCEPT !.pc = "finish", !.res = "curl"])
    /\ UNCHANGED <<dlActive, dlUpgrading, dlPart, dlDest, dlData, dlTainted, dlStarts>>

\* The server answers with an error page; the connection may break while it is read.
HttpError(w) ==
    LET j == dlJob[w] IN
    /\ j.pc = "recv" /\ j.got = j.old /\ Fault
    /\ dlData' = IF j.old = 0 THEN [dlData EXCEPT ![j.fd] = Written(@, j, ErrorPage)]
                 ELSE dlData
    /\ \E r \in {"curl", "http"} : Set(w, [j EXCEPT !.pc = "finish", !.res = r])
    /\ UNCHANGED <<dlActive, dlUpgrading, dlPart, dlDest, dlTainted, dlStarts>>

\* The last piece is still in the buffer of the FILE when the disk is full: fclose
\* fails, and nobody looks.
FlushFails(w) ==
    LET j == dlJob[w] IN
    /\ j.pc = "recv" /\ j.got = Chunks - 1 /\ Fault
    /\ Set(w, [j EXCEPT !.pc = "finish", !.res = "ok"])
    /\ dlTainted' = dlTainted \union {j.shard}
    /\ UNCHANGED <<dlActive, dlUpgrading, dlPart, dlDest, dlData, dlStarts>>

\* What curl_easy_perform and the response code amount to: an error met on the way, 416
\* when the part was already as long as the file, else success.
Result(j) ==
    IF j.res # "none" THEN j.res ELSE IF j.old < Chunks THEN "ok" ELSE "http"

\* Mutant of FinishFile: the HTTP code is not looked at.
FinishFile_HttpCodeIgnored(w) ==
    LET j == dlJob[w]
        f == j.shard
        renamed == Result(j) # "curl" /\ dlPart[f] # 0 IN
    /\ j.pc = "finish" \/ (j.pc = "recv" /\ j.got >= Chunks)
    /\ dlDest' = IF renamed THEN [dlDest EXCEPT ![f] = dlPart[f]] ELSE dlDest
    /\ dlPart' = IF renamed THEN [dlPart EXCEPT ![f] = 0] ELSE dlPart
    /\ Set(w, [j EXCEPT !.old = 0, !.fd = 0, !.got = 0, !.res = "none",
               !.pc = IF renamed /\ f < j.last THEN "file" ELSE "end",
               !.shard = IF renamed /\ f < j.last THEN f + 1 ELSE f])
    /\ dlTainted' = dlTainted \union ({f} \intersect PageLeft(dlPart'))
    /\ FreeUnused
    /\ UNCHANGED <<dlActive, dlUpgrading, dlStarts, dlFaults>>

\* After a curl error the part is kept for the next attempt; after an HTTP error
\* download_single_file removes it and the upgrade does not; otherwise it gets its
\* final name, and the next shard follows.
FinishFile(w) ==
    LET j == dlJob[w]
        f == j.shard
        renamed == Result(j) = "ok" /\ dlPart[f] # 0 IN
    /\ j.pc = "finish" \/ (j.pc = "recv" /\ j.got >= Chunks)
    /\ dlDest' = IF renamed THEN [dlDest EXCEPT ![f] = dlPart[f]] ELSE dlDest
    /\ dlPart' = IF renamed \/ (Result(j) = "http" /\ j.kind # "upgrade")
                 THEN [dlPart EXCEPT ![f] = 0] ELSE dlPart
    /\ Set(w, [j EXCEPT !.old = 0, !.fd = 0, !.got = 0, !.res = "none",
               !.pc = IF renamed /\ f < j.last THEN "file" ELSE "end",
               !.shard = IF renamed /\ f < j.last THEN f + 1 ELSE f])
    /\ dlTainted' = dlTainted \union ({f} \intersect PageLeft(dlPart'))
    /\ FreeUnused
    /\ UNCHANGED <<dlActive, dlUpgrading, dlStarts, dlFaults>>

\* The worker ends: the background one clears g_dl.active, the upgrade its own flag.
EndJob(w) ==
    /\ dlJob[w].pc = "end"
    /\ dlActive' = IF dlJob[w].kind = "async" THEN 0 ELSE dlActive
    /\ dlUpgrading' = IF dlJob[w].kind = "upgrade" THEN 0 ELSE dlUpgrading
    /\ Set(w, NoJob)
    /\ UNCHANGED <<dlPart, dlDest, dlData, dlTainted, dlStarts, dlFaults>>

-----------------------------------------------------------------------------
(* Import from USB and the crash of child_main. *)

\* model.usb_import opens the final name itself and truncates what is there.
UsbOpen(r, f) ==
    LET i == IF dlDest[f] = 0 THEN FreshInode ELSE dlDest[f] IN
    /\ dlJob[r].pc = "idle" /\ dlStarts < MaxStarts /\ (dlDest[f] = 0 => Free # {})
    /\ dlStarts' = dlStarts + 1
    /\ dlDest' = [dlDest EXCEPT ![f] = i]
    /\ dlData' = [dlData EXCEPT ![i] = <<>>]
    /\ dlTainted' = dlTainted \union {f}
    /\ Set(r, [NoJob EXCEPT !.kind = "usb", !.pc = "copy", !.shard = f, !.last = f, !.fd = i])
    /\ UNCHANGED <<dlActive, dlUpgrading, dlPart, dlFaults>>

\* One piece copied; the result of the write is not looked at.
UsbCopy(r) ==
    LET j == dlJob[r] IN
    /\ j.pc = "copy" /\ j.got < Chunks
    /\ \/ dlData' = [dlData EXCEPT ![j.fd] = Written(@, j, j.got + 1)] /\ UNCHANGED dlFaults
       \/ Fault /\ UNCHANGED dlData
    /\ Set(r, [j EXCEPT !.got = @ + 1])
    /\ UNCHANGED <<dlActive, dlUpgrading, dlPart, dlDest, dlTainted, dlStarts>>

UsbClose(r) ==
    /\ dlJob[r].pc = "copy" /\ dlJob[r].got = Chunks
    /\ Set(r, NoJob)
    /\ UNCHANGED <<dlActive, dlUpgrading, dlPart, dlDest, dlTainted, dlStarts, dlFaults>>
    /\ FreeUnused

\* child_main dies and is started again: threads and flags are gone, the files stay.
DownloadCrash ==
    /\ Fault
    /\ dlJob' = [w \in Writers |-> NoJob]
    /\ dlActive' = 0
    /\ dlUpgrading' = 0
    /\ dlTainted' = dlTainted \union PageLeft(dlPart)
    /\ UNCHANGED <<dlPart, dlDest, dlStarts>>
    /\ FreeUnused

-----------------------------------------------------------------------------
DownloadInit ==
    /\ dlJob = [w \in Writers |-> NoJob]
    /\ dlActive = 0 /\ dlUpgrading = 0
    /\ dlPart = [f \in Files |-> 0]
    /\ \E present \in SUBSET Files :   \* what earlier boots have downloaded
          /\ dlDest = [f \in Files |-> IF f \in present THEN f ELSE 0]
          /\ dlData = [i \in Inodes |-> IF i \in present THEN Whole ELSE <<>>]
    /\ dlTainted = {} /\ dlStarts = 0 /\ dlFaults = 0
    /\ dlNeed \in Needs /\ dlCut = 0

FileStep(w) ==
    \/ CheckDest(w) \/ StatPart(w) \/ OpenPart(w) \/ OpenFails(w) \/ Receive(w)
    \/ CurlError(w) \/ HttpError(w) \/ FlushFails(w) \/ FinishFile(w)
    \/ EndJob(w)

DownloadStep ==
    \/ \E r \in Requests :
          \/ AsyncTest(r) \/ AsyncSet(r) \/ UsbCopy(r) \/ UsbClose(r)
          \/ \E f, l \in Files : ToolDownload(r, f, l)
          \/ \E f \in Files : UsbOpen(r, f)
    \/ AutoUpgradeCheck
    \/ \E w \in Writers : FileStep(w)
    \/ DownloadCrash

\* A fault that hits when the last piece of the first shard is in its part.
CutAtTheEnd ==
    /\ dlFaults' # dlFaults
    /\ dlPart'[1] # 0 /\ Len(dlData'[dlPart'[1]]) >= Chunks
    /\ \A w \in Writers : ~(dlJob'[w].pc = "recv" /\ dlJob'[w].shard = 1)
Noted ==
    /\ dlCut' = IF CutAtTheEnd THEN 1 ELSE dlCut
    /\ UNCHANGED dlNeed

\* A model is loaded or unloaded, peers come and go, files are added.  While the flag is set,
\* and once the model is there, nobody looks at dlNeed: it changes before the next look.
NeedChanges ==
    /\ dlUpgrading = 0 /\ dlDest[1] = 0
    /\ dlNeed' \in Needs \ {dlNeed}
    /\ UNCHANGED <<dlCore, dlCut>>

DownloadNext == (DownloadStep /\ Noted) \/ NeedChanges

DownloadSpec == DownloadInit /\ [][DownloadNext]_dlVars

\* The thread of the upgrade goes on (libcurl gives up on a transfer that stalls), and the
\* heartbeat calls do_auto_upgrade_check every 30 s while no model is loaded; of the topology
\* callback and of the other threads nothing is asked.
DownloadFairness ==
    /\ WF_dlVars(FileStep("upgrade") /\ Noted)
    /\ WF_dlVars(dlNeed = "model" /\ AutoUpgradeCheck /\ Noted)

-----------------------------------------------------------------------------
CoreTypeOK ==
    /\ dlJob \in [Writers -> Job]
    /\ dlActive \in {0, 1} /\ dlUpgrading \in {0, 1}
    /\ dlPart \in [Files -> Inodes \union {0}]
    /\ dlDest \in [Files -> Inodes \union {0}]
    /\ DOMAIN dlData = Inodes
    /\ \A i \in Inodes : \A k \in DOMAIN dlData[i] : dlData[i][k] \in Pieces
    /\ dlTainted \subseteq Files
    /\ dlStarts \in 0..MaxStarts /\ dlFaults \in 0..MaxFaults

\* The type of the state; no thread goes past the last shard (start_async_download).
DownloadTypeOK == CoreTypeOK /\ dlNeed \in Needs /\ dlCut \in {0, 1}

\* Whatever requests, errors and crashes do, a file that was not written by two threads at
\* once, imported from USB or resumed after an error page is absent or whole under its
\* final name, gets that name in one step and keeps its content (download_single_file,
\* do_auto_upgrade_check).
Store == INSTANCE ModelStore WITH
    StoreFiles <- Files,
    store <- [f \in Files |-> IF dlDest[f] = 0 THEN "absent"
                              ELSE IF dlData[dlDest[f]] = Whole THEN "whole" ELSE "broken"],
    spoiled <- dlTainted
ImplementsModelStore == Store!StoreSpec

\* g_dl.active and g_upgrade_downloading are set only while a thread runs that will clear
\* them: no error path of start_async_download or do_auto_upgrade_check leaves the
\* appliance answering "busy", or without upgrades, until it is restarted.
FlagMeansRunning ==
    /\ dlActive = 1 => \E r \in Requests : dlJob[r].kind = "async" /\ dlJob[r].pc # "set"
    /\ dlUpgrading = 1 <=> dlJob["upgrade"].pc # "idle"

\* When from some time on the smallest model is missing only while none is loaded and an
\* upgrade is available, so that the heartbeat goes on calling do_auto_upgrade_check, its
\* retries bring that model to the disk.  Two cases are lost for good, and excepted: a fault
\* that hit between the last piece and the rename (the server answers every later attempt
\* with 416, and the upgrade neither renames nor removes the part), and two threads that
\* wrote the part at once.
UpgradeGetsTheModel ==
    <>[](dlNeed = "model" \/ dlDest[1] # 0)
        => <>[](dlDest[1] # 0 \/ dlCut = 1 \/ 1 \in dlTainted)
=============================================================================
