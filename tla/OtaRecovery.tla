---------------------------- MODULE OtaRecovery ----------------------------
(***************************************************************************)
(* Firmware update through the recovery system.  Scripts of the normal     *)
(* system leave a request on the data partition and in the misc partition  *)
(* and reboot; swupdate.sh, run by the recovery system, picks the request, *)
(* runs swupdate and decides what the next boot will do.  The power can go *)
(* at any step: what survives is misc, the data partition, the bootloader  *)
(* environment and whatever swupdate has written of the new system.        *)
(*                                                                         *)
(* One release is modelled, and a device without a second slot.  What is   *)
(* written to misc and to the environment is there when its command ends;  *)
(* what is done to the data partition is on the disk at the next sync or   *)
(* umount, and a power cut before that keeps any part of it.               *)
(***************************************************************************)
EXTENDS Integers, FiniteSets

CONSTANTS
  MaxCuts,      \* bound on power cuts
  MaxRequests   \* bound on the updates requested

ASSUME BoundsAssumption == MaxCuts \in Nat /\ MaxRequests \in Nat

VARIABLES
  \* persistent
  misc,             \* "clean", or the boot command "recovery", or that with a "url"
  files,            \* what there is of the directory swupdate/ on the data partition
  unsynced,         \* what of it was made or removed since the disk was last written
  swu,              \* software.swu is on the data partition
  recovery_status,  \* bootloader environment: "in_progress" or "none"
  sw_version,       \* bootloader environment: the release last installed
  system,           \* the system partitions
  \* volatile
  pc,               \* where the running script or boot stage is
  reason,           \* reboot reason, lost with the power
  branch,           \* request that swupdate.sh is serving
  code,             \* exit status of swupdate or dvb_ota.sh
  \* environment and history
  usb,              \* a USB stick with software.swu is plugged in
  cuts, requests,   \* power cuts and requests so far
  by,               \* branch of the last installation that was started
  cut,              \* power was cut in a network installation before it was marked
  late,             \* the data partition was once not ready in time
  torn              \* power was cut after the last URL and before its request was synced

disk  == <<files, unsynced, swu>>
flash == <<recovery_status, sw_version, system>>
hist  == <<usb, cuts, requests, by, cut, late, torn>>
vars  == <<misc, disk, flash, pc, reason, branch, code, hist>>

NetFlag == "enable-network-ota"
DvbFlag == "enable-dvb-ota"
Retry   == "swupdate_retry"
Scripts == "apply_info.sh"

\* What two of the files have to hold to be of use: the URL of the package, and the
\* line that names its server.
Url    == "url"
Server == "server"

Names == {NetFlag, DvbFlag, Retry, Scripts}

\* A request for the network, complete.
NetRequest == {NetFlag, Url, Scripts, Server}

\* No file holds anything without being there.
Whole(F) == (Url \in F => NetFlag \in F) /\ (Server \in F => Scripts \in F)

Goto(l) == pc' = l

At(b, l) == branch = b /\ pc = l

\* urlmisc clean
CleanMisc == misc' = "clean"

\* The directory as the programs see it from now on.
Change(F) == files' = F /\ unsynced' = unsynced \cup (files \ F) \cup (F \ files)

Sync == unsynced' = {}

\* The file with what it holds.
Entry(f) == {f} \cup (CASE f = NetFlag -> {Url} [] f = Scripts -> {Server} [] OTHER -> {})

\* rm -r of the directory, one entry at a time.
RemoveOne == \E f \in files \cap Names : Change(files \ Entry(f)) /\ UNCHANGED pc

-----------------------------------------------------------------------------
(* The normal system: scripts that request an update *)

Request(l) ==
  /\ pc = "normal" /\ requests < MaxRequests
  /\ requests' = requests + 1
  /\ Goto(l)
  /\ UNCHANGED <<misc, disk, flash, reason, branch, code, usb, cuts, by, cut, late, torn>>

\* swupdate-url.sh, once the package was found on its server.
BackupInfo ==
  /\ pc = "backup_info"
  /\ RemoveOne \/ (files = {} /\ Goto("copy_info") /\ UNCHANGED <<files, unsynced>>)
  /\ UNCHANGED <<misc, swu, flash, reason, branch, code, hist>>

CopyInfo ==
  /\ pc = "copy_info"
  /\ Change({Scripts})
  /\ Goto("write_url")
  /\ UNCHANGED <<misc, swu, flash, reason, branch, code, hist>>

WriteUrl ==
  /\ pc = "write_url"
  /\ Change(files \cup {NetFlag, Url})
  /\ Goto("write_server")
  /\ UNCHANGED <<misc, swu, flash, reason, branch, code, hist>>

WriteServer ==
  /\ pc = "write_server"
  /\ Change(files \cup {Server})
  /\ Goto("write_misc")
  /\ UNCHANGED <<misc, swu, flash, reason, branch, code, hist>>

\* No sync comes before it.
WriteMisc ==
  /\ pc = "write_misc"
  /\ misc' = "url"
  /\ torn' = FALSE
  /\ Goto("reboot_recovery")
  /\ UNCHANGED <<disk, flash, reason, branch, code, usb, cuts, requests, by, cut, late>>

\* swupdate-dvb.sh
ClearForDvb ==
  /\ pc = "clear_for_dvb"
  /\ RemoveOne \/ (files = {} /\ Goto("write_dvb") /\ UNCHANGED <<files, unsynced>>)
  /\ UNCHANGED <<misc, swu, flash, reason, branch, code, hist>>

\* The flag and the sync after it.
WriteDvb ==
  /\ pc = "write_dvb"
  /\ \/ DvbFlag \notin files /\ Change(files \cup {DvbFlag}) /\ UNCHANGED pc
     \/ DvbFlag \in files /\ Sync /\ UNCHANGED files /\ Goto("reboot_recovery")
  /\ UNCHANGED <<misc, swu, flash, reason, branch, code, hist>>

\* update_swfirmware.sh asks for a recovery boot if there is a package at hand.
UpdateFirmware == (swu \/ usb) /\ Request("reboot_recovery")

\* `reboot recovery`: whether it also writes the boot command into misc is up to
\* the board; a URL that is there stays.  The system writes its disks as it goes down.
RebootRecovery ==
  /\ pc = "reboot_recovery"
  /\ misc' \in IF misc = "url" THEN {"url"} ELSE {"clean", "recovery"}
  /\ reason' = "recovery"
  /\ Sync
  /\ Goto("boot")
  /\ UNCHANGED <<files, swu, flash, branch, code, hist>>

NormalSystem ==
  \/ Request("backup_info") \/ BackupInfo \/ CopyInfo \/ WriteUrl \/ WriteServer \/ WriteMisc
  \/ Request("clear_for_dvb") \/ ClearForDvb \/ WriteDvb
  \/ UpdateFirmware \/ RebootRecovery

-----------------------------------------------------------------------------
(* The bootloader *)

WantsRecovery ==
  reason = "recovery" \/ misc # "clean" \/ recovery_status = "in_progress"

Boot ==
  /\ pc = "boot"
  /\ Goto(IF WantsRecovery THEN "mount" ELSE "normal")
  /\ reason' = "none" /\ branch' = "none" /\ code' = -1
  /\ UNCHANGED <<misc, disk, flash, hist>>

Marked == Retry \in files

\* The mark is on the disk.
MarkSynced == Marked /\ Retry \notin unsynced

\* Of what was not synced any part may be on the disk.
PowerCut ==
  /\ cuts < MaxCuts /\ cuts' = cuts + 1
  /\ pc' = "boot" /\ reason' = "none"
  /\ \E F \in SUBSET (files \cup unsynced) :
       files \ unsynced \subseteq F /\ Whole(F) /\ files' = F
  /\ Sync
  /\ cut' = (cut \/ /\ branch = "net"
                     /\ pc \in {"write", "set_version", "unset", "exit", "decide"}
                     /\ ~ MarkSynced)
  /\ torn' = (torn \/ (misc = "url" /\ unsynced \cap NetRequest # {}))
  /\ UNCHANGED <<misc, swu, flash, branch, code, usb, requests, by, late>>

\* The script has ended in the recovery system; the operator switches off and on.
PowerCycle ==
  /\ pc = "idle"
  /\ Goto("boot")
  /\ UNCHANGED <<misc, disk, flash, reason, branch, code, hist>>

-----------------------------------------------------------------------------
(* swupdate, as patched *)

Exits(c) == code' = c /\ Goto("exit")

\* Exit status of a failure: 10 if a transaction is open (the SIGCHLD handler).
Failure == IF branch = "net" /\ recovery_status = "in_progress" THEN 10 ELSE 1

\* Mutant of StartInstall: the transaction is not opened.
StartUnmarked ==
  /\ pc = "swupdate"
  /\ branch = "net" => misc = "url"
  /\ sw_version = "old"
  /\ by' = branch
  /\ Goto("write")
  /\ UNCHANGED <<misc, disk, flash, reason, branch, code, usb, cuts, requests, cut, late, torn>>

\* Mutant of StartInstall: a release that is recorded is installed again.
StartAnyway ==
  /\ pc = "swupdate"
  /\ branch = "net" => misc = "url"
  /\ recovery_status' = "in_progress"
  /\ by' = branch
  /\ Goto("write")
  /\ UNCHANGED <<misc, disk, sw_version, system, reason, branch, code, usb, cuts,
                 requests, cut, late, torn>>

\* The package is newer than sw_version; the transaction is opened.
StartInstall ==
  /\ pc = "swupdate"
  /\ branch = "net" => misc = "url"
  /\ sw_version = "old"
  /\ recovery_status' = "in_progress"
  /\ by' = branch
  /\ Goto("write")
  /\ UNCHANGED <<misc, disk, sw_version, system, reason, branch, code, usb, cuts,
                 requests, cut, late, torn>>

\* Refused before anything is written: no package, bad signature, or no newer release.
RefuseInstall ==
  /\ pc = "swupdate"
  /\ branch = "net" => misc = "url"
  /\ Exits(Failure)
  /\ UNCHANGED <<misc, disk, flash, reason, branch, hist>>

\* -D without a URL in misc: swupdate ends before it has started the downloader.
NoUrl ==
  /\ pc = "swupdate" /\ branch = "net" /\ misc # "url"
  /\ Exits(1)
  /\ UNCHANGED <<misc, disk, flash, reason, branch, hist>>

Write ==
  /\ pc = "write"
  /\ system' = "partial"
  /\ UNCHANGED <<misc, disk, recovery_status, sw_version, pc, reason, branch, code, hist>>

WriteFails ==
  /\ pc = "write" /\ system = "partial"
  /\ Exits(Failure)
  /\ UNCHANGED <<misc, disk, flash, reason, branch, hist>>

WriteEnds ==
  /\ pc = "write" /\ system = "partial"
  /\ system' = "new"
  /\ Goto("set_version")
  /\ UNCHANGED <<misc, disk, recovery_status, sw_version, reason, branch, code, hist>>

SetVersion ==
  /\ pc = "set_version"
  /\ sw_version' = "new"
  /\ Goto("unset")
  /\ UNCHANGED <<misc, disk, recovery_status, system, reason, branch, code, hist>>

UnsetTransaction ==
  /\ pc = "unset"
  /\ recovery_status' = "none"
  /\ Exits(0)
  /\ UNCHANGED <<misc, disk, sw_version, system, reason, branch, hist>>

swupdate ==
  \/ StartInstall \/ RefuseInstall \/ NoUrl
  \/ Write \/ WriteFails \/ WriteEnds \/ SetVersion \/ UnsetTransaction

-----------------------------------------------------------------------------
(* swupdate.sh: which request *)

Choose(b, l) ==
  /\ pc = "mount"
  /\ branch' = b
  /\ Goto(l)
  /\ UNCHANGED <<misc, disk, flash, reason, code, usb, cuts, requests, by, cut, torn>>

\* The device was not ready after ten seconds: the script sees an empty /mnt.
MountFails == Choose("usb", "find_usb") /\ late' = TRUE

ChooseLocal   == swu /\ Choose("local", "swupdate") /\ UNCHANGED late
ChooseNetwork == ~ swu /\ NetFlag \in files /\ Choose("net", "start_wifi") /\ UNCHANGED late
ChooseDvb     == /\ ~ swu /\ NetFlag \notin files /\ DvbFlag \in files
                 /\ Choose("dvb", "wait_frontend") /\ UNCHANGED late
ChooseUsb     == /\ ~ swu /\ files \cap {NetFlag, DvbFlag} = {}
                 /\ Choose("usb", "find_usb") /\ UNCHANGED late

(* swupdate.sh: software.swu on the data partition *)

LocalFailed ==
  /\ At("local", "exit") /\ code # 0
  /\ CleanMisc
  /\ Goto("idle")
  /\ UNCHANGED <<disk, flash, reason, branch, code, hist>>

\* rm and umount.
RemovePackage ==
  /\ At("local", "exit") /\ code = 0
  /\ swu' = FALSE
  /\ Goto("clean_and_reboot")
  /\ UNCHANGED <<misc, files, unsynced, flash, reason, branch, code, hist>>

CleanAndReboot ==
  /\ pc = "clean_and_reboot"
  /\ CleanMisc
  /\ Goto("boot")
  /\ UNCHANGED <<disk, flash, reason, branch, code, hist>>

(* swupdate.sh: a URL in misc *)

\* apply_info.sh is sourced: without the file the shell ends.
NoScripts ==
  /\ pc = "start_wifi" /\ Scripts \notin files
  /\ Goto("idle")
  /\ UNCHANGED <<misc, disk, flash, reason, branch, code, hist>>

\* The server that is named answers, and has the package of the URL.
NetworkReady ==
  /\ pc = "start_wifi" /\ NetRequest \subseteq files
  /\ Goto("swupdate")
  /\ UNCHANGED <<misc, disk, flash, reason, branch, code, hist>>

\* 90 seconds without an answer, or no package at the URL: always so without the line
\* that names the server, or without a URL.
NotReady ==
  /\ pc = "start_wifi" /\ Scripts \in files
  /\ Goto("decide")
  /\ UNCHANGED <<misc, disk, flash, reason, branch, code, hist>>

\* Mutant of NetResult: keep_recovery is set and the mark on the disk is forgotten.
ResultUnmarked ==
  /\ At("net", "exit")
  /\ Change(IF code = 0 THEN files \ {Retry} ELSE files)
  /\ Goto("decide")
  /\ UNCHANGED <<misc, swu, flash, reason, branch, code, hist>>

NetResult ==
  /\ At("net", "exit")
  /\ Change(CASE code = 0  -> files \ {Retry}
              [] code = 10 -> files \cup {Retry}
              [] OTHER     -> files)
  /\ Goto("decide")
  /\ UNCHANGED <<misc, swu, flash, reason, branch, code, hist>>

Keep == Marked \/ code = 10

\* Mutant of Decide: urlmisc clean is missing.
DecideDirty ==
  /\ pc = "decide"
  /\ IF Keep THEN Goto("read") /\ Sync ELSE Goto("rm_dir") /\ UNCHANGED unsynced
  /\ UNCHANGED <<misc, files, swu, flash, reason, branch, code, hist>>

\* Mutant of Decide: nothing is ever cleaned up.
DecideNothing ==
  /\ pc = "decide"
  /\ Goto("read")
  /\ Sync
  /\ UNCHANGED <<misc, files, swu, flash, reason, branch, code, hist>>

\* The branch that keeps everything goes straight to the sync.
Decide ==
  /\ pc = "decide"
  /\ \/ Keep /\ Goto("read") /\ Sync /\ UNCHANGED misc
     \/ ~ Keep /\ Goto("rm_dir") /\ CleanMisc /\ UNCHANGED unsynced
  /\ UNCHANGED <<files, swu, flash, reason, branch, code, hist>>

RemoveRequest ==
  /\ At("net", "rm_dir")
  /\ RemoveOne \/ (files = {} /\ Goto("read") /\ Sync /\ UNCHANGED files)
  /\ UNCHANGED <<misc, swu, flash, reason, branch, code, hist>>

\* read -t 5: a key keeps the recovery system up.
KeyPressed ==
  /\ pc = "read"
  /\ Goto("idle")
  /\ UNCHANGED <<misc, disk, flash, reason, branch, code, hist>>

NetReboot ==
  /\ At("net", "read")
  /\ Goto("boot")
  /\ UNCHANGED <<misc, disk, flash, reason, branch, code, hist>>

(* swupdate.sh: a DVB broadcast *)

NoFrontend ==
  /\ pc = "wait_frontend"
  /\ Goto("read")
  /\ UNCHANGED <<misc, disk, flash, reason, branch, code, hist>>

\* dvb_ota.sh ends with some status; the test `[ $dvbota_result ]` is true for any.
DvbOta ==
  /\ pc = "wait_frontend"
  /\ code' \in {0, 1}
  /\ Goto("swupdate")
  /\ UNCHANGED <<misc, disk, flash, reason, branch, hist>>

DvbResult ==
  /\ At("dvb", "exit")
  /\ Goto("read")
  /\ UNCHANGED <<misc, disk, flash, reason, branch, code, hist>>

DvbEnds ==
  /\ At("dvb", "read")
  /\ Goto("rm_dir")
  /\ UNCHANGED <<misc, disk, flash, reason, branch, code, hist>>

DvbRemoveRequest ==
  /\ At("dvb", "rm_dir")
  /\ RemoveOne \/ (files = {} /\ Goto("clean_and_reboot") /\ Sync /\ UNCHANGED files)
  /\ UNCHANGED <<misc, swu, flash, reason, branch, code, hist>>

(* swupdate.sh: a USB stick *)

UsbFound ==
  /\ pc = "find_usb" /\ usb
  /\ Goto("swupdate")
  /\ UNCHANGED <<misc, disk, flash, reason, branch, code, hist>>

NoUsb ==
  /\ pc = "find_usb" /\ ~ usb
  /\ CleanMisc
  /\ Goto("idle")
  /\ UNCHANGED <<disk, flash, reason, branch, code, hist>>

UsbResult ==
  /\ At("usb", "exit")
  /\ CleanMisc
  /\ Goto(IF code = 0 THEN "boot" ELSE "idle")
  /\ UNCHANGED <<disk, flash, reason, branch, code, hist>>

swupdate_sh ==
  \/ MountFails \/ ChooseLocal \/ ChooseNetwork \/ ChooseDvb \/ ChooseUsb
  \/ LocalFailed \/ RemovePackage \/ CleanAndReboot
  \/ NoScripts \/ NetworkReady \/ NotReady \/ NetResult \/ Decide \/ RemoveRequest
  \/ KeyPressed \/ NetReboot
  \/ NoFrontend \/ DvbOta \/ DvbResult \/ DvbEnds \/ DvbRemoveRequest
  \/ UsbFound \/ NoUsb \/ UsbResult

-----------------------------------------------------------------------------

Init ==
  /\ misc = "clean" /\ files = {} /\ unsynced = {} /\ swu \in BOOLEAN
  /\ recovery_status = "none" /\ sw_version = "old" /\ system = "old"
  /\ pc = "normal" /\ reason = "none" /\ branch = "none" /\ code = -1
  /\ usb \in BOOLEAN
  /\ cuts = 0 /\ requests = 0
  /\ by = "none" /\ cut = FALSE /\ late = FALSE /\ torn = FALSE

Next == NormalSystem \/ Boot \/ PowerCut \/ PowerCycle \/ swupdate \/ swupdate_sh

Spec == Init /\ [][Next]_vars

\* Boot stages, scripts and swupdate, whose download times out, run on; requests,
\* power cuts and the operator owe nothing.
FairSpec == Spec /\ WF_vars(Boot \/ swupdate \/ swupdate_sh)

-----------------------------------------------------------------------------
(* Properties *)

FilesOK ==
  /\ files \subseteq Names \cup {Url, Server} /\ Whole(files)
  /\ unsynced \subseteq Names \cup {Url, Server}

TypeOK ==
  /\ FilesOK
  /\ misc \in {"clean", "recovery", "url"}
  /\ swu \in BOOLEAN /\ usb \in BOOLEAN
  /\ recovery_status \in {"none", "in_progress"}
  /\ sw_version \in {"old", "new"} /\ system \in {"old", "partial", "new"}
  /\ pc \in {"normal", "backup_info", "copy_info", "write_url", "write_server", "write_misc",
             "clear_for_dvb", "write_dvb", "reboot_recovery", "boot", "mount",
             "swupdate", "write", "set_version", "unset", "exit", "clean_and_reboot",
             "start_wifi", "decide", "rm_dir", "read", "wait_frontend", "find_usb", "idle"}
  /\ reason \in {"none", "recovery"}
  /\ branch \in {"none", "local", "net", "dvb", "usb"} /\ by \in {"none", "local", "net", "dvb", "usb"}
  /\ code \in {-1, 0, 1, 10}
  /\ cuts \in 0 .. MaxCuts /\ requests \in 0 .. MaxRequests
  /\ cut \in BOOLEAN /\ late \in BOOLEAN /\ torn \in BOOLEAN

\* The labels of the normal system.
Normal == {"normal", "backup_info", "copy_info", "write_url", "write_server",
           "write_misc", "clear_for_dvb", "write_dvb", "reboot_recovery"}

\* swupdate opens the transaction before it writes and closes it after the last
\* write: whatever the scripts clean and wherever the power goes, the normal
\* system is never started from half-written partitions.
PartialSystemNeverBoots == pc = "normal" => system # "partial"

\* A half-written system whose update came over the network.
Interrupted == system = "partial" /\ by = "net"

RequestKept == misc = "url" /\ NetRequest \subseteq files

\* "Because upgrade already in progress, We will try util upgrade OK. We will not
\* clean up anything": swupdate.sh keeps the request of an update that failed
\* half-way until it succeeds, through failed attempts, a missing network and
\* power cuts, if the first attempt got as far as leaving its mark on the disk and the
\* data partition was always mounted in time.
MarkedUpdateIsRetried == Interrupted /\ ~ cut /\ ~ late => RequestKept

\* The same for an update whose first attempt was cut short by a loss of power: it
\* is in progress as well.
UpgradeInProgressIsRetried == Interrupted /\ ~ late => RequestKept

\* swupdate-url.sh writes misc last and swupdate.sh cleans it first, so a URL in misc
\* has its request on the disk, complete with URL, scripts and server, whenever the
\* power goes but for one place: swupdate-url.sh does not sync the request, and until
\* `reboot` has done so a power cut leaves the URL with any part of it.
UrlHasRequest == misc = "url" /\ ~ torn => NetRequest \subseteq files

\* The package on the data partition is given up only for a system that is
\* complete, and never while a transaction is open.
PackageIsKept ==
  [][swu /\ ~ swu' => system = "new" /\ recovery_status = "none"]_vars

\* The recovery system always gets to the normal system or leaves the device to
\* its operator, unless the mark says that an update has to be tried again.
RecoveryEnds == pc = "mount" ~> (pc \in {"normal", "idle"} \/ Marked)

\* Between the two writes that record the release and close the transaction the power
\* may go.  A device that comes back recorded and in progress, or that is sent to
\* recovery again, has a complete system: nothing writes over a recorded release.
RecordedIsComplete == sw_version = "new" => system = "new"

Transaction == INSTANCE OtaTransaction WITH
  up       <- pc \in Normal,
  open     <- recovery_status = "in_progress",
  recorded <- sw_version = "new",
  package  <- swu

\* With requests, marks, retries and power cuts forgotten, scripts, swupdate and
\* bootloader carry out one transaction: the normal system never runs while it is
\* open, nothing is written outside it, it is closed only over a complete and
\* recorded system, and the package outlives it.
ImplementsTransaction == Transaction!Spec

\* Fails: "that it is not required to start recovery again" is said of the two writes,
\* and a cut between them leads to recovery with a package that is refused.
RecordedUpdateEndsRecovery ==
  pc = "mount" => ~ (sw_version = "new" /\ recovery_status = "in_progress")
=============================================================================
