------------------------- MODULE OtaRecovery_proofs -------------------------
(***************************************************************************)
(* Proofs about OtaRecovery, for any number of power cuts and requests.    *)
(*                                                                         *)
(* The invariant has three parts: where a transaction is open, what of a   *)
(* request is on the disk, synced or not, and why an interrupted           *)
(* network update is either marked on the disk or still in the hands of    *)
(* the script that is about to mark it.                                    *)
(***************************************************************************)
EXTENDS OtaRecovery, TLAPS

TransactionOpen ==
  /\ system = "partial" \/ pc = "write" => recovery_status = "in_progress"
  /\ pc \in {"set_version", "unset"} \/ (pc = "exit" /\ code = 0) => system = "new"
  /\ pc \in {"set_version", "unset"} => recovery_status = "in_progress"
  /\ pc = "exit" /\ code = 0 => recovery_status = "none"
  /\ pc = "unset" \/ (pc = "exit" /\ code = 0) => sw_version = "new"
  /\ pc \in Normal => system # "partial"
  /\ pc = "write" => sw_version = "old"
  /\ RecordedIsComplete

RequestsOnDisk ==
  /\ UrlHasRequest
  /\ pc \in Normal \cup {"mount"} => branch = "none"
  /\ pc \in Normal \ {"reboot_recovery"} => misc = "clean"
  /\ pc = "write_url" => Scripts \in files
  /\ pc = "write_server" => {NetFlag, Url, Scripts} \subseteq files
  /\ pc = "write_misc" => NetRequest \subseteq files
  /\ At("net", "rm_dir") => misc = "clean"
  /\ branch = "dvb" => NetFlag \notin files /\ NetFlag \notin unsynced
  /\ pc = "wait_frontend" => branch = "dvb"
  /\ pc = "find_usb" => branch = "usb"
  /\ pc = "decide" => unsynced \subseteq {Retry}
  /\ pc \notin Normal \cup {"decide", "rm_dir"} => unsynced = {}

RetryMarked ==
  /\ branch = "net" \/ by = "net" => ~ swu
  /\ pc = "write" => by = branch
  /\ At("net", "write") => misc = "url"
  /\ branch = "net" /\ pc \in {"swupdate", "write"} => NetRequest \subseteq files
  /\ Interrupted /\ ~ cut /\ ~ late =>
       /\ RequestKept
       /\ \/ pc \in {"boot", "mount"}
          \/ /\ branch = "net"
             /\ pc \in {"start_wifi", "swupdate", "write", "exit", "decide", "read", "idle"}
       /\ \/ Marked
          \/ At("net", "write")
          \/ At("net", "exit") /\ code = 10

IInv == TypeOK /\ TransactionOpen /\ RequestsOnDisk /\ RetryMarked

-----------------------------------------------------------------------------
\* The abbreviations that are visible in every step.
USE DEFS At, Goto, NetFlag, DvbFlag, Retry, Scripts, Url, Server, Names, NetRequest,
         Whole, Entry, Change, Sync, MarkSynced, disk, flash, hist,
         Interrupted, RequestKept, Marked, UrlHasRequest, RecordedIsComplete, Normal

\* rm takes one file and what it holds, and leaves a directory that is whole.
LEMMA RemoveOneShrinks ==
  ASSUME TypeOK, RemoveOne
  PROVE  /\ files' \subseteq files /\ Whole(files')
         /\ unsynced' \subseteq unsynced \cup files
         /\ pc' = pc
BY DEFS RemoveOne, TypeOK, FilesOK

\* The request scripts touch the directory only while misc is clean.
LEMMA NormalSystemPreserves ==
  ASSUME IInv, NormalSystem
  PROVE  IInv'
<1>1. CASE Request("backup_info")
  <2>1. TypeOK'
    BY <1>1, BoundsAssumption DEFS IInv, TypeOK, FilesOK, Request
  <2>2. TransactionOpen'
    BY <1>1 DEFS IInv, TypeOK, FilesOK, TransactionOpen, Request
  <2>3. RequestsOnDisk'
    BY <1>1 DEFS IInv, TypeOK, FilesOK, TransactionOpen, RequestsOnDisk, Request
  <2>4. RetryMarked'
    BY <1>1 DEFS IInv, TypeOK, FilesOK, TransactionOpen, RequestsOnDisk, RetryMarked, Request
  <2> QED
    BY <2>1, <2>2, <2>3, <2>4 DEF IInv
<1>2. CASE Request("clear_for_dvb")
  <2>1. TypeOK'
    BY <1>2, BoundsAssumption DEFS IInv, TypeOK, FilesOK, Request
  <2>2. TransactionOpen'
    BY <1>2 DEFS IInv, TypeOK, FilesOK, TransactionOpen, Request
  <2>3. RequestsOnDisk'
    BY <1>2 DEFS IInv, TypeOK, FilesOK, TransactionOpen, RequestsOnDisk, Request
  <2>4. RetryMarked'
    BY <1>2 DEFS IInv, TypeOK, FilesOK, TransactionOpen, RequestsOnDisk, RetryMarked, Request
  <2> QED
    BY <2>1, <2>2, <2>3, <2>4 DEF IInv
<1>3. CASE UpdateFirmware
  <2>1. TypeOK'
    BY <1>3, BoundsAssumption DEFS IInv, TypeOK, FilesOK, UpdateFirmware, Request
  <2>2. TransactionOpen'
    BY <1>3 DEFS IInv, TypeOK, FilesOK, TransactionOpen, UpdateFirmware, Request
  <2>3. RequestsOnDisk'
    BY <1>3 DEFS IInv, TypeOK, FilesOK, TransactionOpen, RequestsOnDisk, UpdateFirmware,
      Request
  <2>4. RetryMarked'
    BY <1>3 DEFS IInv, TypeOK, FilesOK, TransactionOpen, RequestsOnDisk, RetryMarked,
      UpdateFirmware, Request
  <2> QED
    BY <2>1, <2>2, <2>3, <2>4 DEF IInv
<1>4. CASE BackupInfo
  <2>1. TypeOK'
    <3>1. files' \subseteq files /\ Whole(files')
          /\ unsynced' \subseteq unsynced \cup files /\ pc' \in {pc, "copy_info"}
      BY <1>4, RemoveOneShrinks DEFS BackupInfo, IInv, TypeOK, FilesOK
    <3> QED
      BY <3>1, <1>4 DEFS IInv, TypeOK, FilesOK, BackupInfo
  <2>2. TransactionOpen'
    BY <1>4 DEFS IInv, TypeOK, FilesOK, TransactionOpen, BackupInfo, RemoveOne
  <2>3. RequestsOnDisk'
    BY <1>4 DEFS IInv, TypeOK, FilesOK, TransactionOpen, RequestsOnDisk, BackupInfo, RemoveOne
  <2>4. RetryMarked'
    BY <1>4 DEFS IInv, TypeOK, FilesOK, TransactionOpen, RequestsOnDisk, RetryMarked,
      BackupInfo, RemoveOne
  <2> QED
    BY <2>1, <2>2, <2>3, <2>4 DEF IInv
<1>5. CASE CopyInfo
  BY <1>5 DEFS IInv, TypeOK, FilesOK, TransactionOpen, RequestsOnDisk, RetryMarked, CopyInfo
<1>6. CASE WriteUrl
  BY <1>6 DEFS IInv, TypeOK, FilesOK, TransactionOpen, RequestsOnDisk, RetryMarked, WriteUrl
<1>7. CASE WriteServer
  BY <1>7 DEFS IInv, TypeOK, FilesOK, TransactionOpen, RequestsOnDisk, RetryMarked, WriteServer
<1>11. CASE WriteMisc
  <2>1. TypeOK'
    <3>1. FilesOK'
      BY <1>11 DEFS IInv, TypeOK, FilesOK, WriteMisc
    <3> QED
      <4>1. misc' = "url" /\ torn' = FALSE /\ pc' = "reboot_recovery"
        BY <1>11 DEF WriteMisc
      <4>2. UNCHANGED <<disk, flash, reason, branch, code, usb, cuts, requests, by, cut, late>>
        BY <1>11 DEF WriteMisc
      <4>3. /\ misc' \in {"clean", "recovery", "url"}
            /\ pc' \in Normal
            /\ torn' \in BOOLEAN
        BY <4>1
      <4> QED
        BY <3>1, <4>2, <4>3, SMTT(30) DEFS IInv, TypeOK
  <2>2. TransactionOpen'
    BY <1>11 DEFS IInv, TypeOK, FilesOK, TransactionOpen, WriteMisc
  <2>3. RequestsOnDisk'
    BY <1>11 DEFS IInv, TypeOK, FilesOK, TransactionOpen, RequestsOnDisk, WriteMisc
  <2>4. RetryMarked'
    BY <1>11 DEFS IInv, TypeOK, FilesOK, TransactionOpen, RequestsOnDisk, RetryMarked,
      WriteMisc
  <2> QED
    BY <2>1, <2>2, <2>3, <2>4 DEF IInv
<1>8. CASE ClearForDvb
  <2>1. TypeOK'
    <3>1. files' \subseteq files /\ Whole(files')
          /\ unsynced' \subseteq unsynced \cup files /\ pc' \in {pc, "write_dvb"}
      BY <1>8, RemoveOneShrinks DEFS ClearForDvb, IInv, TypeOK, FilesOK
    <3> QED
      BY <3>1, <1>8 DEFS IInv, TypeOK, FilesOK, ClearForDvb
  <2>2. TransactionOpen'
    BY <1>8 DEFS IInv, TypeOK, FilesOK, TransactionOpen, ClearForDvb, RemoveOne
  <2>3. RequestsOnDisk'
    BY <1>8 DEFS IInv, TypeOK, FilesOK, TransactionOpen, RequestsOnDisk, ClearForDvb, RemoveOne
  <2>4. RetryMarked'
    BY <1>8 DEFS IInv, TypeOK, FilesOK, TransactionOpen, RequestsOnDisk, RetryMarked,
      ClearForDvb, RemoveOne
  <2> QED
    BY <2>1, <2>2, <2>3, <2>4 DEF IInv
<1>9. CASE WriteDvb
  <2>1. TypeOK'
    <3>1. FilesOK'
      BY <1>9 DEFS IInv, TypeOK, FilesOK, WriteDvb
    <3> QED
      BY <3>1, <1>9 DEFS IInv, TypeOK, WriteDvb
  <2>2. TransactionOpen'
    BY <1>9 DEFS IInv, TypeOK, FilesOK, TransactionOpen, WriteDvb
  <2>3. RequestsOnDisk'
    BY <1>9 DEFS IInv, TypeOK, FilesOK, TransactionOpen, RequestsOnDisk, WriteDvb
  <2>4. RetryMarked'
    BY <1>9 DEFS IInv, TypeOK, FilesOK, TransactionOpen, RequestsOnDisk, RetryMarked,
      WriteDvb
  <2> QED
    BY <2>1, <2>2, <2>3, <2>4 DEF IInv
<1>10. CASE RebootRecovery
  BY <1>10 DEFS IInv, TypeOK, FilesOK, TransactionOpen, RequestsOnDisk, RetryMarked,
    RebootRecovery
<1> QED
  BY <1>1, <1>2, <1>3, <1>4, <1>5, <1>6, <1>7, <1>8, <1>9, <1>10, <1>11
  DEF NormalSystem

\* swupdate opens its transaction before it writes and closes it after.
LEMMA SwupdatePreserves ==
  ASSUME IInv, swupdate
  PROVE  IInv'
<1>1. CASE StartInstall
  <2>1. TypeOK'
    <3>1. FilesOK'
      BY <1>1 DEFS IInv, TypeOK, FilesOK, StartInstall
    <3> QED
      BY <3>1, <1>1 DEFS IInv, TypeOK, StartInstall
  <2>2. TransactionOpen'
    BY <1>1 DEFS IInv, TypeOK, FilesOK, TransactionOpen, StartInstall
  <2>3. RequestsOnDisk'
    BY <1>1 DEFS IInv, TypeOK, FilesOK, TransactionOpen, RequestsOnDisk, StartInstall
  <2>4. RetryMarked'
    BY <1>1 DEFS IInv, TypeOK, FilesOK, TransactionOpen, RequestsOnDisk, RetryMarked,
      StartInstall
  <2> QED
    BY <2>1, <2>2, <2>3, <2>4 DEF IInv
<1>2. CASE RefuseInstall
  BY <1>2 DEFS IInv, TypeOK, FilesOK, TransactionOpen, RequestsOnDisk, RetryMarked,
    RefuseInstall, Exits, Failure
<1>3. CASE NoUrl
  BY <1>3 DEFS IInv, TypeOK, FilesOK, TransactionOpen, RequestsOnDisk, RetryMarked, NoUrl,
    Exits
<1>4. CASE Write
  <2>1. TypeOK'
    <3>1. FilesOK'
      BY <1>4 DEFS IInv, TypeOK, FilesOK, Write
    <3> QED
      BY <3>1, <1>4 DEFS IInv, TypeOK, Write
  <2>2. TransactionOpen'
    BY <1>4 DEFS IInv, TypeOK, FilesOK, TransactionOpen, Write
  <2>3. RequestsOnDisk'
    BY <1>4 DEFS IInv, TypeOK, FilesOK, TransactionOpen, RequestsOnDisk, Write
  <2>4. RetryMarked'
    BY <1>4 DEFS IInv, TypeOK, FilesOK, TransactionOpen, RequestsOnDisk, RetryMarked,
      Write
  <2> QED
    BY <2>1, <2>2, <2>3, <2>4 DEF IInv
<1>5. CASE WriteFails
  BY <1>5 DEFS IInv, TypeOK, FilesOK, TransactionOpen, RequestsOnDisk, RetryMarked, WriteFails,
    Exits, Failure
<1>6. CASE WriteEnds
  BY <1>6 DEFS IInv, TypeOK, FilesOK, TransactionOpen, RequestsOnDisk, RetryMarked, WriteEnds
<1>7. CASE SetVersion
  BY <1>7 DEFS IInv, TypeOK, FilesOK, TransactionOpen, RequestsOnDisk, RetryMarked, SetVersion
<1>8. CASE UnsetTransaction
  BY <1>8 DEFS IInv, TypeOK, FilesOK, TransactionOpen, RequestsOnDisk, RetryMarked,
    UnsetTransaction, Exits
<1> QED
  BY <1>1, <1>2, <1>3, <1>4, <1>5, <1>6, <1>7, <1>8 DEF swupdate

\* swupdate.sh cleans misc before it removes a network request, and marks before it decides.
LEMMA ScriptPreserves ==
  ASSUME IInv, swupdate_sh
  PROVE  IInv'
<1>1. CASE MountFails
  BY <1>1 DEFS IInv, TypeOK, FilesOK, TransactionOpen, RequestsOnDisk, RetryMarked, MountFails,
    Choose
<1>2. CASE ChooseLocal
  BY <1>2 DEFS IInv, TypeOK, FilesOK, TransactionOpen, RequestsOnDisk, RetryMarked,
    ChooseLocal, Choose
<1>3. CASE ChooseNetwork
  BY <1>3 DEFS IInv, TypeOK, FilesOK, TransactionOpen, RequestsOnDisk, RetryMarked,
    ChooseNetwork, Choose
<1>4. CASE ChooseDvb
  BY <1>4 DEFS IInv, TypeOK, FilesOK, TransactionOpen, RequestsOnDisk, RetryMarked, ChooseDvb,
    Choose
<1>5. CASE ChooseUsb
  BY <1>5 DEFS IInv, TypeOK, FilesOK, TransactionOpen, RequestsOnDisk, RetryMarked, ChooseUsb,
    Choose
<1>6. CASE LocalFailed
  BY <1>6 DEFS IInv, TypeOK, FilesOK, TransactionOpen, RequestsOnDisk, RetryMarked,
    LocalFailed, CleanMisc
<1>7. CASE RemovePackage
  <2>1. TypeOK'
    <3>1. swu' \in BOOLEAN /\ pc' = "clean_and_reboot"
      BY <1>7 DEF RemovePackage
    <3>2. UNCHANGED <<misc, files, unsynced, flash, reason, branch, code, hist>>
      BY <1>7 DEF RemovePackage
    <3>3. FilesOK'
      BY <3>2 DEFS IInv, TypeOK, FilesOK
    <3> QED
      BY <3>1, <3>2, <3>3 DEFS IInv, TypeOK
  <2>2. TransactionOpen'
    BY <1>7 DEFS IInv, TypeOK, FilesOK, TransactionOpen, RemovePackage
  <2>3. RequestsOnDisk'
    BY <1>7 DEFS IInv, TypeOK, FilesOK, TransactionOpen, RequestsOnDisk, RemovePackage
  <2>4. RetryMarked'
    BY <1>7 DEFS IInv, TypeOK, FilesOK, TransactionOpen, RequestsOnDisk, RetryMarked,
      RemovePackage
  <2> QED
    BY <2>1, <2>2, <2>3, <2>4 DEF IInv
<1>8. CASE CleanAndReboot
  BY <1>8 DEFS IInv, TypeOK, FilesOK, TransactionOpen, RequestsOnDisk, RetryMarked,
    CleanAndReboot, CleanMisc
<1>9. CASE NoScripts
  BY <1>9 DEFS IInv, TypeOK, FilesOK, TransactionOpen, RequestsOnDisk, RetryMarked, NoScripts
<1>10. CASE NetworkReady
  BY <1>10 DEFS IInv, TypeOK, FilesOK, TransactionOpen, RequestsOnDisk, RetryMarked,
    NetworkReady
<1>11. CASE NotReady
  BY <1>11 DEFS IInv, TypeOK, FilesOK, TransactionOpen, RequestsOnDisk, RetryMarked, NotReady
<1>12. CASE NetResult
  <2>1. TypeOK'
    <3>1. FilesOK'
      BY <1>12 DEFS IInv, TypeOK, FilesOK, NetResult
    <3> QED
      BY <3>1, <1>12, BoundsAssumption DEFS IInv, TypeOK, NetResult
  <2>2. TransactionOpen'
    BY <1>12 DEFS IInv, TypeOK, FilesOK, TransactionOpen, NetResult
  <2>3. RequestsOnDisk'
    BY <1>12 DEFS IInv, TypeOK, FilesOK, TransactionOpen, RequestsOnDisk, NetResult
  <2>4. RetryMarked'
    <3>1. CASE code = 10
      BY <3>1, <1>12 DEFS IInv, TypeOK, FilesOK, TransactionOpen, RequestsOnDisk, RetryMarked,
        NetResult
    <3>2. CASE code # 10
      BY <3>2, <1>12 DEFS IInv, TypeOK, FilesOK, TransactionOpen, RequestsOnDisk, RetryMarked,
        NetResult
    <3> QED
      BY <3>1, <3>2
  <2> QED
    BY <2>1, <2>2, <2>3, <2>4 DEF IInv
<1>13. CASE Decide
  <2>1. TypeOK'
    <3>1. FilesOK'
      BY <1>13 DEFS IInv, TypeOK, FilesOK, Decide, Keep, CleanMisc
    <3> QED
      BY <3>1, <1>13 DEFS IInv, TypeOK, Decide, Keep, CleanMisc
  <2>2. TransactionOpen'
    BY <1>13 DEFS IInv, TypeOK, FilesOK, TransactionOpen, Decide, Keep, CleanMisc
  <2>3. RequestsOnDisk'
    BY <1>13 DEFS IInv, TypeOK, FilesOK, TransactionOpen, RequestsOnDisk, Decide, Keep, CleanMisc
  <2>4. RetryMarked'
    BY <1>13 DEFS IInv, TypeOK, FilesOK, TransactionOpen, RequestsOnDisk, RetryMarked,
      Decide, Keep, CleanMisc
  <2> QED
    BY <2>1, <2>2, <2>3, <2>4 DEF IInv
<1>14. CASE RemoveRequest
  <2>1. TypeOK'
    <3>1. files' \subseteq files /\ Whole(files')
          /\ unsynced' \subseteq unsynced \cup files /\ pc' \in {pc, "read"}
      BY <1>14, RemoveOneShrinks DEFS RemoveRequest, IInv, TypeOK, FilesOK
    <3> QED
      BY <3>1, <1>14 DEFS IInv, TypeOK, FilesOK, RemoveRequest
  <2>2. TransactionOpen'
    BY <1>14 DEFS IInv, TypeOK, FilesOK, TransactionOpen, RemoveRequest, RemoveOne
  <2>3. RequestsOnDisk'
    BY <1>14 DEFS IInv, TypeOK, FilesOK, TransactionOpen, RequestsOnDisk, RemoveRequest,
      RemoveOne
  <2>4. RetryMarked'
    BY <1>14 DEFS IInv, TypeOK, FilesOK, TransactionOpen, RequestsOnDisk, RetryMarked,
      RemoveRequest, RemoveOne
  <2> QED
    BY <2>1, <2>2, <2>3, <2>4 DEF IInv
<1>15. CASE KeyPressed
  BY <1>15 DEFS IInv, TypeOK, FilesOK, TransactionOpen, RequestsOnDisk, RetryMarked, KeyPressed
<1>16. CASE NetReboot
  BY <1>16 DEFS IInv, TypeOK, FilesOK, TransactionOpen, RequestsOnDisk, RetryMarked, NetReboot
<1>17. CASE NoFrontend
  BY <1>17 DEFS IInv, TypeOK, FilesOK, TransactionOpen, RequestsOnDisk, RetryMarked, NoFrontend
<1>18. CASE DvbOta
  BY <1>18 DEFS IInv, TypeOK, FilesOK, TransactionOpen, RequestsOnDisk, RetryMarked, DvbOta
<1>19. CASE DvbResult
  BY <1>19 DEFS IInv, TypeOK, FilesOK, TransactionOpen, RequestsOnDisk, RetryMarked, DvbResult
<1>20. CASE DvbEnds
  BY <1>20 DEFS IInv, TypeOK, FilesOK, TransactionOpen, RequestsOnDisk, RetryMarked, DvbEnds
<1>21. CASE DvbRemoveRequest
  <2>1. TypeOK'
    <3>1. files' \subseteq files /\ Whole(files')
          /\ unsynced' \subseteq unsynced \cup files /\ pc' \in {pc, "clean_and_reboot"}
      BY <1>21, RemoveOneShrinks DEFS DvbRemoveRequest, IInv, TypeOK, FilesOK
    <3> QED
      BY <3>1, <1>21 DEFS IInv, TypeOK, FilesOK, DvbRemoveRequest
  <2>2. TransactionOpen'
    BY <1>21 DEFS IInv, TypeOK, FilesOK, TransactionOpen, DvbRemoveRequest, RemoveOne
  <2>3. RequestsOnDisk'
    BY <1>21 DEFS IInv, TypeOK, FilesOK, TransactionOpen, RequestsOnDisk, DvbRemoveRequest,
      RemoveOne
  <2>4. RetryMarked'
    BY <1>21 DEFS IInv, TypeOK, FilesOK, TransactionOpen, RequestsOnDisk, RetryMarked,
      DvbRemoveRequest, RemoveOne
  <2> QED
    BY <2>1, <2>2, <2>3, <2>4 DEF IInv
<1>22. CASE UsbFound
  BY <1>22 DEFS IInv, TypeOK, FilesOK, TransactionOpen, RequestsOnDisk, RetryMarked, UsbFound
<1>23. CASE NoUsb
  BY <1>23 DEFS IInv, TypeOK, FilesOK, TransactionOpen, RequestsOnDisk, RetryMarked, NoUsb,
    CleanMisc
<1>24. CASE UsbResult
  BY <1>24 DEFS IInv, TypeOK, FilesOK, TransactionOpen, RequestsOnDisk, RetryMarked, UsbResult,
    CleanMisc
<1> QED
  BY <1>1, <1>2, <1>3, <1>4, <1>5, <1>6, <1>7, <1>8, <1>9, <1>10, <1>11, <1>12, <1>13,
    <1>14, <1>15, <1>16, <1>17, <1>18, <1>19, <1>20, <1>21, <1>22, <1>23, <1>24 DEF
    swupdate_sh

\* Boot, power and the scripts together.
LEMMA Inductive ==
  ASSUME IInv, [Next]_vars
  PROVE  IInv'
<1>1. CASE NormalSystem
  BY <1>1, NormalSystemPreserves
<1>2. CASE swupdate
  BY <1>2, SwupdatePreserves
<1>3. CASE swupdate_sh
  BY <1>3, ScriptPreserves
<1>4. CASE Boot
  BY <1>4 DEFS IInv, TypeOK, FilesOK, TransactionOpen, RequestsOnDisk, RetryMarked, Boot,
    WantsRecovery
<1>5. CASE PowerCut
  <2>1. TypeOK'
    <3>1. FilesOK'
      BY <1>5 DEFS IInv, TypeOK, FilesOK, PowerCut
    <3> QED
      BY <3>1, <1>5, BoundsAssumption DEFS IInv, TypeOK, PowerCut
  <2>2. TransactionOpen'
    BY <1>5 DEFS IInv, TypeOK, FilesOK, TransactionOpen, PowerCut
  <2>3. RequestsOnDisk'
    BY <1>5 DEFS IInv, TypeOK, FilesOK, TransactionOpen, RequestsOnDisk, PowerCut
  <2>4. RetryMarked'
    <3>1. /\ pc' = "boot"
          /\ UNCHANGED <<misc, swu, system, branch, by, late>>
          /\ files \ unsynced \subseteq files'
      BY <1>5 DEF PowerCut
    <3>2. ASSUME Interrupted', ~ cut', ~ late'
          PROVE  RequestKept' /\ Marked'
      <4>0. cut' = (cut \/ /\ branch = "net"
                           /\ pc \in {"write", "set_version", "unset", "exit", "decide"}
                           /\ ~ MarkSynced)
        BY <1>5, Zenon DEF PowerCut
      <4>1. /\ Interrupted /\ ~ cut /\ ~ late
            /\ ~ (branch = "net" /\ pc \in {"write", "set_version", "unset", "exit", "decide"}
                  /\ ~ MarkSynced)
        BY <4>0, <3>1, <3>2
      <4>2. RequestKept /\ MarkSynced /\ unsynced \subseteq {Retry}
        BY <4>1 DEFS IInv, RetryMarked, RequestsOnDisk
      <4> QED
        BY <3>1, <4>2
    <3> QED
      BY <3>1, <3>2 DEFS IInv, RetryMarked
  <2> QED
    BY <2>1, <2>2, <2>3, <2>4 DEF IInv
<1>6. CASE PowerCycle
  BY <1>6 DEFS IInv, TypeOK, FilesOK, TransactionOpen, RequestsOnDisk, RetryMarked, PowerCycle
<1>7. CASE UNCHANGED vars
  BY <1>7 DEFS IInv, TypeOK, FilesOK, TransactionOpen, RequestsOnDisk, RetryMarked, vars
<1> QED
  BY <1>1, <1>2, <1>3, <1>4, <1>5, <1>6, <1>7 DEF Next

LEMMA Initial == Init => IInv
<1> SUFFICES ASSUME Init PROVE IInv
  OBVIOUS
<1>1. TypeOK
  <2>1. cuts \in 0 .. MaxCuts /\ requests \in 0 .. MaxRequests
    BY BoundsAssumption DEF Init
  <2>2. FilesOK
    BY DEFS Init, FilesOK
  <2>3. code \in {-1, 0, 1, 10}
    BY DEF Init
  <2>4. cut \in BOOLEAN /\ late \in BOOLEAN /\ torn \in BOOLEAN
        /\ swu \in BOOLEAN /\ usb \in BOOLEAN
    BY DEF Init
  <2> QED
    BY <2>1, <2>2, <2>3, <2>4 DEFS Init, TypeOK
<1>2. TransactionOpen
  BY DEFS Init, TransactionOpen
<1>3. RequestsOnDisk
  BY DEFS Init, RequestsOnDisk
<1>4. RetryMarked
  BY DEFS Init, RetryMarked
<1> QED
  BY <1>1, <1>2, <1>3, <1>4 DEF IInv

\* The invariant of every behaviour.
THEOREM Invariance == Spec => []IInv
  BY Initial, Inductive, PTL DEF Spec

\* Types, for any number of power cuts and requests.
THEOREM OtaTypeCorrect == Spec => []TypeOK
<1>1. IInv => TypeOK
  BY DEF IInv
<1> QED
  BY <1>1, Invariance, PTL

\* However often the power goes, swupdate.sh and the patched swupdate never let
\* the bootloader start the normal system from half-written partitions.
THEOREM NoPartialBoot == Spec => []PartialSystemNeverBoots
<1>1. IInv => PartialSystemNeverBoots
  BY DEFS IInv, TransactionOpen, PartialSystemNeverBoots
<1> QED
  BY <1>1, Invariance, PTL

\* However often the power goes, a URL in misc has its request on the disk.
THEOREM UrlIsBacked == Spec => []UrlHasRequest
<1>1. IInv => UrlHasRequest
  BY DEFS IInv, RequestsOnDisk
<1> QED
  BY <1>1, Invariance, PTL

\* However often the power goes between the two writes that record an update, a
\* recorded release is complete.
THEOREM RecordedStaysComplete == Spec => []RecordedIsComplete
<1>1. IInv => RecordedIsComplete
  BY DEFS IInv, TransactionOpen
<1> QED
  BY <1>1, Invariance, PTL

\* For any number of power cuts the package is removed only from a device that has
\* installed it and closed the transaction.
THEOREM PackageStays == Spec => PackageIsKept
<1> DEFINE Kept == swu /\ ~ swu' => system = "new" /\ recovery_status = "none"
<1>1. ASSUME IInv, [Next]_vars PROVE [Kept]_vars
  <2>1. CASE RemovePackage
    BY <1>1, <2>1 DEFS IInv, TransactionOpen, RemovePackage
  <2>2. CASE swupdate
    BY <2>2 DEFS swupdate, StartInstall, RefuseInstall, NoUrl, Write, WriteFails, WriteEnds,
         SetVersion, UnsetTransaction
  <2>3. CASE NormalSystem \/ Boot \/ PowerCut \/ PowerCycle
    BY <2>3 DEFS NormalSystem, Request, UpdateFirmware, BackupInfo, CopyInfo, WriteUrl,
         WriteServer, WriteMisc, ClearForDvb, WriteDvb, RebootRecovery, Boot, PowerCut, PowerCycle,
         RemoveOne
  <2>4. CASE swupdate_sh /\ ~ RemovePackage
    <3>1. swu' = swu
      BY <2>4 DEFS swupdate_sh, MountFails, ChooseLocal, ChooseNetwork, ChooseDvb, ChooseUsb,
           Choose, LocalFailed, CleanAndReboot, NoScripts, NetworkReady, NotReady, NetResult,
           Decide, Keep, RemoveRequest, RemoveOne, KeyPressed, NetReboot, NoFrontend, DvbOta,
           DvbResult, DvbEnds, DvbRemoveRequest, UsbFound, NoUsb, UsbResult
    <3> QED
      BY <3>1
  <2>5. CASE UNCHANGED vars
    BY <2>5 DEF vars
  <2> QED
    BY <1>1, <2>1, <2>2, <2>3, <2>4, <2>5 DEF Next
<1> QED
  BY <1>1, Invariance, PTL DEFS Spec, PackageIsKept

\* However often it fails afterwards, a network update that is marked for retry
\* keeps its request until it has succeeded.
THEOREM MarkedIsRetried == Spec => []MarkedUpdateIsRetried
<1>1. IInv => MarkedUpdateIsRetried
  BY DEFS IInv, RetryMarked, MarkedUpdateIsRetried
<1> QED
  BY <1>1, Invariance, PTL
-----------------------------------------------------------------------------
(* The recovery path as a transaction *)

\* What the transaction consists of stays as it is.
Holds == UNCHANGED <<pc \in Normal, system, recovery_status, sw_version, swu>>

\* The scripts of the normal system touch none of it; the last one ends with the reboot.
LEMMA NormalSystemStep ==
  ASSUME TypeOK, NormalSystem
  PROVE  Holds \/ Transaction!Stop
<1> USE DEFS Holds, Request, UpdateFirmware, RemoveOne
<1>1. CASE RebootRecovery
  BY <1>1 DEFS RebootRecovery, Transaction!Stop, Transaction!update
<1>2. CASE BackupInfo \/ CopyInfo \/ WriteUrl \/ WriteServer \/ WriteMisc \/ ClearForDvb \/ WriteDvb
  BY <1>2 DEFS BackupInfo, CopyInfo, WriteUrl, WriteServer, WriteMisc, ClearForDvb, WriteDvb
<1>3. CASE Request("backup_info") \/ Request("clear_for_dvb") \/ UpdateFirmware
  BY <1>3
<1> QED
  BY <1>1, <1>2, <1>3 DEF NormalSystem

\* Each write of swupdate is a step of the transaction that is open.
LEMMA SwupdateStep ==
  ASSUME IInv, swupdate
  PROVE  Holds \/ Transaction!Next
<1> USE DEFS IInv, TypeOK, FilesOK, TransactionOpen
<1>1. CASE StartInstall
  <2>1. Transaction!Begin
    BY <1>1 DEFS StartInstall, Transaction!Begin
  <2> QED
    BY <2>1 DEF Transaction!Next
<1>2. CASE RefuseInstall \/ NoUrl \/ WriteFails
  BY <1>2 DEFS RefuseInstall, NoUrl, WriteFails, Exits, Holds
<1>3. CASE Write
  <2>1. Transaction!Write
    BY <1>3 DEFS Write, Transaction!Write
  <2> QED
    BY <2>1 DEF Transaction!Next
<1>4. CASE WriteEnds
  <2>1. Transaction!Complete
    BY <1>4 DEFS WriteEnds, Transaction!Complete
  <2> QED
    BY <2>1 DEF Transaction!Next
<1>5. CASE SetVersion
  <2>1. Transaction!Record
    BY <1>5 DEFS SetVersion, Transaction!Record
  <2> QED
    BY <2>1 DEF Transaction!Next
<1>6. CASE UnsetTransaction
  <2>1. Transaction!Close
    BY <1>6 DEFS UnsetTransaction, Exits, Transaction!Close
  <2> QED
    BY <2>1 DEF Transaction!Next
<1> QED
  BY <1>1, <1>2, <1>3, <1>4, <1>5, <1>6 DEF swupdate

\* swupdate.sh gives up the package of a transaction that is closed, and leaves it to
\* the bootloader to start the normal system.
LEMMA ScriptStep ==
  ASSUME IInv, swupdate_sh
  PROVE  Holds \/ Transaction!Discard
<1> USE DEFS IInv, TypeOK, FilesOK, TransactionOpen
<1>1. CASE RemovePackage
  BY <1>1 DEFS RemovePackage, Transaction!Discard, Transaction!update
<1>2. CASE MountFails \/ ChooseLocal \/ ChooseNetwork \/ ChooseDvb \/ ChooseUsb
  BY <1>2 DEFS MountFails, ChooseLocal, ChooseNetwork, ChooseDvb, ChooseUsb, Choose, Holds
<1>3. CASE LocalFailed \/ CleanAndReboot \/ NoScripts \/ NetworkReady \/ NotReady
           \/ NetResult \/ Decide \/ RemoveRequest \/ KeyPressed \/ NetReboot
  BY <1>3 DEFS LocalFailed, CleanAndReboot, NoScripts, NetworkReady, NotReady, NetResult,
     Decide, Keep, CleanMisc, RemoveRequest, RemoveOne, KeyPressed, NetReboot, Holds
<1>4. CASE NoFrontend \/ DvbOta \/ DvbResult \/ DvbEnds \/ DvbRemoveRequest
           \/ UsbFound \/ NoUsb \/ UsbResult
  BY <1>4 DEFS NoFrontend, DvbOta, DvbResult, DvbEnds, DvbRemoveRequest, RemoveOne,
     UsbFound, NoUsb, UsbResult, CleanMisc, Holds
<1> QED
  BY <1>1, <1>2, <1>3, <1>4 DEF swupdate_sh

LEMMA TransactionStep ==
  ASSUME IInv, [Next]_vars
  PROVE  [Transaction!Next]_(Transaction!vars)
<1>h. Holds => UNCHANGED Transaction!vars
  BY DEFS Holds, Transaction!vars, Transaction!update
<1>1. CASE NormalSystem
  BY <1>1, <1>h, NormalSystemStep DEFS IInv, Transaction!Next
<1>2. CASE swupdate
  BY <1>2, <1>h, SwupdateStep
<1>3. CASE swupdate_sh
  BY <1>3, <1>h, ScriptStep DEF Transaction!Next
<1>4. CASE Boot
  <2>1. Holds \/ Transaction!Start
    BY <1>4 DEFS Boot, WantsRecovery, Holds, Transaction!Start, Transaction!update
  <2> QED
    BY <2>1, <1>h DEF Transaction!Next
<1>5. CASE PowerCut
  <2>1. Transaction!Stop
    BY <1>5 DEFS PowerCut, Transaction!Stop, Transaction!update
  <2> QED
    BY <2>1 DEF Transaction!Next
<1>6. CASE PowerCycle \/ UNCHANGED vars
  <2>1. Holds
    BY <1>6 DEFS PowerCycle, vars, Holds
  <2> QED
    BY <2>1, <1>h
<1> QED
  BY <1>1, <1>2, <1>3, <1>4, <1>5, <1>6 DEF Next

LEMMA TransactionInit == Init => Transaction!Init
  BY DEFS Init, Transaction!Init

\* For any number of requests and power cuts, the recovery path carries out one
\* transaction: the normal system never runs while it is open, and it is closed only
\* over a system that is complete and recorded.
THEOREM UpdateIsATransaction == Spec => ImplementsTransaction
  BY TransactionStep, TransactionInit, Invariance, PTL
  DEFS Spec, ImplementsTransaction, Transaction!Spec
-----------------------------------------------------------------------------
(* Recovery comes to an end *)

\* What each label knows of the request it serves, once the power stays on.
Route ==
  /\ pc \notin Normal \cup {"boot"} => reason = "none"
  /\ pc \in {"mount", "start_wifi"} => code # 10
  /\ pc \in {"start_wifi", "decide"} => branch = "net"
  /\ pc = "wait_frontend" => branch = "dvb"
  /\ pc = "find_usb" => branch = "usb"
  /\ pc \in {"swupdate", "write", "set_version", "unset", "exit"} => branch # "none"
  /\ pc \in {"rm_dir", "read"} => branch \in {"net", "dvb"}
  /\ pc = "clean_and_reboot" => branch \in {"local", "dvb"}
  /\ pc = "decide" /\ code = 10 => Marked
  /\ At("net", "read") => Marked \/ files = {}
  /\ At("dvb", "clean_and_reboot") => files = {}
  /\ At("local", "clean_and_reboot") => recovery_status = "none"

Done     == pc \in {"normal", "idle"} \/ Marked
Underway == pc \notin Normal \cup {"idle"}

\* What is asked of a state for boot stage, swupdate or swupdate.sh to have a step in
\* it: the guards of their actions, one line per test in the code, without the effects.
WayOn ==
  \/ pc = "boot"
  \/ pc = "mount"                                             \* four tests and an else
  \/ pc = "start_wifi" /\ Scripts \notin files
  \/ pc = "start_wifi" /\ Scripts \in files
  \/ pc \in {"wait_frontend", "read", "decide", "clean_and_reboot"}
  \/ pc = "find_usb" /\ usb
  \/ pc = "find_usb" /\ ~ usb
  \/ pc = "swupdate" /\ (branch = "net" => misc = "url")
  \/ At("net", "swupdate") /\ misc # "url"
  \/ pc = "write" /\ system # "partial"
  \/ pc = "write" /\ system = "partial"
  \/ pc \in {"set_version", "unset"}
  \/ At("local", "exit") /\ code # 0
  \/ At("local", "exit") /\ code = 0
  \/ At("net", "exit") \/ At("dvb", "exit") \/ At("usb", "exit")
  \/ pc = "rm_dir" /\ branch \in {"net", "dvb"} /\ files \cap Names # {}
  \/ pc = "rm_dir" /\ branch \in {"net", "dvb"} /\ files = {}

\* Where a guard is true its action has a step that changes something.  That is plain
\* from the actions, each of which is a guard and an assignment to every variable.
GuardsSuffice == WayOn => ENABLED <<Boot \/ swupdate \/ swupdate_sh>>_vars

LEMMA AlwaysAWayOn ==
  ASSUME IInv, Route, Underway
  PROVE  WayOn
<1>1. pc \in {"boot", "mount", "swupdate", "write", "set_version", "unset", "exit",
             "clean_and_reboot", "start_wifi", "decide", "rm_dir", "read",
             "wait_frontend", "find_usb"}
  BY DEFS IInv, TypeOK, FilesOK, Underway, Normal
<1>2. pc = "exit" => branch \in {"local", "net", "dvb", "usb"}
  BY DEFS IInv, TypeOK, FilesOK, Route
<1>3. pc = "rm_dir" => branch \in {"net", "dvb"}
  BY DEF Route
<1>4. files \cap Names # {} \/ files = {}
  BY DEFS IInv, TypeOK, FilesOK
<1> QED
  BY <1>1, <1>2, <1>3, <1>4 DEFS WayOn, At

\* Files of the directory that are still to be removed, when none of them is the mark.
Left ==
    (IF NetFlag \in files THEN 1 ELSE 0)
  + (IF DvbFlag \in files THEN 1 ELSE 0)
  + (IF Scripts \in files THEN 1 ELSE 0)

NoRequest == NetFlag \notin files /\ DvbFlag \notin files

\* A local package or a USB stick is served last: what comes after it is the normal
\* system or the operator.
Last == branch \in {"local", "usb"}

\* Steps that are left, at most.  A request from the network or from a broadcast is
\* removed after its attempt, and the recovery system is started once more.
Rank ==
  CASE pc = "boot"       -> IF ~ WantsRecovery THEN 1 ELSE IF NoRequest THEN 11 ELSE 26
    [] pc = "mount"      -> IF NoRequest THEN 10 ELSE 25
    [] pc \in {"start_wifi", "wait_frontend"} -> 24
    [] pc = "find_usb"   -> 9
    [] pc = "swupdate"   -> IF Last THEN 8 ELSE 23
    [] pc = "write"      -> (IF Last THEN 6 ELSE 21) + (IF system = "partial" THEN 0 ELSE 1)
    [] pc = "set_version" -> IF Last THEN 5 ELSE 20
    [] pc = "unset"      -> IF Last THEN 4 ELSE 19
    [] pc = "exit"       -> IF Last THEN 3 ELSE 18
    [] pc = "decide"     -> 17
    [] pc = "read"       -> IF branch = "dvb" THEN 17 ELSE 12
    [] pc = "rm_dir"     -> 13 + Left
    [] pc = "clean_and_reboot" -> IF branch = "local" THEN 2 ELSE 12
    [] OTHER             -> 0

LEMMA RouteInit == Init => Route
  BY DEFS Init, Route

\* A power cut leaves the boot stage nothing to remember; each label hands on what the
\* next one knows.
LEMMA RouteStep ==
  ASSUME IInv, Route, [Next]_vars
  PROVE  Route'
<1> USE DEFS Route, IInv, TypeOK, FilesOK
<1>1. CASE NormalSystem
  BY <1>1 DEFS NormalSystem, Request, UpdateFirmware, BackupInfo, CopyInfo, WriteUrl,
     WriteServer, WriteMisc, ClearForDvb, WriteDvb, RebootRecovery, RemoveOne
<1>2. CASE swupdate
  BY <1>2 DEFS swupdate, StartInstall, RefuseInstall, NoUrl, Write, WriteFails, WriteEnds,
     SetVersion, UnsetTransaction, Exits
<1>3. CASE Boot \/ PowerCut \/ PowerCycle \/ UNCHANGED vars
  <2>1. CASE Boot
    BY <2>1 DEF Boot
  <2>2. CASE PowerCut
    BY <2>2 DEF PowerCut
  <2>3. CASE PowerCycle
    BY <2>3 DEF PowerCycle
  <2>4. CASE UNCHANGED vars
    BY <2>4 DEF vars
  <2> QED
    BY <1>3, <2>1, <2>2, <2>3, <2>4
<1>4. CASE MountFails \/ ChooseLocal \/ ChooseNetwork \/ ChooseDvb \/ ChooseUsb
  BY <1>4 DEFS MountFails, ChooseLocal, ChooseNetwork, ChooseDvb, ChooseUsb, Choose
<1>5. CASE LocalFailed \/ RemovePackage \/ CleanAndReboot
  BY <1>5 DEFS LocalFailed, RemovePackage, CleanAndReboot, CleanMisc, TransactionOpen
<1>6. CASE NoScripts \/ NetworkReady \/ NotReady \/ Decide \/ KeyPressed \/ NetReboot
  BY <1>6 DEFS NoScripts, NetworkReady, NotReady, Decide, Keep, CleanMisc, KeyPressed,
     NetReboot
<1>7. CASE NetResult
  BY <1>7 DEF NetResult
<1>8. CASE RemoveRequest \/ DvbRemoveRequest
  BY <1>8 DEFS RemoveRequest, DvbRemoveRequest, RemoveOne
<1>9. CASE NoFrontend \/ DvbOta \/ DvbResult \/ DvbEnds \/ UsbFound \/ NoUsb \/ UsbResult
  BY <1>9 DEFS NoFrontend, DvbOta, DvbResult, DvbEnds, UsbFound, NoUsb, UsbResult, CleanMisc
<1> QED
  BY <1>1, <1>2, <1>3, <1>4, <1>5, <1>6, <1>7, <1>8, <1>9 DEFS Next, swupdate_sh

\* Route is an invariant whatever the power does.
LEMMA RouteInvariance == Spec => [](IInv /\ Route)
  BY RouteInit, RouteStep, Invariance, PTL DEF Spec

\* Whatever power cuts, failed attempts and requests have left behind, a state of boot
\* and recovery is one that some branch of the bootloader, of swupdate or of swupdate.sh
\* tests for: no exit status comes to a script that serves no request, and a directory
\* is removed only by one of the two branches that know what comes next.
THEOREM NoDeadEnd == Spec => [](Underway => WayOn)
<1>1. IInv /\ Route => (Underway => WayOn)
  BY AlwaysAWayOn
<1> QED
  BY <1>1, RouteInvariance, PTL

LEMMA RankIsSmall ==
  ASSUME IInv, Route, Underway
  PROVE  Rank \in 1 .. 26
  BY DEFS IInv, TypeOK, FilesOK, Route, Underway, Rank, Left

LEMMA RankStaysSmall ==
  ASSUME IInv', Route', Underway'
  PROVE  Rank' \in 1 .. 26
  BY DEFS IInv, TypeOK, FilesOK, Route, Underway, Rank, Left

\* Nobody but the boot stages and the scripts of recovery acts while it is under way.
RecoveryStep == Boot \/ swupdate \/ swupdate_sh

Closer == Done' \/ (Underway' /\ Rank' < Rank)

LEMMA RecoveryGetsCloser ==
  ASSUME IInv, Route, Underway, ~ Done, RecoveryStep, vars' # vars
  PROVE  Closer
<1> USE DEFS Closer, Done, Underway, Rank, IInv, TypeOK, FilesOK, Route, Last
<1>1. CASE swupdate
  <2>1. CASE StartInstall \/ RefuseInstall \/ NoUrl
    BY <1>1, <2>1 DEFS StartInstall, RefuseInstall, NoUrl, Exits
  <2>2. CASE Write
    BY <1>1, <2>2 DEFS Write, vars
  <2>3. CASE WriteFails \/ WriteEnds \/ SetVersion \/ UnsetTransaction
    BY <1>1, <2>3 DEFS WriteFails, WriteEnds, SetVersion, UnsetTransaction, Exits
  <2> QED
    BY <1>1, <2>1, <2>2, <2>3 DEF swupdate
<1>2. CASE Boot
  BY <1>2 DEFS Boot, WantsRecovery, NoRequest
<1>3. CASE MountFails \/ ChooseLocal \/ ChooseNetwork \/ ChooseDvb \/ ChooseUsb
  BY <1>3 DEFS MountFails, ChooseLocal, ChooseNetwork, ChooseDvb, ChooseUsb, Choose, NoRequest
<1>4. CASE LocalFailed \/ RemovePackage \/ CleanAndReboot
  BY <1>4 DEFS LocalFailed, RemovePackage, CleanAndReboot, CleanMisc, WantsRecovery, NoRequest
<1>5. CASE NoScripts \/ NetworkReady \/ NotReady \/ Decide \/ KeyPressed \/ NetReboot
  BY <1>5 DEFS NoScripts, NetworkReady, NotReady, Decide, Keep, CleanMisc, KeyPressed,
     NetReboot, WantsRecovery, NoRequest, Left
<1>6. CASE NetResult
  BY <1>6 DEF NetResult
<1>7. CASE RemoveRequest \/ DvbRemoveRequest
  BY <1>7 DEFS RemoveRequest, DvbRemoveRequest, RemoveOne, Left
<1>8. CASE NoFrontend \/ DvbOta \/ DvbResult \/ DvbEnds
  BY <1>8 DEFS NoFrontend, DvbOta, DvbResult, DvbEnds, Left
<1>9. CASE UsbFound \/ NoUsb \/ UsbResult
  BY <1>9 DEFS UsbFound, NoUsb, UsbResult, CleanMisc, WantsRecovery, NoRequest,
     TransactionOpen
<1> QED
  BY <1>1, <1>2, <1>3, <1>4, <1>5, <1>6, <1>7, <1>8, <1>9 DEFS RecoveryStep, swupdate_sh

\* Nobody but boot and the scripts of recovery acts while it is under way.
LEMMA OnlyRecoveryActs ==
  ASSUME IInv, Underway, Next
  PROVE  RecoveryStep \/ PowerCut
<1>1. ~ NormalSystem
  BY DEFS IInv, TypeOK, FilesOK, Underway, NormalSystem, Request, UpdateFirmware, BackupInfo, CopyInfo,
     WriteUrl, WriteServer, WriteMisc, ClearForDvb, WriteDvb, RebootRecovery
<1>2. ~ PowerCycle
  BY DEFS Underway, PowerCycle
<1> QED
  BY <1>1, <1>2 DEFS Next, RecoveryStep

\* From some time on: the power stays on, and boot and recovery take the way on they
\* have.
Steady ==
  /\ [](IInv /\ Route /\ GuardsSuffice)
  /\ [][Next]_vars /\ [][~ PowerCut]_vars
  /\ WF_vars(Boot \/ swupdate \/ swupdate_sh)

Within(n) == Underway /\ Rank <= n

Nears(m, n) == Steady => (Within(m) ~> Done \/ Within(n))

LEMMA OneCloser ==
  ASSUME NEW m \in Nat, NEW n \in Nat, m = n + 1
  PROVE  Nears(m, n)
<1>1. IInv /\ Route /\ Within(m) => Rank \in Int
  BY RankIsSmall DEF Within
<1>2. ASSUME IInv, Route, Within(m), ~ Done, RecoveryStep, vars' # vars
      PROVE  Done' \/ Within(n)'
  <2>1. CASE Done'
    BY <2>1
  <2>2. CASE Underway' /\ Rank' < Rank
    <3>1. IInv' /\ Route'
      BY <1>2, Inductive, RouteStep DEFS RecoveryStep, Next
    <3>2. Rank' \in 1 .. 26
      BY <2>2, <3>1, RankStaysSmall
    <3> DEFINE r == Rank
               s == Rank'
    <3>3. r \in Int /\ r <= m /\ s \in Int /\ s < r
      BY <1>1, <1>2, <2>2, <3>2 DEF Within
    <3> HIDE DEF r, s
    <3>4. s <= n
      BY <3>3
    <3> QED
      BY <2>2, <3>4 DEFS r, s, Within
  <2> QED
    BY <1>2, <2>1, <2>2, RecoveryGetsCloser DEFS Within, Closer
<1>3. IInv /\ Route /\ Within(m) /\ ~ Done /\ [Next]_vars /\ [~ PowerCut]_vars
        => Within(m)' \/ Done' \/ Within(n)'
  <2> SUFFICES ASSUME IInv, Route, Within(m), ~ Done, [Next]_vars, [~ PowerCut]_vars
               PROVE  Within(m)' \/ Done' \/ Within(n)'
    OBVIOUS
  <2>1. CASE vars' # vars
    BY <2>1, <1>2, OnlyRecoveryActs DEF Within
  <2>2. CASE UNCHANGED vars
    BY <2>2 DEFS vars, Within, Underway, Rank, Last, Left, NoRequest, WantsRecovery
  <2> QED
    BY <2>1, <2>2
<1>4. IInv /\ Route /\ Within(m) /\ ~ Done /\ <<Boot \/ swupdate \/ swupdate_sh>>_vars
        => Done' \/ Within(n)'
  BY <1>2 DEF RecoveryStep
<1>5. IInv /\ Route /\ GuardsSuffice /\ Within(m)
        => ENABLED <<Boot \/ swupdate \/ swupdate_sh>>_vars
  BY AlwaysAWayOn DEFS Within, GuardsSuffice
<1> QED
  BY <1>3, <1>4, <1>5, PTL DEFS Nears, Steady

\* Twenty-six steps at most.
LEMMA RecoveryConverges == Steady => (Within(26) ~> Done)
<1>1. /\ Nears(26, 25) /\ Nears(25, 24) /\ Nears(24, 23) /\ Nears(23, 22) /\ Nears(22, 21)
      /\ Nears(21, 20) /\ Nears(20, 19) /\ Nears(19, 18) /\ Nears(18, 17) /\ Nears(17, 16)
      /\ Nears(16, 15) /\ Nears(15, 14) /\ Nears(14, 13)
  BY OneCloser
<1>2. /\ Nears(13, 12) /\ Nears(12, 11) /\ Nears(11, 10) /\ Nears(10, 9) /\ Nears(9, 8)
      /\ Nears(8, 7) /\ Nears(7, 6) /\ Nears(6, 5) /\ Nears(5, 4) /\ Nears(4, 3)
      /\ Nears(3, 2) /\ Nears(2, 1) /\ Nears(1, 0)
  BY OneCloser
<1>3. IInv /\ Route => ~ Within(0)
  BY RankIsSmall DEF Within
<1>4. Steady => (Within(26) ~> Done \/ Within(13))
  BY <1>1, PTL DEF Nears
<1>5. Steady => (Within(13) ~> Done \/ Within(0))
  BY <1>2, PTL DEF Nears
<1> QED
  BY <1>3, <1>4, <1>5, PTL DEF Steady

\* If the power stays on from some time on then the recovery system gets to the normal
\* system or leaves the device to its operator, unless the mark says that an update has
\* to be tried again: a request from the network or from a broadcast is served once and
\* removed, a local one ends it.
THEOREM RecoveryComesToAnEnd ==
  FairSpec /\ []GuardsSuffice /\ <>[][~ PowerCut]_vars => RecoveryEnds
<1>1. IInv /\ Route /\ Underway => Within(26)
  BY RankIsSmall DEF Within
<1>2. IInv /\ Route /\ Underway /\ ~ Done /\ [Next]_vars => Underway' \/ Done'
  <2> SUFFICES ASSUME IInv, Route, Underway, ~ Done, [Next]_vars
               PROVE  Underway' \/ Done'
    OBVIOUS
  <2>1. CASE vars' = vars
    BY <2>1 DEFS vars, Underway
  <2>2. CASE PowerCut
    BY <2>2 DEFS PowerCut, Underway
  <2>3. CASE RecoveryStep /\ vars' # vars
    BY <2>3, RecoveryGetsCloser DEF Closer
  <2> QED
    BY <2>1, <2>2, <2>3, OnlyRecoveryActs
<1>3. pc = "mount" => Underway
  BY DEF Underway
<1> QED
  BY <1>1, <1>2, <1>3, RouteInit, RouteStep, Invariance, RecoveryConverges, PTL
  DEFS FairSpec, Spec, Steady, RecoveryEnds, Done
=============================================================================
