----------------------------- MODULE InitMeson -----------------------------
(***************************************************************************)
(* The data partition in init-meson.sh, the init of the initramfs: every   *)
(* boot looks whether it is formatted and whether a factory reset was      *)
(* asked for, formats it if need be, sets up file-based encryption (FBE)   *)
(* and hands /data to the system.  The power may go at any step and any    *)
(* command may fail; the partition and the factory-reset flag survive, the *)
(* script starts again.  The partition outlives the image: it may be older *)
(* than the FBE of the image that finds it.                                *)
(***************************************************************************)
EXTENDS Integers

CONSTANTS
  MaxFaults,   \* bound on power cuts and on commands that fail
  MaxRequests  \* bound on factory resets

ASSUME BoundsAssumption == MaxFaults \in Nat /\ MaxRequests \in Nat

NoFile == -1  \* there is no fbe_keyblob
Empty  == 0   \* there is one, with nothing in it
NoKey  == 0   \* fbe_root has no policy; the keyring has no key

VARIABLES
  kind,        \* what root_fstype makes of the data partition
  fbeImage,    \* keyctl and fscryptctl are installed
  \* what survives a power cut
  fs,          \* the partition has a file system
  policy,      \* the key whose policy fbe_root has
  blob,        \* the key in fbe_keyblob
  factory_reset,
  data,        \* what the system has written: "plain", in fbe_root ("fbe")
  \* the script
  pc,
  reset,       \* a factory reset made it format
  newly_formatted,
  key,         \* keyring_key_id
  tries,       \* calls of fbe_kernel_keyring_setup that failed
  setup,       \* DATA_FBE_STATUS is "setup"
  mode,        \* where the system's /data is
  \* bounds and history
  faults, requests, keys,
  asked,       \* a reset was asked for and has not erased anything since
  misread,     \* the partition was taken for unformatted though it was not
  flagKept,    \* the script went on with the flag set although the reset was carried out
  refused,     \* the reset's format failed before it erased anything
  excuse       \* why there is no encryption on this file system

image   == <<kind, fbeImage>>
disk    == <<fs, policy, blob, data>>
script  == <<reset, newly_formatted, key, tries, setup, mode>>
history == <<asked, misread, flagKept, refused, excuse>>
vars    == <<image, disk, factory_reset, pc, script, faults, requests, keys, history>>

Goto(from, to) == pc = from /\ pc' = to
Fault == faults < MaxFaults /\ faults' = faults + 1
Bounds == <<requests, keys>>

-----------------------------------------------------------------------------
(* Is there anything to format?  blkid, or the attached volume, or nothing *)

\* uenv get: an answer that does not come counts as "not set".
ReadFlag(v) ==
  \/ v = factory_reset /\ UNCHANGED faults
  \/ factory_reset /\ ~ v /\ Fault

ToFormat ==
  /\ newly_formatted' = (kind = "ext4") /\ reset' = FALSE
  /\ UNCHANGED <<key, tries, setup, mode>>

\* ext4 is looked at before the flag, UBI after.
FindUnformatted ==
  /\ Goto("probe", "format") /\ ~ fs
  /\ \/ kind = "ext4" /\ UNCHANGED faults
     \/ kind = "ubi" /\ ReadFlag(FALSE)
  /\ ToFormat
  /\ UNCHANGED <<image, disk, factory_reset, Bounds, history>>

\* Here, too, an answer that does not come counts as none.
ProbeFails ==
  /\ Fault
  /\ Goto("probe", "format") /\ fs
  /\ kind = "ext4" \/ (kind = "ubi" /\ ~ factory_reset)
  /\ ToFormat
  /\ misread' = TRUE
  /\ UNCHANGED <<image, disk, factory_reset, Bounds, asked, flagKept, refused, excuse>>

\* Mutant of FindReset: the flag is cleared first on every kind of partition.
FindResetClears ==
  /\ Goto("probe", "clear")
  /\ factory_reset
  /\ reset' = TRUE
  /\ UNCHANGED <<image, disk, factory_reset, newly_formatted, key, tries, setup, mode,
                 faults, Bounds, history>>

\* Mutant of FindReset: the flag is not looked at.
FindResetIgnored ==
  /\ Goto("probe", "mount")
  /\ factory_reset
  /\ UNCHANGED <<image, disk, factory_reset, script, faults, Bounds, history>>

\* Mutant of FindReset: value:[0] is taken for a request as well.
FindResetAnyway ==
  /\ Goto("probe", IF kind = "ubi" THEN "clear" ELSE "format")
  /\ kind = "ext4" => fs
  /\ reset' = TRUE
  /\ UNCHANGED <<image, disk, factory_reset, newly_formatted, key, tries, setup, mode,
                 faults, Bounds, history>>

\* ext4 and yaffs2 are erased before the flag is cleared, UBI after.
FindReset ==
  /\ Goto("probe", IF kind = "ubi" THEN "clear" ELSE "format")
  /\ factory_reset /\ (kind = "ext4" => fs)
  /\ reset' = TRUE
  /\ UNCHANGED <<image, disk, factory_reset, newly_formatted, key, tries, setup, mode,
                 faults, Bounds, history>>

FindData ==
  /\ Goto("probe", "mount")
  /\ ReadFlag(FALSE) /\ (fs \/ kind = "yaffs2")
  /\ UNCHANGED <<image, disk, factory_reset, script, Bounds, history>>

ClearFlag ==
  /\ Goto("clear", IF kind = "ubi" THEN "format" ELSE "mount")
  /\ factory_reset' = FALSE /\ flagKept' = (kind = "ubi" /\ flagKept)
  /\ UNCHANGED <<image, disk, script, faults, Bounds, asked, misread, refused, excuse>>

\* The result of uenv set is not looked at: the next boot finds the flag again.
ClearFlagFails ==
  /\ Fault
  /\ Goto("clear", IF kind = "ubi" THEN "format" ELSE "mount")
  /\ UNCHANGED <<image, disk, factory_reset, script, Bounds, history>>

\* The format command erases,
StartFormat ==
  /\ Goto("format", "formatting")
  /\ fs' = FALSE /\ policy' = NoKey /\ blob' = NoFile /\ data' = {}
  /\ asked' = FALSE /\ refused' = FALSE /\ excuse' = {}
  /\ UNCHANGED <<image, factory_reset, script, faults, Bounds, misread, flagKept>>

AfterFormat == IF reset /\ kind # "ubi" THEN "clear" ELSE "mount"

\* or it fails at once and erases nothing, which nobody looks at either.
FormatRefused ==
  /\ Fault
  /\ Goto("format", AfterFormat)
  /\ refused' = (refused \/ reset)
  /\ UNCHANGED <<image, disk, factory_reset, script, Bounds, asked, misread, flagKept, excuse>>

NewExcuse ==
  excuse \cup (IF reset THEN {"reset"} ELSE {}) \cup (IF fbeImage THEN {} ELSE {"old"})

\* Mutant of EndFormat: newly_formatted is set before the partition is looked at again.
EndFormatAsOld ==
  /\ Goto("formatting", AfterFormat)
  /\ fs' = TRUE /\ newly_formatted' = FALSE
  /\ excuse' = NewExcuse
  /\ UNCHANGED <<image, policy, blob, data, factory_reset, reset, key, tries, setup, mode,
                 faults, Bounds, asked, misread, flagKept, refused>>

\* A reset leaves newly_formatted at 0.
EndFormat ==
  /\ Goto("formatting", AfterFormat)
  /\ fs' = TRUE
  /\ excuse' = NewExcuse
  /\ UNCHANGED <<image, policy, blob, data, factory_reset, script, faults, Bounds,
                 asked, misread, flagKept, refused>>

\* It fails with the old file system gone and the new one not there.
FormatFails ==
  /\ Fault
  /\ Goto("formatting", AfterFormat)
  /\ UNCHANGED <<image, disk, factory_reset, script, Bounds, history>>

KeepsFlag == flagKept' = (flagKept \/ (factory_reset /\ ~ asked))

\* ext4 that cannot be mounted is fatal; the others go on without /data.
Mount ==
  /\ pc = "mount"
  /\ pc' = CASE kind = "ext4" /\ ~ fs            -> "fatal"
             [] kind = "ext4" /\ fs /\ fbeImage -> "key"
             [] OTHER                            -> "bind"
  /\ KeepsFlag
  /\ UNCHANGED <<image, disk, factory_reset, script, faults, Bounds,
                 asked, misread, refused, excuse>>

\* A file system that is there may fail to mount as well.
MountFails ==
  /\ Fault /\ (kind = "ext4" => fs)
  /\ Goto("mount", IF kind = "ext4" THEN "fatal" ELSE "up")
  /\ KeepsFlag
  /\ excuse' = IF newly_formatted THEN excuse \cup {"key"} ELSE excuse
  /\ UNCHANGED <<image, disk, factory_reset, script, Bounds, asked, misread, refused>>

Format ==
  \/ FindUnformatted \/ ProbeFails \/ FindReset \/ FindData \/ ClearFlag \/ ClearFlagFails
  \/ StartFormat \/ EndFormat \/ FormatRefused \/ FormatFails \/ Mount \/ MountFails

-----------------------------------------------------------------------------
(* data_fbe_setup *)

\* keyctl add trusted: a new key for a new file system,
NewKey ==
  /\ Goto("key", "policy") /\ newly_formatted
  /\ keys' = keys + 1 /\ key' = keys'
  /\ UNCHANGED <<image, disk, factory_reset, reset, newly_formatted, tries, setup, mode,
                 faults, requests, history>>

\* else the saved one,
LoadKey ==
  /\ Goto("key", "policy") /\ ~ newly_formatted /\ blob \notin {NoFile, Empty}
  /\ key' = blob
  /\ UNCHANGED <<image, disk, factory_reset, reset, newly_formatted, tries, setup, mode,
                 faults, Bounds, history>>

\* and without one there is no encryption on this system.
NoSealedKey ==
  /\ Goto("key", "bind") /\ ~ newly_formatted /\ blob = NoFile
  /\ UNCHANGED <<image, disk, factory_reset, script, faults, Bounds, history>>

\* One more try, after the kernel modules were looked for.
KeyFails ==
  /\ pc = "key" /\ pc' = IF tries = 0 THEN "key" ELSE "bind"
  /\ IF ~ newly_formatted /\ blob = Empty THEN UNCHANGED faults
     ELSE Fault /\ (newly_formatted \/ blob # NoFile)
  /\ tries' = tries + 1
  /\ excuse' = excuse \cup {"key"}
  /\ UNCHANGED <<image, disk, factory_reset, reset, newly_formatted, key, setup, mode,
                 Bounds, asked, misread, flagKept, refused>>

\* Mutant of SetPolicy: the key of a new file system is not saved.
SetPolicyOnly ==
  /\ Goto("policy", "bind") /\ policy \in {NoKey, key}
  /\ policy' = key
  /\ setup' = TRUE
  /\ UNCHANGED <<image, fs, blob, data, factory_reset, reset, newly_formatted, key, tries,
                 mode, faults, Bounds, history>>

\* fscryptctl set_policy; a directory keeps the policy it has.
SetPolicy ==
  /\ Goto("policy", IF newly_formatted THEN "save" ELSE "bind") /\ policy \in {NoKey, key}
  /\ policy' = key
  /\ setup' = ~ newly_formatted
  /\ UNCHANGED <<image, fs, blob, data, factory_reset, reset, newly_formatted, key, tries,
                 mode, faults, Bounds, history>>

PolicyFails ==
  /\ Goto("policy", "bind")
  /\ IF policy \in {NoKey, key} THEN Fault ELSE UNCHANGED faults
  /\ excuse' = excuse \cup {"key"}
  /\ UNCHANGED <<image, disk, factory_reset, script, Bounds, asked, misread, flagKept, refused>>

\* `keyctl pipe > fbe_keyblob` makes the file whether or not it has something to write.
SaveKey ==
  /\ Goto("save", "sync")
  /\ \/ blob' = key /\ UNCHANGED <<faults, excuse>>
     \/ blob' = Empty /\ Fault /\ excuse' = excuse \cup {"key"}
  /\ UNCHANGED <<image, fs, policy, data, factory_reset, script, Bounds,
                 asked, misread, flagKept, refused>>

Sync ==
  /\ Goto("sync", "bind")
  /\ setup' = (blob = key)
  /\ UNCHANGED <<image, disk, factory_reset, reset, newly_formatted, key, tries, mode,
                 faults, Bounds, history>>

data_fbe_setup ==
  NewKey \/ LoadKey \/ NoSealedKey \/ KeyFails \/ SetPolicy \/ PolicyFails \/ SaveKey \/ Sync

\* data_fbe_bind, or the whole partition is moved to /data.
Bind ==
  /\ Goto("bind", "up")
  /\ \/ mode' = (IF ~ fs /\ kind = "ubi" THEN "none" ELSE IF setup THEN "fbe" ELSE "plain")
        /\ UNCHANGED <<faults, excuse>>
     \/ setup /\ Fault /\ mode' = "plain" /\ excuse' = excuse \cup {"key"}
  /\ UNCHANGED <<image, disk, factory_reset, reset, newly_formatted, key, tries, setup,
                 Bounds, asked, misread, flagKept, refused>>

init_meson == Format \/ data_fbe_setup \/ Bind

-----------------------------------------------------------------------------
(* The system that was booted, and the power supply *)

WriteData ==
  /\ pc = "up" /\ mode # "none"
  /\ data' = data \cup {mode}
  /\ UNCHANGED <<image, fs, policy, blob, factory_reset, pc, script, faults, Bounds, history>>

RequestReset ==
  /\ pc = "up" /\ requests < MaxRequests
  /\ requests' = requests + 1
  /\ factory_reset' = TRUE /\ asked' = TRUE /\ refused' = FALSE
  /\ UNCHANGED <<image, disk, pc, script, faults, keys, misread, flagKept, excuse>>

Restart ==
  /\ pc' = "probe"
  /\ reset' = FALSE /\ newly_formatted' = FALSE /\ key' = NoKey /\ tries' = 0
  /\ setup' = FALSE /\ mode' = "none" /\ misread' = FALSE
  /\ flagKept' = (flagKept /\ factory_reset)
  /\ UNCHANGED <<kind, fs, data, factory_reset, Bounds, asked, refused>>

\* By the system, or by somebody who finds the shell of fatal().
Reboot ==
  /\ pc \in {"up", "fatal"}
  /\ Restart
  /\ UNCHANGED <<fbeImage, policy, blob, faults, excuse>>

\* swupdate writes another image, with FBE or without; the data partition stays.
Update ==
  /\ pc = "up"
  /\ fbeImage' = ~ fbeImage
  /\ Restart
  /\ UNCHANGED <<policy, blob, faults, excuse>>

\* What was not synced may be lost, the newer before the older.
PowerCut ==
  /\ Fault /\ pc \notin {"up", "fatal", "probe"}
  /\ Restart /\ UNCHANGED fbeImage
  /\ CASE pc = "save" -> policy' \in {NoKey, policy} /\ UNCHANGED blob
       [] pc = "sync" -> \/ policy' \in {NoKey, policy} /\ blob' = NoFile
                         \/ UNCHANGED policy /\ blob' \in {Empty, blob}
       [] OTHER       -> UNCHANGED <<policy, blob>>
  /\ excuse' = IF newly_formatted THEN excuse \cup {"cut"} ELSE excuse

Outside == WriteData \/ RequestReset \/ Reboot \/ Update \/ PowerCut

Init ==
  /\ kind \in {"ext4", "ubi", "yaffs2"} /\ fbeImage \in BOOLEAN
  /\ fs = FALSE /\ policy = NoKey /\ blob = NoFile
  /\ factory_reset = FALSE /\ data = {}
  /\ pc = "probe" /\ reset = FALSE /\ newly_formatted = FALSE /\ key = NoKey /\ tries = 0
  /\ setup = FALSE /\ mode = "none"
  /\ faults = 0 /\ requests = 0 /\ keys = 0
  /\ asked = FALSE /\ misread = FALSE /\ flagKept = FALSE /\ refused = FALSE
  /\ excuse = {}

Next == init_meson \/ Outside

Spec == Init /\ [][Next]_vars

\* Whoever asks for a reset restarts the device, and so does who finds it dead.
Restarted == (factory_reset \/ pc = "fatal") /\ Reboot

\* The script goes on.
FairSpec == Spec /\ WF_vars(init_meson) /\ WF_vars(Restarted)

-----------------------------------------------------------------------------
(* Properties *)

Labels == {"probe", "format", "formatting", "clear", "mount", "fatal", "key", "policy",
           "save", "sync", "bind", "up"}

\* Types.  fbe_kernel_keyring_setup is called twice at most.
TypeOK ==
  /\ kind \in {"ext4", "ubi", "yaffs2"} /\ fbeImage \in BOOLEAN
  /\ fs \in BOOLEAN /\ policy \in Nat /\ blob \in Nat \cup {NoFile}
  /\ factory_reset \in BOOLEAN /\ data \in SUBSET {"plain", "fbe"}
  /\ pc \in Labels
  /\ reset \in BOOLEAN /\ newly_formatted \in BOOLEAN /\ key \in Nat /\ tries \in 0 .. 2
  /\ setup \in BOOLEAN /\ mode \in {"none", "plain", "fbe"}
  /\ faults \in 0 .. MaxFaults /\ requests \in 0 .. MaxRequests /\ keys \in Nat
  /\ asked \in BOOLEAN /\ misread \in BOOLEAN /\ flagKept \in BOOLEAN
  /\ refused \in BOOLEAN
  /\ excuse \in SUBSET {"reset", "cut", "key", "old"}

\* What data_fbe_setup has encrypted can be read after any power cut and any failure:
\* the key of fbe_root's policy is in fbe_keyblob.
KeyIsKept == "fbe" \in data => policy # NoKey /\ blob = policy

\* A reset that was asked for and has erased nothing yet has its flag, except on UBI,
\* where the flag is cleared before the partition is formatted and a power cut in
\* between leaves the data, and except when the format command failed before it erased
\* anything: the flag is cleared all the same, and nobody knows of the reset any more.
ResetIsRemembered == asked /\ ~ factory_reset => kind = "ubi" \/ refused

\* The script erases data only for a reset, except that it takes a partition it could
\* not read for unformatted, and that a reset may be carried out twice: an earlier boot
\* has gone on with the flag set although the reset had been carried out, as the flag
\* could not be cleared, or could not be read, or was not looked at when ext4 without
\* a file system, as a cut in the reset leaves it, was formatted.
DataIsErasedOnRequest ==
  [][data # {} /\ data' = {} => asked \/ misread \/ flagKept]_vars

\* On an image with FBE the system gets an unencrypted /data only on a file system that
\* a factory reset made, or an image without FBE; or after a power cut while the key of
\* a new file system was set up, or a failed command.
PlainIsExplained ==
  pc = "up" /\ kind = "ext4" /\ fbeImage /\ mode = "plain" => excuse # {}

\* Fails.  data_fbe_setup is told of a partition that was just formatted, so the system
\* on a new file system has encryption unless something failed: but after a reset
\* newly_formatted is still 0, there is no saved key, and /data is not encrypted.
NewFileSystemIsEncrypted ==
  pc = "up" /\ kind = "ext4" /\ fbeImage /\ mode = "plain" =>
    excuse \cap {"cut", "key", "old"} # {}

\* A reset whose flag is set is carried out or, in the cases of ResetIsRemembered,
\* forgotten.
ResetIsCarriedOut ==
  asked /\ factory_reset ~> ~ asked \/ (~ factory_reset /\ (kind = "ubi" \/ refused))
=============================================================================
