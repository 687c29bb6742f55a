-------------------------- MODULE InitMeson_proofs --------------------------
(***************************************************************************)
(* Theorems about InitMeson, for any number of power cuts, failures and    *)
(* factory resets: the key of encrypted data is never lost, data is erased *)
(* only on request or by a named mistake, and an unencrypted /data has an  *)
(* explanation.                                                            *)
(***************************************************************************)
EXTENDS InitMeson, TLAPS

-----------------------------------------------------------------------------
(* The invariant *)

\* What the script knows at each of its steps.
Progress ==
  /\ pc = "probe" => ~ newly_formatted
  /\ pc \in {"probe", "format", "formatting", "clear", "mount"} => tries = 0
  /\ pc = "key" => tries < 2
  /\ pc \in {"key", "policy", "save", "sync"} \/ setup => kind = "ext4"
  /\ pc \in {"key", "policy", "save", "sync", "bind", "up"} /\ kind = "ext4" => fs
  /\ pc \in {"save", "sync"} => newly_formatted
  /\ mode # "none" => pc = "up"
  /\ pc \in {"format", "formatting"} /\ kind = "ext4" /\ ~ reset => newly_formatted

\* A new key goes to a directory without encrypted data only, and is safe before there
\* is any; the key of an old one is the saved one.
KeyInv ==
  /\ policy <= keys /\ blob <= keys
  /\ pc \in {"policy", "save", "sync"} => key # NoKey /\ key <= keys
  /\ pc = "policy" /\ newly_formatted => policy # key
  /\ pc = "policy" /\ ~ newly_formatted => blob = key
  /\ pc \in {"save", "sync"} => policy = key /\ "fbe" \notin data
  /\ setup => pc \in {"bind", "up"} /\ policy # NoKey /\ blob = policy
  /\ mode = "fbe" => pc = "up" /\ setup
  /\ KeyIsKept

\* Who has asked for what is about to be erased.
EraseInv ==
  /\ data # {} /\ ~ fs => kind = "yaffs2"
  /\ pc = "up" /\ kind = "ubi" /\ ~ fs => mode = "none"
  /\ pc = "formatting" => ~ asked
  /\ pc = "clear" /\ kind # "ubi" => ~ asked \/ refused
  /\ factory_reset /\ ~ asked /\ ~ flagKept =>
       data = {} /\ pc \in {"probe", "format", "formatting", "clear", "mount"}
  /\ pc = "format" /\ data # {} => asked \/ misread \/ flagKept
  /\ pc = "clear" /\ kind = "ubi" /\ data # {} => asked \/ flagKept
  /\ ResetIsRemembered

\* A file system without a key that could be loaded is new or has an excuse.
PlainInv ==
  /\ kind = "ext4" /\ fs /\ excuse = {} =>
       \/ blob \notin {NoFile, Empty}
       \/ newly_formatted /\ fbeImage /\ pc \in {"mount", "key", "policy", "save"}
  /\ pc = "sync" /\ blob # key => excuse # {}
  /\ pc = "bind" /\ kind = "ext4" /\ fbeImage /\ ~ setup => excuse # {}
  /\ PlainIsExplained

IInv == TypeOK /\ Progress /\ KeyInv /\ EraseInv /\ PlainInv
-----------------------------------------------------------------------------
(* Every step keeps it, part by part *)

DiskType ==
  /\ kind \in {"ext4", "ubi", "yaffs2"} /\ fbeImage \in BOOLEAN
  /\ fs \in BOOLEAN /\ policy \in Nat /\ blob \in Nat \cup {NoFile}
  /\ factory_reset \in BOOLEAN /\ data \in SUBSET {"plain", "fbe"}

ScriptType ==
  /\ pc \in Labels
  /\ reset \in BOOLEAN /\ newly_formatted \in BOOLEAN /\ setup \in BOOLEAN

KeyType == key \in Nat /\ tries \in 0 .. 2 /\ mode \in {"none", "plain", "fbe"}

CountType == faults \in 0 .. MaxFaults /\ requests \in 0 .. MaxRequests /\ keys \in Nat

HistoryType ==
  /\ asked \in BOOLEAN /\ misread \in BOOLEAN /\ flagKept \in BOOLEAN /\ refused \in BOOLEAN
  /\ excuse \in SUBSET {"reset", "cut", "key", "old"}

LEMMA TypeStep ==
  ASSUME TypeOK, Progress, [Next]_vars
  PROVE  TypeOK'
<1> USE DEF TypeOK, Progress, Labels, image, disk, script, history, Bounds, NoFile, Empty, NoKey
<1>1. CASE FindUnformatted
  <2>1. DiskType'
    BY <1>1, BoundsAssumption DEF DiskType, FindUnformatted, ToFormat, ReadFlag, Fault, Goto
  <2>2. ScriptType'
    BY <1>1, BoundsAssumption DEF ScriptType, FindUnformatted, ToFormat, ReadFlag, Fault, Goto
  <2>3. KeyType'
    BY <1>1, BoundsAssumption DEF KeyType, FindUnformatted, ToFormat, ReadFlag, Fault, Goto
  <2>4. CountType'
    BY <1>1, BoundsAssumption DEF CountType, FindUnformatted, ToFormat, ReadFlag, Fault, Goto
  <2>5. HistoryType'
    BY <1>1, BoundsAssumption DEF HistoryType, FindUnformatted, ToFormat, ReadFlag, Fault, Goto
  <2> QED
    BY <2>1, <2>2, <2>3, <2>4, <2>5, Zenon DEF DiskType, ScriptType, KeyType, CountType, HistoryType
<1>2. CASE ProbeFails
  <2>1. DiskType'
    BY <1>2, BoundsAssumption DEF DiskType, ProbeFails, ToFormat, Fault, Goto
  <2>2. ScriptType'
    BY <1>2, BoundsAssumption DEF ScriptType, ProbeFails, ToFormat, Fault, Goto
  <2>3. KeyType'
    BY <1>2, BoundsAssumption DEF KeyType, ProbeFails, ToFormat, Fault, Goto
  <2>4. CountType'
    BY <1>2, BoundsAssumption DEF CountType, ProbeFails, ToFormat, Fault, Goto
  <2>5. HistoryType'
    BY <1>2, BoundsAssumption DEF HistoryType, ProbeFails, ToFormat, Fault, Goto
  <2> QED
    BY <2>1, <2>2, <2>3, <2>4, <2>5, Zenon DEF DiskType, ScriptType, KeyType, CountType, HistoryType
<1>3. CASE FindReset
  BY <1>3, BoundsAssumption DEF FindReset, Goto
<1>4. CASE FindData
  BY <1>4, BoundsAssumption DEF FindData, ReadFlag, Fault, Goto
<1>5. CASE ClearFlag
  BY <1>5, BoundsAssumption DEF ClearFlag, Goto
<1>6. CASE StartFormat
  BY <1>6, BoundsAssumption DEF StartFormat, Goto
<1>7. CASE EndFormat
  <2>1. DiskType'
    BY <1>7, BoundsAssumption DEF DiskType, EndFormat, AfterFormat, NewExcuse, Goto
  <2>2. ScriptType'
    BY <1>7, BoundsAssumption DEF ScriptType, EndFormat, AfterFormat, NewExcuse, Goto
  <2>3. KeyType'
    BY <1>7, BoundsAssumption DEF KeyType, EndFormat, AfterFormat, NewExcuse, Goto
  <2>4. CountType'
    BY <1>7, BoundsAssumption DEF CountType, EndFormat, AfterFormat, NewExcuse, Goto
  <2>5. HistoryType'
    BY <1>7, BoundsAssumption DEF HistoryType, EndFormat, AfterFormat, NewExcuse, Goto
  <2> QED
    BY <2>1, <2>2, <2>3, <2>4, <2>5, Zenon DEF DiskType, ScriptType, KeyType, CountType, HistoryType
<1>8. CASE FormatFails
  BY <1>8, BoundsAssumption DEF FormatFails, AfterFormat, Fault, Goto
<1>9. CASE Mount
  BY <1>9, BoundsAssumption DEF Mount, KeepsFlag
<1>10. CASE NewKey
  BY <1>10, BoundsAssumption DEF NewKey, Goto
<1>11. CASE LoadKey
  BY <1>11, BoundsAssumption DEF LoadKey, Goto
<1>12. CASE NoSealedKey
  BY <1>12, BoundsAssumption DEF NoSealedKey, Goto
<1>13. CASE KeyFails
  BY <1>13, BoundsAssumption DEF KeyFails, Fault
<1>14. CASE SetPolicy
  BY <1>14, BoundsAssumption DEF SetPolicy, Goto
<1>15. CASE PolicyFails
  BY <1>15, BoundsAssumption DEF PolicyFails, Fault, Goto
<1>16. CASE SaveKey
  <2>1. DiskType'
    BY <1>16, BoundsAssumption DEF DiskType, SaveKey, Fault, Goto
  <2>2. ScriptType'
    BY <1>16, BoundsAssumption DEF ScriptType, SaveKey, Fault, Goto
  <2>3. KeyType'
    BY <1>16, BoundsAssumption DEF KeyType, SaveKey, Fault, Goto
  <2>4. CountType'
    BY <1>16, BoundsAssumption DEF CountType, SaveKey, Fault, Goto
  <2>5. HistoryType'
    BY <1>16, BoundsAssumption DEF HistoryType, SaveKey, Fault, Goto
  <2> QED
    BY <2>1, <2>2, <2>3, <2>4, <2>5, Zenon DEF DiskType, ScriptType, KeyType, CountType, HistoryType
<1>17. CASE Sync
  BY <1>17, BoundsAssumption DEF Sync, Goto
<1>18. CASE Bind
  <2>1. DiskType'
    BY <1>18, BoundsAssumption DEF DiskType, Bind, Fault, Goto
  <2>2. ScriptType'
    BY <1>18, BoundsAssumption DEF ScriptType, Bind, Fault, Goto
  <2>3. KeyType'
    BY <1>18, BoundsAssumption DEF KeyType, Bind, Fault, Goto
  <2>4. CountType'
    BY <1>18, BoundsAssumption DEF CountType, Bind, Fault, Goto
  <2>5. HistoryType'
    BY <1>18, BoundsAssumption DEF HistoryType, Bind, Fault, Goto
  <2> QED
    BY <2>1, <2>2, <2>3, <2>4, <2>5, Zenon DEF DiskType, ScriptType, KeyType, CountType, HistoryType
<1>19. CASE WriteData
  BY <1>19, BoundsAssumption DEF WriteData
<1>20. CASE RequestReset
  <2>1. DiskType'
    BY <1>20, BoundsAssumption DEF DiskType, RequestReset
  <2>2. ScriptType'
    BY <1>20, BoundsAssumption DEF ScriptType, RequestReset
  <2>3. KeyType'
    BY <1>20, BoundsAssumption DEF KeyType, RequestReset
  <2>4. CountType'
    BY <1>20, BoundsAssumption DEF CountType, RequestReset
  <2>5. HistoryType'
    BY <1>20, BoundsAssumption DEF HistoryType, RequestReset
  <2> QED
    BY <2>1, <2>2, <2>3, <2>4, <2>5, Zenon DEF DiskType, ScriptType, KeyType, CountType, HistoryType
<1>21. CASE Reboot
  <2>1. DiskType'
    BY <1>21, BoundsAssumption DEF DiskType, Reboot, Restart
  <2>2. ScriptType'
    BY <1>21, BoundsAssumption DEF ScriptType, Reboot, Restart
  <2>3. KeyType'
    BY <1>21, BoundsAssumption DEF KeyType, Reboot, Restart
  <2>4. CountType'
    BY <1>21, BoundsAssumption DEF CountType, Reboot, Restart
  <2>5. HistoryType'
    BY <1>21, BoundsAssumption DEF HistoryType, Reboot, Restart
  <2> QED
    BY <2>1, <2>2, <2>3, <2>4, <2>5, Zenon DEF DiskType, ScriptType, KeyType, CountType, HistoryType
<1>22. CASE PowerCut
  <2>1. DiskType'
    BY <1>22, BoundsAssumption DEF DiskType, PowerCut, Restart, Fault
  <2>2. ScriptType'
    BY <1>22, BoundsAssumption DEF ScriptType, PowerCut, Restart, Fault
  <2>3. KeyType'
    BY <1>22, BoundsAssumption DEF KeyType, PowerCut, Restart, Fault
  <2>4. CountType'
    BY <1>22, BoundsAssumption DEF CountType, PowerCut, Restart, Fault
  <2>5. HistoryType'
    BY <1>22, BoundsAssumption DEF HistoryType, PowerCut, Restart, Fault
  <2> QED
    BY <2>1, <2>2, <2>3, <2>4, <2>5, Zenon DEF DiskType, ScriptType, KeyType, CountType, HistoryType
<1>23. CASE ClearFlagFails
  BY <1>23, BoundsAssumption DEF ClearFlagFails, Fault, Goto
<1>24. CASE FormatRefused
  BY <1>24, BoundsAssumption DEF FormatRefused, AfterFormat, Fault, Goto
<1>25. CASE MountFails
  <2>1. DiskType'
    BY <1>25, BoundsAssumption DEF DiskType, MountFails, KeepsFlag, Fault, Goto
  <2>2. ScriptType'
    BY <1>25, BoundsAssumption DEF ScriptType, MountFails, KeepsFlag, Fault, Goto
  <2>3. KeyType'
    BY <1>25, BoundsAssumption DEF KeyType, MountFails, KeepsFlag, Fault, Goto
  <2>4. CountType'
    BY <1>25, BoundsAssumption DEF CountType, MountFails, KeepsFlag, Fault, Goto
  <2>5. HistoryType'
    BY <1>25, BoundsAssumption DEF HistoryType, MountFails, KeepsFlag, Fault, Goto
  <2> QED
    BY <2>1, <2>2, <2>3, <2>4, <2>5, Zenon DEF DiskType, ScriptType, KeyType, CountType, HistoryType
<1>26. CASE Update
  <2>1. DiskType'
    BY <1>26, BoundsAssumption DEF DiskType, Update, Restart
  <2>2. ScriptType'
    BY <1>26, BoundsAssumption DEF ScriptType, Update, Restart
  <2>3. KeyType'
    BY <1>26, BoundsAssumption DEF KeyType, Update, Restart
  <2>4. CountType'
    BY <1>26, BoundsAssumption DEF CountType, Update, Restart
  <2>5. HistoryType'
    BY <1>26, BoundsAssumption DEF HistoryType, Update, Restart
  <2> QED
    BY <2>1, <2>2, <2>3, <2>4, <2>5, Zenon DEF DiskType, ScriptType, KeyType, CountType, HistoryType
<1>27. CASE UNCHANGED vars
  BY <1>27 DEF vars
<1> QED
  BY <1>1, <1>2, <1>3, <1>4, <1>5, <1>6, <1>7, <1>8, <1>9, <1>10, <1>11, <1>12, <1>13,
     <1>14, <1>15, <1>16, <1>17, <1>18, <1>19, <1>20, <1>21, <1>22, <1>23,
     <1>24, <1>25, <1>26, <1>27
  DEF Next, init_meson, Format, data_fbe_setup, Outside

LEMMA ProgressStep ==
  ASSUME TypeOK, Progress, KeyInv, [Next]_vars
  PROVE  Progress'
<1> USE DEF TypeOK, Progress, KeyInv, image, disk, script, history, Bounds
<1>1. CASE FindUnformatted
  BY <1>1 DEF FindUnformatted, ToFormat, ReadFlag, Fault, Goto
<1>2. CASE ProbeFails
  BY <1>2 DEF ProbeFails, ToFormat, Fault, Goto
<1>3. CASE FindReset
  BY <1>3 DEF FindReset, Goto
<1>4. CASE FindData
  BY <1>4 DEF FindData, ReadFlag, Fault, Goto
<1>5. CASE ClearFlag
  BY <1>5 DEF ClearFlag, Goto
<1>6. CASE StartFormat
  BY <1>6 DEF StartFormat, Goto
<1>7. CASE EndFormat
  BY <1>7 DEF EndFormat, AfterFormat, NewExcuse, Goto
<1>8. CASE FormatFails
  BY <1>8 DEF FormatFails, AfterFormat, Fault, Goto
<1>9. CASE Mount
  <2>1. /\ pc = "mount" /\ kind' = kind /\ fs' = fs /\ setup' = setup /\ tries' = tries
        /\ pc' \in {"fatal", "bind", "key"}
        /\ pc' # "fatal" /\ kind = "ext4" => fs
        /\ pc' = "key" => kind = "ext4"
    BY <1>9 DEF Mount, KeepsFlag
  <2> QED
    BY <1>9, <2>1 DEF Mount, KeepsFlag
<1>10. CASE NewKey
  BY <1>10 DEF NewKey, Goto
<1>11. CASE LoadKey
  BY <1>11 DEF LoadKey, Goto
<1>12. CASE NoSealedKey
  BY <1>12 DEF NoSealedKey, Goto
<1>13. CASE KeyFails
  BY <1>13 DEF KeyFails, Fault
<1>14. CASE SetPolicy
  BY <1>14 DEF SetPolicy, Goto
<1>15. CASE PolicyFails
  BY <1>15 DEF PolicyFails, Fault, Goto
<1>16. CASE SaveKey
  BY <1>16 DEF SaveKey, Fault, Goto
<1>17. CASE Sync
  BY <1>17 DEF Sync, Goto
<1>18. CASE Bind
  BY <1>18 DEF Bind, Fault, Goto
<1>19. CASE WriteData
  BY <1>19 DEF WriteData
<1>20. CASE RequestReset
  BY <1>20 DEF RequestReset
<1>21. CASE Reboot
  BY <1>21 DEF Reboot, Restart
<1>22. CASE PowerCut
  BY <1>22 DEF PowerCut, Restart, Fault
<1>23. CASE ClearFlagFails
  BY <1>23 DEF ClearFlagFails, Fault, Goto
<1>24. CASE FormatRefused
  BY <1>24 DEF FormatRefused, AfterFormat, Fault, Goto
<1>25. CASE MountFails
  BY <1>25 DEF MountFails, KeepsFlag, Fault, Goto
<1>26. CASE Update
  BY <1>26 DEF Update, Restart
<1>27. CASE UNCHANGED vars
  BY <1>27 DEF vars
<1> QED
  BY <1>1, <1>2, <1>3, <1>4, <1>5, <1>6, <1>7, <1>8, <1>9, <1>10, <1>11, <1>12, <1>13,
     <1>14, <1>15, <1>16, <1>17, <1>18, <1>19, <1>20, <1>21, <1>22, <1>23,
     <1>24, <1>25, <1>26, <1>27
  DEF Next, init_meson, Format, data_fbe_setup, Outside

LEMMA KeyStep ==
  ASSUME TypeOK, Progress, KeyInv, [Next]_vars
  PROVE  KeyInv'
<1> USE DEF TypeOK, Progress, KeyInv, KeyIsKept,
             NoFile, Empty, NoKey, image, disk, script, history, Bounds
<1>1. CASE FindUnformatted
  BY <1>1 DEF FindUnformatted, ToFormat, ReadFlag, Fault, Goto
<1>2. CASE ProbeFails
  BY <1>2 DEF ProbeFails, ToFormat, Fault, Goto
<1>3. CASE FindReset
  BY <1>3 DEF FindReset, Goto
<1>4. CASE FindData
  BY <1>4 DEF FindData, ReadFlag, Fault, Goto
<1>5. CASE ClearFlag
  BY <1>5 DEF ClearFlag, Goto
<1>6. CASE StartFormat
  BY <1>6 DEF StartFormat, Goto
<1>7. CASE EndFormat
  BY <1>7 DEF EndFormat, AfterFormat, NewExcuse, Goto
<1>8. CASE FormatFails
  BY <1>8 DEF FormatFails, AfterFormat, Fault, Goto
<1>9. CASE Mount
  BY <1>9 DEF Mount, KeepsFlag
<1>10. CASE NewKey
  BY <1>10 DEF NewKey, Goto
<1>11. CASE LoadKey
  BY <1>11 DEF LoadKey, Goto
<1>12. CASE NoSealedKey
  BY <1>12 DEF NoSealedKey, Goto
<1>13. CASE KeyFails
  BY <1>13 DEF KeyFails, Fault
<1>14. CASE SetPolicy
  BY <1>14 DEF SetPolicy, Goto
<1>15. CASE PolicyFails
  BY <1>15 DEF PolicyFails, Fault, Goto
<1>16. CASE SaveKey
  BY <1>16 DEF SaveKey, Fault, Goto
<1>17. CASE Sync
  BY <1>17 DEF Sync, Goto
<1>18. CASE Bind
  BY <1>18 DEF Bind, Fault, Goto
<1>19. CASE WriteData
  BY <1>19 DEF WriteData
<1>20. CASE RequestReset
  BY <1>20 DEF RequestReset
<1>21. CASE Reboot
  BY <1>21 DEF Reboot, Restart
<1>22. CASE PowerCut
  BY <1>22 DEF PowerCut, Restart, Fault
<1>23. CASE ClearFlagFails
  BY <1>23 DEF ClearFlagFails, Fault, Goto
<1>24. CASE FormatRefused
  BY <1>24 DEF FormatRefused, AfterFormat, Fault, Goto
<1>25. CASE MountFails
  BY <1>25 DEF MountFails, KeepsFlag, Fault, Goto
<1>26. CASE Update
  BY <1>26 DEF Update, Restart
<1>27. CASE UNCHANGED vars
  BY <1>27 DEF vars
<1> QED
  BY <1>1, <1>2, <1>3, <1>4, <1>5, <1>6, <1>7, <1>8, <1>9, <1>10, <1>11, <1>12, <1>13,
     <1>14, <1>15, <1>16, <1>17, <1>18, <1>19, <1>20, <1>21, <1>22, <1>23,
     <1>24, <1>25, <1>26, <1>27
  DEF Next, init_meson, Format, data_fbe_setup, Outside

LEMMA EraseStep ==
  ASSUME TypeOK, Progress, KeyInv, EraseInv, [Next]_vars
  PROVE  EraseInv'
<1> USE DEF TypeOK, Progress, KeyInv, EraseInv, ResetIsRemembered,
             image, disk, script, history, Bounds
<1>1. CASE FindUnformatted
  BY <1>1 DEF FindUnformatted, ToFormat, ReadFlag, Fault, Goto
<1>2. CASE ProbeFails
  BY <1>2 DEF ProbeFails, ToFormat, Fault, Goto
<1>3. CASE FindReset
  BY <1>3 DEF FindReset, Goto
<1>4. CASE FindData
  BY <1>4 DEF FindData, ReadFlag, Fault, Goto
<1>5. CASE ClearFlag
  BY <1>5 DEF ClearFlag, Goto
<1>6. CASE StartFormat
  BY <1>6 DEF StartFormat, Goto
<1>7. CASE EndFormat
  BY <1>7 DEF EndFormat, AfterFormat, NewExcuse, Goto
<1>8. CASE FormatFails
  BY <1>8 DEF FormatFails, AfterFormat, Fault, Goto
<1>9. CASE Mount
  BY <1>9 DEF Mount, KeepsFlag
<1>10. CASE NewKey
  BY <1>10 DEF NewKey, Goto
<1>11. CASE LoadKey
  BY <1>11 DEF LoadKey, Goto
<1>12. CASE NoSealedKey
  BY <1>12 DEF NoSealedKey, Goto
<1>13. CASE KeyFails
  BY <1>13 DEF KeyFails, Fault
<1>14. CASE SetPolicy
  BY <1>14 DEF SetPolicy, Goto
<1>15. CASE PolicyFails
  BY <1>15 DEF PolicyFails, Fault, Goto
<1>16. CASE SaveKey
  BY <1>16 DEF SaveKey, Fault, Goto
<1>17. CASE Sync
  BY <1>17 DEF Sync, Goto
<1>18. CASE Bind
  BY <1>18 DEF Bind, Fault, Goto
<1>19. CASE WriteData
  BY <1>19 DEF WriteData
<1>20. CASE RequestReset
  BY <1>20 DEF RequestReset
<1>21. CASE Reboot
  BY <1>21 DEF Reboot, Restart
<1>22. CASE PowerCut
  BY <1>22 DEF PowerCut, Restart, Fault
<1>23. CASE ClearFlagFails
  BY <1>23 DEF ClearFlagFails, Fault, Goto
<1>24. CASE FormatRefused
  BY <1>24 DEF FormatRefused, AfterFormat, Fault, Goto
<1>25. CASE MountFails
  BY <1>25 DEF MountFails, KeepsFlag, Fault, Goto
<1>26. CASE Update
  BY <1>26 DEF Update, Restart
<1>27. CASE UNCHANGED vars
  BY <1>27 DEF vars
<1> QED
  BY <1>1, <1>2, <1>3, <1>4, <1>5, <1>6, <1>7, <1>8, <1>9, <1>10, <1>11, <1>12, <1>13,
     <1>14, <1>15, <1>16, <1>17, <1>18, <1>19, <1>20, <1>21, <1>22, <1>23,
     <1>24, <1>25, <1>26, <1>27
  DEF Next, init_meson, Format, data_fbe_setup, Outside

LEMMA PlainStep ==
  ASSUME TypeOK, Progress, KeyInv, PlainInv, [Next]_vars
  PROVE  PlainInv'
<1> USE DEF TypeOK, Progress, KeyInv, PlainInv, PlainIsExplained,
             NoFile, Empty, NoKey, image, disk, script, history, Bounds
<1>1. CASE FindUnformatted
  BY <1>1 DEF FindUnformatted, ToFormat, ReadFlag, Fault, Goto
<1>2. CASE ProbeFails
  BY <1>2 DEF ProbeFails, ToFormat, Fault, Goto
<1>3. CASE FindReset
  BY <1>3 DEF FindReset, Goto
<1>4. CASE FindData
  BY <1>4 DEF FindData, ReadFlag, Fault, Goto
<1>5. CASE ClearFlag
  BY <1>5 DEF ClearFlag, Goto
<1>6. CASE StartFormat
  BY <1>6 DEF StartFormat, Goto
<1>7. CASE EndFormat
  BY <1>7 DEF EndFormat, AfterFormat, NewExcuse, Goto
<1>8. CASE FormatFails
  BY <1>8 DEF FormatFails, AfterFormat, Fault, Goto
<1>9. CASE Mount
  BY <1>9 DEF Mount, KeepsFlag
<1>10. CASE NewKey
  BY <1>10 DEF NewKey, Goto
<1>11. CASE LoadKey
  BY <1>11 DEF LoadKey, Goto
<1>12. CASE NoSealedKey
  BY <1>12 DEF NoSealedKey, Goto
<1>13. CASE KeyFails
  BY <1>13 DEF KeyFails, Fault
<1>14. CASE SetPolicy
  BY <1>14 DEF SetPolicy, Goto
<1>15. CASE PolicyFails
  BY <1>15 DEF PolicyFails, Fault, Goto
<1>16. CASE SaveKey
  BY <1>16 DEF SaveKey, Fault, Goto
<1>17. CASE Sync
  BY <1>17 DEF Sync, Goto
<1>18. CASE Bind
  BY <1>18 DEF Bind, Fault, Goto
<1>19. CASE WriteData
  BY <1>19 DEF WriteData
<1>20. CASE RequestReset
  BY <1>20 DEF RequestReset
<1>21. CASE Reboot
  BY <1>21 DEF Reboot, Restart
<1>22. CASE PowerCut
  BY <1>22 DEF PowerCut, Restart, Fault
<1>23. CASE ClearFlagFails
  BY <1>23 DEF ClearFlagFails, Fault, Goto
<1>24. CASE FormatRefused
  BY <1>24 DEF FormatRefused, AfterFormat, Fault, Goto
<1>25. CASE MountFails
  BY <1>25 DEF MountFails, KeepsFlag, Fault, Goto
<1>26. CASE Update
  BY <1>26 DEF Update, Restart
<1>27. CASE UNCHANGED vars
  BY <1>27 DEF vars
<1> QED
  BY <1>1, <1>2, <1>3, <1>4, <1>5, <1>6, <1>7, <1>8, <1>9, <1>10, <1>11, <1>12, <1>13,
     <1>14, <1>15, <1>16, <1>17, <1>18, <1>19, <1>20, <1>21, <1>22, <1>23,
     <1>24, <1>25, <1>26, <1>27
  DEF Next, init_meson, Format, data_fbe_setup, Outside

LEMMA Start == Init => IInv
<1> SUFFICES ASSUME Init PROVE IInv
  OBVIOUS
<1> USE DEF Init, NoFile, Empty, NoKey
<1>1. TypeOK
  <2>1. DiskType /\ ScriptType
    BY DEF DiskType, ScriptType, Labels
  <2>2. KeyType /\ CountType
    BY BoundsAssumption DEF KeyType, CountType
  <2>3. HistoryType
    BY DEF HistoryType
  <2> QED
    BY <2>1, <2>2, <2>3, Zenon DEF TypeOK, DiskType, ScriptType, KeyType, CountType, HistoryType
<1>2. Progress
  BY DEF Progress
<1>3. KeyInv
  BY DEF KeyInv, KeyIsKept
<1>4. EraseInv
  BY DEF EraseInv, ResetIsRemembered
<1>5. PlainInv
  BY DEF PlainInv, PlainIsExplained
<1> QED
  BY <1>1, <1>2, <1>3, <1>4, <1>5 DEF IInv

LEMMA Step == IInv /\ [Next]_vars => IInv'
  BY TypeStep, ProgressStep, KeyStep, EraseStep, PlainStep DEF IInv

THEOREM Invariant == Spec => []IInv
  BY Step, Start, PTL DEF Spec

-----------------------------------------------------------------------------
(* What follows *)

\* The script's variables and the disk have their types.
THEOREM TypeCorrect == Spec => []TypeOK
<1>1. IInv => TypeOK
  BY DEF IInv
<1> QED
  BY <1>1, Invariant, PTL

\* Whatever fails and wherever the power goes, the key of encrypted data is saved.
THEOREM EncryptedDataHasItsKey == Spec => []KeyIsKept
<1>1. IInv => KeyIsKept
  BY DEF IInv, KeyInv
<1> QED
  BY <1>1, Invariant, PTL

\* Only on UBI, or where the format command failed before it erased anything, can a
\* factory reset be forgotten.
THEOREM ResetsAreRemembered == Spec => []ResetIsRemembered
<1>1. IInv => ResetIsRemembered
  BY DEF IInv, EraseInv
<1> QED
  BY <1>1, Invariant, PTL

\* On an image with FBE an unencrypted /data has an explanation.
THEOREM PlainHasAnExcuse == Spec => []PlainIsExplained
<1>1. IInv => PlainIsExplained
  BY DEF IInv, PlainInv
<1> QED
  BY <1>1, Invariant, PTL

\* No step erases data but for a reset, a partition that could not be read, or a
\* reset whose flag an earlier boot has left set.
THEOREM ErasedOnRequest == Spec => DataIsErasedOnRequest
<1> DEFINE Allowed == data # {} /\ data' = {} =>
                        asked \/ misread \/ flagKept
<1>1. ASSUME IInv, Next PROVE Allowed
  <2>1. CASE StartFormat
    BY <1>1, <2>1 DEF StartFormat, Goto, IInv, EraseInv
  <2>2. CASE WriteData
    BY <2>2 DEF WriteData
  <2>3. CASE ~ StartFormat /\ ~ WriteData
    <3>1. data' = data
      BY <1>1, <2>3
      DEF Next, init_meson, Format, data_fbe_setup, Outside, disk, FindUnformatted, ProbeFails,
          FindReset, FindData, ClearFlag, ClearFlagFails, EndFormat, FormatRefused,
          FormatFails, Mount, MountFails, NewKey, LoadKey, NoSealedKey, KeyFails, SetPolicy, PolicyFails, SaveKey, Sync, Bind, RequestReset,
          Reboot, Update, PowerCut, Restart
    <3> QED
      BY <3>1
  <2> QED
    BY <2>1, <2>2, <2>3
<1>2. IInv /\ [Next]_vars => [Allowed]_vars
  BY <1>1
<1> QED
  BY <1>2, Invariant, PTL DEF Spec, DataIsErasedOnRequest

-----------------------------------------------------------------------------
(* No dead end *)

AtRest == pc \in {"up", "fatal"}

\* The guards of what the script can do without a command failing for no reason, one
\* line per test in the code: what the partition, the flag, the key file and the policy
\* of fbe_root are like.
WayOn ==
  \/ pc = "probe" /\ ~ fs /\ (kind = "ext4" \/ (kind = "ubi" /\ ~ factory_reset))
  \/ pc = "probe" /\ factory_reset /\ (kind = "ext4" => fs)
  \/ pc = "probe" /\ ~ factory_reset /\ (fs \/ kind = "yaffs2")
  \/ pc \in {"format", "formatting", "clear", "mount", "save", "sync", "bind"}
  \/ pc = "key" /\ newly_formatted
  \/ pc = "key" /\ ~ newly_formatted /\ blob = NoFile
  \/ pc = "key" /\ ~ newly_formatted /\ blob = Empty /\ tries < 2   \* once more, or given up
  \/ pc = "key" /\ ~ newly_formatted /\ blob \notin {NoFile, Empty}
  \/ pc = "policy" /\ policy \in {NoKey, key}
  \/ pc = "policy" /\ policy \notin {NoKey, key}                   \* set_policy refuses

\* Somebody will restart the device.
Restarts == pc = "fatal" \/ (pc = "up" /\ factory_reset)

\* Where a guard is true its action has a step that changes something.  That is plain
\* from the actions, each of which is a guard and an assignment to every variable.
GuardsSuffice ==
  /\ WayOn => ENABLED <<init_meson>>_vars
  /\ Restarts => ENABLED <<Restarted>>_vars

LEMMA AlwaysAWayOn ==
  ASSUME IInv, ~ AtRest
  PROVE  WayOn
<1>1. /\ pc \in Labels /\ kind \in {"ext4", "ubi", "yaffs2"} /\ fs \in BOOLEAN
      /\ factory_reset \in BOOLEAN /\ newly_formatted \in BOOLEAN
      /\ pc = "key" => tries < 2
  BY DEF IInv, TypeOK, Progress
<1> QED
  BY <1>1 DEF AtRest, Labels, WayOn

\* No combination of file system, flag, policy and key file that power cuts and failed
\* commands can leave is one for which the script has no branch, and
\* fbe_kernel_keyring_setup is not called a third time.
THEOREM NoDeadEnd == Spec => [](~ AtRest => WayOn)
<1>1. IInv => (~ AtRest => WayOn)
  BY AlwaysAWayOn
<1> QED
  BY <1>1, Invariant, PTL

-----------------------------------------------------------------------------
(* A reset that is owed is carried out *)

Owed == asked /\ factory_reset

\* Steps to the next erasure, at most: through the boot that is under way, the restart,
\* and the first steps of the next boot.
Rank ==
  CASE pc = "mount"  -> 10
    [] pc = "key"    -> IF tries = 0 THEN 9 ELSE 8
    [] pc = "policy" -> 7
    [] pc = "save"   -> 6
    [] pc = "sync"   -> 5
    [] pc = "bind"   -> 4
    [] pc \in {"up", "fatal"} -> 3
    [] pc = "probe"  -> 2
    [] OTHER         -> 1

LEMMA RankIsSmall ==
  ASSUME IInv
  PROVE  Rank \in 1 .. 10
  BY DEF IInv, TypeOK, Rank

LEMMA RankStaysSmall ==
  ASSUME IInv'
  PROVE  Rank' \in 1 .. 10
  BY DEF IInv, TypeOK, Rank

Closer == ~ Owed' \/ Rank' < Rank

\* A step of the script that does not fail brings the erasure nearer: no branch leads
\* round it.
LEMMA ScriptGetsCloser ==
  ASSUME IInv, Owed, init_meson, faults' = faults
  PROVE  Closer
<1>0. /\ asked /\ factory_reset /\ faults \in Nat /\ tries \in {0, 1, 2}
      /\ pc = "key" => tries < 2
      /\ pc = "formatting" => ~ asked
  BY DEF IInv, TypeOK, Progress, EraseInv, Owed
<1>1. CASE ProbeFails \/ ClearFlagFails \/ FormatRefused \/ FormatFails \/ MountFails
  <2>1. faults' = faults + 1
    BY <1>1 DEF ProbeFails, ClearFlagFails, FormatRefused, FormatFails, MountFails, Fault
  <2>2. faults \in Nat
    BY <1>0
  <2> QED
    BY <2>1, <2>2
<1>2. CASE FindUnformatted \/ FindReset \/ FindData
  <2>0. ~ (factory_reset /\ faults' = faults + 1) /\ factory_reset # FALSE
    BY <1>0
  <2>1. CASE FindUnformatted \/ FindReset
    <3>1. pc = "probe" /\ pc' \in {"format", "clear"}
      BY <2>1 DEF FindUnformatted, FindReset, Goto
    <3> QED
      BY <3>1 DEF Closer, Rank
  <2>2. CASE FindData
    BY <2>0, <2>2 DEF FindData, ReadFlag, Fault
  <2> QED
    BY <1>2, <2>1, <2>2
<1>3. CASE ClearFlag \/ StartFormat \/ EndFormat
  <2>1. ~ asked' \/ ~ factory_reset'
    BY <1>0, <1>3 DEF ClearFlag, StartFormat, EndFormat, Goto
  <2> QED
    BY <2>1 DEF Closer, Owed
<1>4. CASE Mount
  <2>1. pc = "mount" /\ pc' \in {"fatal", "key", "bind"}
    BY <1>4 DEF Mount
  <2> QED
    BY <2>1 DEF Closer, Rank
<1>5. CASE NewKey \/ LoadKey \/ NoSealedKey
  <2>1. pc = "key" /\ pc' \in {"policy", "bind"}
    BY <1>5 DEF NewKey, LoadKey, NoSealedKey, Goto
  <2> QED
    BY <2>1 DEF Closer, Rank
<1>6. CASE KeyFails
  <2>1. pc = "key" /\ tries' = tries + 1
        /\ (pc' = "bind" \/ (pc' = "key" /\ tries = 0))
    BY <1>6 DEF KeyFails
  <2>2. CASE pc' = "bind"
    BY <2>1, <2>2 DEF Closer, Rank
  <2>3. CASE pc' = "key" /\ tries = 0
    <3>1. tries' # 0
      BY <2>1, <2>3
    <3> QED
      BY <2>1, <2>3, <3>1 DEF Closer, Rank
  <2> QED
    BY <2>1, <2>2, <2>3
<1>7. CASE SetPolicy \/ PolicyFails \/ SaveKey \/ Sync
  <2>1. \/ pc = "policy" /\ pc' \in {"save", "bind"}
        \/ pc = "save" /\ pc' = "sync"
        \/ pc = "sync" /\ pc' = "bind"
    BY <1>7 DEF SetPolicy, PolicyFails, SaveKey, Sync, Goto
  <2> QED
    BY <2>1 DEF Closer, Rank
<1>8. CASE Bind
  <2>1. pc = "bind" /\ pc' = "up"
    BY <1>8 DEF Bind, Goto
  <2> QED
    BY <2>1 DEF Closer, Rank
<1> QED
  BY <1>1, <1>2, <1>3, <1>4, <1>5, <1>6, <1>7, <1>8 DEF init_meson, Format, data_fbe_setup

\* From some time on: nothing fails any more, and the script takes the way on it has.
Steady ==
  /\ [](IInv /\ GuardsSuffice)
  /\ [][Next]_vars /\ [][faults' = faults]_vars
  /\ WF_vars(init_meson) /\ WF_vars(Restarted)

Within(n) == Owed /\ Rank <= n

Nears(m, n) == Steady => (Within(m) ~> ~ Owed \/ Within(n))

LEMMA OneCloser ==
  ASSUME NEW m \in Nat, NEW n \in Nat, m = n + 1
  PROVE  Nears(m, n)
<1>1. ASSUME IInv, Within(m), Next, faults' = faults, init_meson \/ Reboot \/ Update
      PROVE  ~ Owed' \/ Within(n)'
  <2>1. Closer
    <3>1. CASE init_meson
      BY <1>1, <3>1, ScriptGetsCloser DEF Within
    <3>2. CASE Reboot \/ Update
      BY <3>2 DEF Reboot, Update, Restart, Closer, Rank
    <3> QED
      BY <1>1, <3>1, <3>2
  <2>2. CASE Owed'
    <3>1. Rank \in Int /\ Rank' \in Int
      BY <1>1, Step, RankIsSmall, RankStaysSmall
    <3> DEFINE r == Rank
               s == Rank'
    <3>2. r \in Int /\ r <= m /\ s \in Int /\ s < r
      BY <1>1, <2>1, <2>2, <3>1 DEF Within, Closer
    <3> HIDE DEF r, s
    <3>3. s <= n
      BY <3>2
    <3> QED
      BY <2>2, <3>3 DEF r, s, Within
  <2> QED
    BY <2>2
<1>2. ASSUME IInv, Next, faults' = faults
      PROVE  \/ init_meson \/ Reboot \/ Update
             \/ AtRest /\ AtRest' /\ Rank' = Rank
  BY <1>2 DEF Next, Outside, IInv, TypeOK, WriteData, RequestReset, PowerCut, Fault, AtRest, Rank
<1>3. IInv /\ Within(m) /\ ~ AtRest /\ [Next]_vars /\ [faults' = faults]_vars
        => (Within(m) /\ ~ AtRest)' \/ ~ Owed' \/ Within(n)'
  <2> SUFFICES ASSUME IInv, Within(m), ~ AtRest, [Next]_vars, [faults' = faults]_vars
               PROVE  (Within(m) /\ ~ AtRest)' \/ ~ Owed' \/ Within(n)'
    OBVIOUS
  <2>1. CASE UNCHANGED vars
    BY <2>1 DEF vars, script, history, Within, Owed, Rank, AtRest
  <2>2. CASE vars' # vars
    BY <2>2, <1>1, <1>2
  <2> QED
    BY <2>1, <2>2
<1>4. IInv /\ Within(m) /\ AtRest /\ [Next]_vars /\ [faults' = faults]_vars
        => (Within(m) /\ AtRest)' \/ ~ Owed' \/ Within(n)'
  <2> SUFFICES ASSUME IInv, Within(m), AtRest, [Next]_vars, [faults' = faults]_vars
               PROVE  (Within(m) /\ AtRest)' \/ ~ Owed' \/ Within(n)'
    OBVIOUS
  <2>1. CASE UNCHANGED vars
    BY <2>1 DEF vars, script, history, Within, Owed, Rank, AtRest
  <2>2. CASE vars' # vars
    <3>1. CASE init_meson \/ Reboot \/ Update
      BY <2>2, <3>1, <1>1
    <3>2. CASE AtRest' /\ Rank' = Rank
      BY <3>2 DEF Within
    <3> QED
      BY <2>2, <3>1, <3>2, <1>2
  <2> QED
    BY <2>1, <2>2
<1>5. IInv /\ Within(m) /\ [Next]_vars /\ [faults' = faults]_vars /\ <<init_meson>>_vars
        => ~ Owed' \/ Within(n)'
  BY <1>1 DEF Next
<1>6. IInv /\ Within(m) /\ [Next]_vars /\ [faults' = faults]_vars /\ <<Restarted>>_vars
        => ~ Owed' \/ Within(n)'
  BY <1>1 DEF Next, Outside, Restarted
<1>7. IInv /\ ~ AtRest /\ GuardsSuffice => ENABLED <<init_meson>>_vars
  BY AlwaysAWayOn DEF GuardsSuffice
<1>8. Within(m) /\ AtRest /\ GuardsSuffice => ENABLED <<Restarted>>_vars
  BY DEF Within, Owed, AtRest, Restarts, GuardsSuffice
<1>9. Steady => (Within(m) /\ ~ AtRest ~> ~ Owed \/ Within(n))
  BY <1>3, <1>5, <1>7, PTL DEF Steady
<1>10. Steady => (Within(m) /\ AtRest ~> ~ Owed \/ Within(n))
  BY <1>4, <1>6, <1>8, PTL DEF Steady
<1> QED
  BY <1>9, <1>10, PTL DEF Nears

\* Ten steps at most.
LEMMA ResetConverges == Steady => (Owed ~> ~ Owed)
<1>1. /\ Nears(10, 9) /\ Nears(9, 8) /\ Nears(8, 7) /\ Nears(7, 6) /\ Nears(6, 5)
      /\ Nears(5, 4) /\ Nears(4, 3) /\ Nears(3, 2) /\ Nears(2, 1) /\ Nears(1, 0)
  BY OneCloser
<1>2. IInv /\ Owed => Within(10) /\ ~ Within(0)
  BY RankIsSmall DEF Within
<1> QED
  BY <1>1, <1>2, PTL DEF Nears, Steady

\* If commands fail and the power goes only finitely often, a reset whose flag is set
\* is carried out, or forgotten in the cases of ResetIsRemembered.
THEOREM ResetsAreCarriedOut ==
  FairSpec /\ []GuardsSuffice /\ <>[][faults' = faults]_vars => ResetIsCarriedOut
<1>1. ~ Owed /\ ResetIsRemembered => ~ asked \/ (~ factory_reset /\ (kind = "ubi" \/ refused))
  BY DEF Owed, ResetIsRemembered
<1> QED
  BY <1>1, Invariant, ResetConverges, ResetsAreRemembered, PTL
  DEF FairSpec, Spec, Steady, ResetIsCarriedOut, Owed
=============================================================================
