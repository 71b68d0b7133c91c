---------------------------- MODULE OdsignProofs ----------------------------
(***************************************************************************)
(* Proofs about the odsign model (Odsign.tla) for every set of artifact   *)
(* files, every device configuration, every set of odrefresh exit codes   *)
(* and every bound on boots and attacker writes.                          *)
(***************************************************************************)
EXTENDS Odsign, TLAPS

----------------------------------------------------------------------------
(* What the helpers of odsign_main.cpp and of the environment return.     *)

\* removeDirectory leaves a directory: gone, or with a subset of its files.
LEMMA RemoveDirectoryType ==
    ASSUME NEW d \in Dir
    PROVE  removeDirectory(d) \subseteq Dir
<1>1. NoDir \in Dir
  BY DEF NoDir, Dir, EmptyMap, DigestMap, FileVal, Absent
<1>2. \A S \in SUBSET Files :
        [exists |-> TRUE,
         files  |-> [f \in Files |-> IF f \in S THEN d.files[f] ELSE Absent]]
          \in Dir
  BY DEF Dir, DigestMap, FileVal, Absent
<1>. QED  BY <1>1, <1>2 DEF removeDirectory

\* odrefresh --compile leaves a directory in the artifacts slot.
LEMMA CompileEffectType ==
    ASSUME NEW r, NEW d \in Dir
    PROVE  compileEffect(r, d) \subseteq Dir
<1>1. \A S \in SUBSET Files : OdrFiles(S) \in DigestMap
  BY DEF OdrFiles, DigestMap, FileVal, Content, Producers, Absent
<1>2. NoDir \in Dir
  BY DEF NoDir, Dir, EmptyMap, DigestMap, FileVal, Absent
<1>3. CASE r = "Okay"
  BY <1>2, <1>3 DEF compileEffect
<1>4. CASE r = "CompilationSuccess"
  <2>1. OdrFiles(Files) \in DigestMap  BY <1>1
  <2>. QED  BY <1>4, <2>1 DEF compileEffect, Dir
<1>5. CASE r = "CompilationFailed"
  <2> SUFFICES ASSUME NEW S \in SUBSET Files
               PROVE  [exists |-> TRUE, files |-> OdrFiles(S)] \in Dir
    BY <1>5 DEF compileEffect
  <2> QED  BY <1>1 DEF Dir
<1>6. CASE r \notin {"Okay", "CompilationSuccess", "CompilationFailed"}
  BY <1>6 DEF compileEffect
<1>. QED  BY <1>3, <1>4, <1>5, <1>6

\* The attacker's rewrite of a directory leaves a directory.
LEMMA AttackerDirsType ==
    ASSUME NEW d \in Dir, artDir \in Dir, pendDir \in Dir
    PROVE  AttackerDirs(d) \subseteq Dir
<1>1. \A f \in Files : AttackerFiles(f) \subseteq FileVal
  BY DEF AttackerFiles, Dir, DigestMap, FileVal, Content, Producers, Absent
<1>2. NoDir \in Dir
  BY DEF NoDir, Dir, EmptyMap, DigestMap, FileVal, Absent
<1>3. \A f \in Files, v \in FileVal :
        [exists |-> TRUE, files |-> [d.files EXCEPT ![f] = v]] \in Dir
  BY DEF Dir, DigestMap
<1>. SUFFICES ASSUME NEW x \in AttackerDirs(d) PROVE x \in Dir
  OBVIOUS
<1>4. CASE x = NoDir  BY <1>2, <1>4
<1>5. CASE x # NoDir
  <2>1. PICK f \in Files : \E v \in AttackerFiles(f) :
          x = [exists |-> TRUE, files |-> [d.files EXCEPT ![f] = v]]
    BY <1>5 DEF AttackerDirs
  <2>2. PICK v \in AttackerFiles(f) :
          x = [exists |-> TRUE, files |-> [d.files EXCEPT ![f] = v]]
    BY <2>1
  <2>. QED  BY <1>1, <1>3, <2>2
<1>. QED  BY <1>4, <1>5

----------------------------------------------------------------------------
(* Type correctness.                                                       *)

USE FilesAssumption, ConfigAssumption, BoundsAssumption, OutcomesAssumption

\* The empty files and directories are of their types.
LEMMA EmptyValuesType ==
    /\ EmptyMap \in DigestMap
    /\ NoDir \in Dir /\ NoInfo \in InfoFile /\ NoSig \in SigFile
    /\ NoCert \in CertVal
<1>1. EmptyMap \in DigestMap
  BY DEF EmptyMap, DigestMap, FileVal, Absent
<1>. QED
  BY <1>1 DEF NoDir, Dir, NoInfo, InfoFile, NoSig, SigFile, NoCert, CertVal,
              KeyVal

\* The records the daemon and the attacker write are of their types.
LEMMA RecordValuesType ==
    /\ \A m \in DigestMap : /\ [ok |-> TRUE, map |-> m] \in InfoFile
                            /\ [signed |-> TRUE, over |-> m] \in SigFile
    /\ \A k \in KeyVal : /\ [signed |-> TRUE, key |-> k] \in CertVal
                         /\ [signed |-> FALSE, key |-> k] \in CertVal
    /\ \A d \in Dir : d.files \in DigestMap
    /\ \A i \in InfoFile : i.map \in DigestMap
<1>1. \A m \in DigestMap : [ok |-> TRUE, map |-> m] \in InfoFile
  BY Zenon DEF InfoFile
<1>2. \A m \in DigestMap : [signed |-> TRUE, over |-> m] \in SigFile
  BY Zenon DEF SigFile
<1>3. \A k \in KeyVal : /\ [signed |-> TRUE, key |-> k] \in CertVal
                       /\ [signed |-> FALSE, key |-> k] \in CertVal
  BY Zenon DEF CertVal
<1>4. \A d \in Dir : d.files \in DigestMap
  BY DEF Dir
<1>5. \A i \in InfoFile : i.map \in DigestMap
  BY DEF InfoFile
<1>. QED  BY <1>1, <1>2, <1>3, <1>4, <1>5

\* The initial state, a wiped /data, is well typed.
LEMMA InitTypeOK == Init => TypeOK
<1>1. EmptyMap \in DigestMap  BY EmptyValuesType
<1>2. NoDir \in Dir /\ NoInfo \in InfoFile /\ NoSig \in SigFile
      /\ NoCert \in CertVal
  BY EmptyValuesType
<1>. SUFFICES ASSUME Init PROVE TypeOK
  OBVIOUS
<1>3. /\ boots \in 0..MaxBoots /\ tampers \in 0..MaxTampers
      /\ crashes \in 0..MaxCrashes
  BY BoundsAssumption DEF Init
<1>. QED
  BY <1>1, <1>2, <1>3 DEF Init, LocalsInit, PropsInit, TypeOK, KeyVal,
                          RootCertVal, PcVal, ExitCodes

\* TypeOK, split into the flags (for Zenon, which handles Boolean-valued
\* variables) and the data (for SMT, which does the arithmetic).
FlagsOK ==
    /\ apexUpdatable \in BOOLEAN /\ composRan \in BOOLEAN
    /\ useCompOs \in BOOLEAN /\ digestsVerified \in BOOLEAN
    /\ persistOk \in BOOLEAN /\ keyDone \in BOOLEAN /\ verifDone \in BOOLEAN
    /\ keyUsedAfterDone \in BOOLEAN

DataOK ==
    /\ boots \in 0..MaxBoots /\ tampers \in 0..MaxTampers
    /\ crashes \in 0..MaxCrashes
    /\ artDir \in Dir /\ pendDir \in Dir
    /\ odsignInfo \in InfoFile /\ odsignSig \in SigFile
    /\ rootCert \in RootCertVal /\ composCert \in CertVal
    /\ curKey \in KeyVal /\ pendKey \in KeyVal
    /\ pc \in PcVal \cup {"guard"}
    /\ status \in ExitCodes
    /\ composKey \in KeyVal
    /\ digests \in DigestMap
    /\ ret \in {"none", "pending", "main"}
    /\ verifStatus \in {"unset", "0", "1"}
    /\ exitCode \in {"none", "ok", "fail"}
    /\ signedHist \subseteq DigestMap
    /\ certHist \subseteq KeyVal

LEMMA TypeOKSplit == TypeOK <=> FlagsOK /\ DataOK
BY Zenon DEF TypeOK, FlagsOK, DataOK

\* Every step keeps the flags Boolean.
LEMMA NextFlagsOK == TypeOK /\ [Next]_vars => FlagsOK'
<1> SUFFICES ASSUME TypeOK, [Next]_vars PROVE FlagsOK'
  OBVIOUS
<1> USE DEF compileArtifacts, checkArtifacts, verifyExistingRootCert,
            createX509RootCert, leafCertValid, addCompOsCertToKeyring,
            verifyIntegrity
<1> USE ConfigAssumption
<1> USE DEF TypeOK, FlagsOK, Return, ExitProcess, UseKey, vars, env, disk,
            locals, props, history
<1>1. CASE NotUpdatable  BY <1>1, Zenon DEF NotUpdatable
<1>2. CASE Start  BY <1>2, Zenon DEF Start
<1>3. CASE RootCert  BY <1>3, Zenon DEF RootCert
<1>4. CASE AddCompOsCert  BY <1>4, Zenon DEF AddCompOsCert
<1>5. CASE PendCheck  BY <1>5, Zenon DEF PendCheck
<1>6. CASE Rename  BY <1>6, Zenon DEF Rename
<1>7. CASE Recheck  BY <1>7, Zenon DEF Recheck
<1>8. CASE PendVerify  BY <1>8, Zenon DEF PendVerify
<1>9. CASE PersistData  BY <1>9, Zenon DEF PersistData
<1>10. CASE PersistSign  BY <1>10, Zenon DEF PersistSign
<1>11. CASE PendPersisted  BY <1>11, Zenon DEF PendPersisted
<1>12. CASE Compile  BY <1>12, Zenon DEF Compile
<1>13. CASE OutcomeOkay  BY <1>13, Zenon DEF OutcomeOkay
<1>14. CASE OutcomeCompiled  BY <1>14, Zenon DEF OutcomeCompiled
<1>15. CASE OutcomeError  BY <1>15, Zenon DEF OutcomeError
<1>16. CASE MainPersisted  BY <1>16, Zenon DEF MainPersisted
<1>17. CASE VerifyArtifacts  BY <1>17, Zenon DEF VerifyArtifacts
<1>18. CASE Finish  BY <1>18, Zenon DEF Finish
<1>19. CASE ErrorScopeGuard  BY <1>19, Zenon DEF ErrorScopeGuard
<1>20. CASE BootUp  BY <1>20, Zenon DEF BootUp
<1>21. CASE Reboot  BY <1>21, Zenon DEF Reboot
<1>22. CASE CompOsRun  BY <1>22, Zenon DEF CompOsRun
<1>23. CASE TamperArtifacts  BY <1>23, Zenon DEF TamperArtifacts
<1>24. CASE TamperManifest  BY <1>24, Zenon DEF TamperManifest
<1>25. CASE TamperKeys  BY <1>25, Zenon DEF TamperKeys
<1>26. CASE UNCHANGED vars  BY <1>26, Zenon
<1>27. CASE Hang  BY <1>27, Zenon DEF Hang
<1>28. CASE ProcessRestart  BY <1>28, Zenon DEF ProcessRestart
<1>. QED
  BY <1>1, <1>2, <1>3, <1>4, <1>5, <1>6, <1>7, <1>8, <1>9, <1>10, <1>11,
     <1>12, <1>13, <1>14, <1>15, <1>16, <1>17, <1>18, <1>19, <1>20, <1>21,
     <1>22, <1>23, <1>24, <1>25, <1>26, <1>27, <1>28
  DEF Next, Daemon, Environment

\* Every step keeps the files, the locals and the history in their types.
LEMMA NextDataOK == TypeOK /\ [Next]_vars => DataOK'
<1> SUFFICES ASSUME TypeOK, [Next]_vars PROVE DataOK'
  OBVIOUS
<1> USE DEF compileArtifacts, checkArtifacts, verifyExistingRootCert,
            createX509RootCert, leafCertValid, addCompOsCertToKeyring,
            verifyIntegrity
<1> USE EmptyValuesType, RecordValuesType
<1> USE DEF TypeOK, DataOK, PcVal, KeyVal, RootCertVal, ExitCodes, Return,
            ExitProcess, UseKey, vars, env, disk, locals, props, history
<1>1. CASE NotUpdatable  BY <1>1 DEF NotUpdatable
<1>2. CASE Start  BY <1>2 DEF Start
<1>3. CASE RootCert  BY <1>3 DEF RootCert
<1>4. CASE AddCompOsCert
  <2>1. PICK pendingOk \in startCompOsAndVerifyKey(pendKey) :
          AddCompOsCert!2!(pendingOk)
    BY <1>4 DEF AddCompOsCert
  <2>2. pendingOk \in BOOLEAN  BY DEF startCompOsAndVerifyKey
  <2>3. curKey' \in KeyVal /\ pendKey' \in KeyVal  BY <2>1, <2>2
  <2>4. composCert' \in CertVal /\ composKey' \in KeyVal
    <3>1. (IF pendingOk THEN pendKey ELSE curKey) \in KeyVal  BY <2>2
    <3>2. [signed |-> TRUE, key |-> IF pendingOk THEN pendKey ELSE curKey]
            \in CertVal
      BY <3>1
    <3>3. composCert.key \in KeyVal  BY DEF CertVal
    <3>. QED  BY <2>1, <2>2, <3>1, <3>2, <3>3
  <2>5. certHist' \subseteq KeyVal /\ pc' \in PcVal  BY <2>1, <2>2
  <2>. QED  BY <1>4, <2>3, <2>4, <2>5 DEF AddCompOsCert
<1>5. CASE PendCheck
  BY <1>5, RemoveDirectoryType DEF PendCheck, AfterCompOs
<1>6. CASE Rename  BY <1>6, RemoveDirectoryType DEF Rename
<1>7. CASE Recheck  BY <1>7 DEF Recheck, AfterCompOs
<1>8. CASE PendVerify  BY <1>8, RemoveDirectoryType DEF PendVerify
<1>9. CASE PersistData
  <2>1. odsignInfo' \in InfoFile  BY <1>9 DEF PersistData
  <2>2. pc' \in PcVal  BY <1>9 DEF PersistData, PersistReturn
  <2>. QED  BY <1>9, <2>1, <2>2 DEF PersistData
<1>10. CASE PersistSign
  <2>1. odsignSig' \in SigFile  BY <1>10 DEF PersistSign
  <2>2. signedHist' \subseteq DigestMap  BY <1>10 DEF PersistSign
  <2>3. pc' \in PcVal  BY <1>10 DEF PersistSign, PersistReturn
  <2>. QED  BY <1>10, <2>1, <2>2, <2>3 DEF PersistSign
<1>11. CASE PendPersisted  BY <1>11, RemoveDirectoryType DEF PendPersisted
<1>12. CASE Compile  BY <1>12, CompileEffectType DEF Compile
<1>13. CASE OutcomeOkay  BY <1>13 DEF OutcomeOkay
<1>14. CASE OutcomeCompiled  BY <1>14 DEF OutcomeCompiled, computeDigests
<1>15. CASE OutcomeError  BY <1>15 DEF OutcomeError
<1>16. CASE MainPersisted  BY <1>16 DEF MainPersisted
<1>17. CASE VerifyArtifacts  BY <1>17 DEF VerifyArtifacts
<1>18. CASE Finish  BY <1>18 DEF Finish
<1>19. CASE ErrorScopeGuard
  BY <1>19, RemoveDirectoryType DEF ErrorScopeGuard
<1>20. CASE BootUp  BY <1>20, BoundsAssumption DEF BootUp
<1>21. CASE Reboot  BY <1>21 DEF Reboot
<1>22. CASE CompOsRun
  BY <1>22 DEF CompOsRun, Dir, DigestMap, FileVal, Content, Producers
<1>23. CASE TamperArtifacts
  BY <1>23, AttackerDirsType, BoundsAssumption DEF TamperArtifacts
<1>24. CASE TamperManifest
  <2>1. \A f \in Files :
          [odsignInfo.map EXCEPT ![f] = [src |-> "forged", name |-> f]]
            \in DigestMap
    BY DEF DigestMap, FileVal, Content, Producers
  <2>2. odsignInfo' \in InfoFile  BY <1>24, <2>1 DEF TamperManifest
  <2>3. odsignSig' \in SigFile  BY <1>24 DEF TamperManifest
  <2>4. tampers' \in 0..MaxTampers
    BY <1>24, BoundsAssumption DEF TamperManifest
  <2>. QED  BY <1>24, <2>2, <2>3, <2>4 DEF TamperManifest
<1>25. CASE TamperKeys
  <2>1. composCert' \in CertVal  BY <1>25 DEF TamperKeys
  <2>2. tampers' \in 0..MaxTampers
    BY <1>25, BoundsAssumption DEF TamperKeys
  <2>3. curKey' \in KeyVal /\ pendKey' \in KeyVal /\ rootCert' \in RootCertVal
    BY <1>25 DEF TamperKeys
  <2>. QED  BY <1>25, <2>1, <2>2, <2>3 DEF TamperKeys
<1>26. CASE UNCHANGED vars  BY <1>26
<1>27. CASE Hang  BY <1>27 DEF Hang
<1>28. CASE ProcessRestart  BY <1>28, BoundsAssumption DEF ProcessRestart
<1>. QED
  BY <1>1, <1>2, <1>3, <1>4, <1>5, <1>6, <1>7, <1>8, <1>9, <1>10, <1>11,
     <1>12, <1>13, <1>14, <1>15, <1>16, <1>17, <1>18, <1>19, <1>20, <1>21,
     <1>22, <1>23, <1>24, <1>25, <1>26, <1>27, <1>28
  DEF Next, Daemon, Environment

\* Every step of the daemon and of the world between boots keeps every
\* variable in its type.
LEMMA NextTypeOK == TypeOK /\ [Next]_vars => TypeOK'
<1> SUFFICES ASSUME TypeOK, [Next]_vars PROVE TypeOK'
  OBVIOUS
<1>1. FlagsOK' /\ DataOK'  BY NextFlagsOK, NextDataOK
<1>. QED  BY <1>1, Zenon DEF TypeOK, FlagsOK, DataOK

\* Type correctness: in every behaviour of odsign across boots, crashes
\* and attacker writes, every variable keeps its type.
THEOREM TypeCorrect == Spec => []TypeOK
BY InitTypeOK, NextTypeOK, PTL DEF Spec

----------------------------------------------------------------------------
(* What the helpers do to the genuineness of files and to the shape of a  *)
(* directory.                                                              *)

\* An empty digest map lists no attacker file.
LEMMA AllGenuineEmpty == AllGenuine(EmptyMap)
BY DEF AllGenuine, EmptyMap

\* removeDirectory only takes files away.
LEMMA RemoveDirectoryGenuine ==
    ASSUME NEW d, AllGenuine(d.files), NEW e \in removeDirectory(d)
    PROVE  AllGenuine(e.files)
<1>1. CASE e = NoDir  BY <1>1, AllGenuineEmpty DEF NoDir
<1>2. CASE e = d  BY <1>2
<1>3. CASE e # NoDir /\ e # d
  <2>1. PICK S \in SUBSET Files :
          e = [exists |-> TRUE,
               files  |-> [f \in Files |-> IF f \in S THEN d.files[f]
                                                      ELSE Absent]]
    BY <1>3 DEF removeDirectory
  <2>. QED  BY <2>1 DEF AllGenuine
<1>. QED  BY <1>1, <1>2, <1>3

\* removeDirectory leaves either no directory or an existing one.
LEMMA RemoveDirectoryShape ==
    ASSUME NEW d, ~d.exists => d.files = EmptyMap,
           NEW e \in removeDirectory(d)
    PROVE  ~e.exists => e.files = EmptyMap
BY DEF removeDirectory, NoDir

\* A compilation that reports success or failure leaves an existing
\* directory holding only what odrefresh wrote.
LEMMA CompileEffectGenuine ==
    ASSUME NEW r \in {"CompilationSuccess", "CompilationFailed"}, NEW d,
           NEW e \in compileEffect(r, d)
    PROVE  AllGenuine(e.files)
<1>1. \A S \in SUBSET Files : AllGenuine(OdrFiles(S))
  BY DEF AllGenuine, OdrFiles, Genuine
<1>2. CASE r = "CompilationSuccess"  BY <1>1, <1>2 DEF compileEffect
<1>3. CASE r = "CompilationFailed"
  <2>1. PICK S \in SUBSET Files : e = [exists |-> TRUE, files |-> OdrFiles(S)]
    BY <1>3 DEF compileEffect
  <2>. QED  BY <1>1, <2>1
<1>. QED  BY <1>2, <1>3

\* Whatever odrefresh --compile returns, the directory keeps its shape.
LEMMA CompileEffectShape ==
    ASSUME NEW r, NEW d, ~d.exists => d.files = EmptyMap,
           NEW e \in compileEffect(r, d)
    PROVE  ~e.exists => e.files = EmptyMap
BY DEF compileEffect, NoDir

\* The attacker's rewrite of a directory keeps its shape.
LEMMA AttackerDirsShape ==
    ASSUME NEW d, NEW e \in AttackerDirs(d)
    PROVE  ~e.exists => e.files = EmptyMap
BY DEF AttackerDirs, NoDir

----------------------------------------------------------------------------
(* The inductive invariant, one part at a time.                           *)

\* The actions that leave the CompOs key, its certificate and the issued
\* certificates alone.
KeysUntouched ==
    \/ NotUpdatable \/ Start \/ RootCert \/ PendCheck \/ Rename \/ Recheck
    \/ PendVerify \/ PersistData \/ PersistSign \/ PendPersisted \/ Compile
    \/ OutcomeOkay \/ OutcomeCompiled \/ OutcomeError \/ MainPersisted
    \/ VerifyArtifacts \/ BootUp \/ CompOsRun \/ TamperArtifacts
    \/ TamperManifest \/ Hang \/ UNCHANGED vars

\* verifyCompOsKey issues a certificate, and main() uses a CompOs key, only
\* for a key the VM confirmed; the attacker can only restore certificates
\* our key issued.
LEMMA KeysStep == IInv /\ [Next]_vars => CompOsKeyGenuine'
<1> SUFFICES ASSUME IInv, [Next]_vars PROVE CompOsKeyGenuine'
  OBVIOUS
<1> USE DEF compileArtifacts, checkArtifacts, verifyExistingRootCert,
            createX509RootCert, leafCertValid, addCompOsCertToKeyring,
            verifyIntegrity
<1> USE DEF CompOsKeyGenuine, CompOsCertsForGenuineKeys
<1>1. CASE AddCompOsCert
  <2>1. PICK pendingOk \in startCompOsAndVerifyKey(pendKey) :
          AddCompOsCert!2!(pendingOk)
    BY <1>1 DEF AddCompOsCert
  <2>2. pendingOk => pendKey = "good"
    BY DEF startCompOsAndVerifyKey
  <2>3. \A v \in startCompOsAndVerifyKey(curKey) : v => curKey = "good"
    BY DEF startCompOsAndVerifyKey
  <2>4. CompOsKeyGenuine
    BY DEF IInv
  <2>5. certHist' \subseteq {"good"}
    BY <2>1, <2>2, <2>3, <2>4
  <2>6. composKey' \in {"none", "good"}
    BY <2>1, <2>2, <2>3, <2>4
  <2>7. composCert'.signed => composCert'.key \in certHist'
    <3>1. certHist \subseteq certHist'  BY <2>1
    <3>2. \/ composCert' = composCert
          \/ composCert' = NoCert
          \/ /\ composCert' = [signed |-> TRUE,
                               key |-> IF pendingOk THEN pendKey ELSE curKey]
             /\ (IF pendingOk THEN pendKey ELSE curKey) \in certHist'
      BY <2>1
    <3>3. CASE composCert' = composCert  BY <2>4, <3>1, <3>3
    <3>4. CASE composCert' = NoCert  BY <3>4, Zenon DEF NoCert
    <3>5. CASE composCert' # composCert /\ composCert' # NoCert
      BY <3>2, <3>5
    <3>. QED  BY <3>3, <3>4, <3>5
  <2>. QED  BY <2>5, <2>6, <2>7
<1>2. CASE TamperKeys
  <2>1. UNCHANGED <<composKey, certHist>>  BY <1>2 DEF TamperKeys, locals, history
  <2>2. composCert'.signed => composCert'.key \in certHist
    BY <1>2 DEF TamperKeys, IInv, NoCert
  <2>. QED  BY <2>1, <2>2 DEF IInv
<1>3. CASE Finish \/ ErrorScopeGuard \/ Reboot \/ ProcessRestart
  <2>1. composKey' = "none" /\ UNCHANGED <<composCert, certHist>>
    BY <1>3 DEF Finish, ErrorScopeGuard, Reboot, ProcessRestart, ExitProcess,
                disk, history
  <2>. QED  BY <2>1 DEF IInv
<1>4. CASE KeysUntouched
  <2>1. UNCHANGED <<composCert, composKey, certHist>>
    BY <1>4 DEF KeysUntouched, NotUpdatable, Start, RootCert, PendCheck,
                Rename, Recheck, PendVerify, PersistData, PersistSign,
                PendPersisted, Compile, OutcomeOkay, OutcomeCompiled,
                OutcomeError, MainPersisted, VerifyArtifacts, BootUp,
                CompOsRun, TamperArtifacts, TamperManifest, Hang, vars, env,
                disk, locals, props, history
  <2>. QED  BY <2>1 DEF IInv
<1>. QED
  BY <1>1, <1>2, <1>3, <1>4 DEF Next, Daemon, Environment, KeysUntouched

\* The actions that leave both artifact directories alone.
DirsUntouched ==
    \/ NotUpdatable \/ Start \/ RootCert \/ AddCompOsCert \/ Recheck
    \/ PersistData \/ PersistSign \/ OutcomeOkay \/ OutcomeCompiled
    \/ OutcomeError \/ MainPersisted \/ VerifyArtifacts \/ Finish
    \/ BootUp \/ Reboot \/ ProcessRestart \/ TamperManifest \/ TamperKeys
    \/ Hang
    \/ UNCHANGED vars

\* removeDirectory, rename, odrefresh and the attacker leave either no
\* directory or an existing one.
LEMMA DirsStep == IInv /\ [Next]_vars => DirsWellFormed'
<1> SUFFICES ASSUME IInv, [Next]_vars PROVE DirsWellFormed'
  OBVIOUS
<1> USE DEF compileArtifacts, checkArtifacts, verifyExistingRootCert,
            createX509RootCert, leafCertValid, addCompOsCertToKeyring,
            verifyIntegrity
<1>0. DirsWellFormed  BY DEF IInv
<1> USE DEF DirsWellFormed
<1>1. CASE PendCheck
  <2>1. /\ artDir' \in removeDirectory(artDir) \cup {artDir}
        /\ pendDir' \in removeDirectory(pendDir) \cup {pendDir}
    BY <1>1 DEF PendCheck
  <2>. QED  BY <1>0, <2>1, RemoveDirectoryShape
<1>2. CASE Rename
  BY <1>0, <1>2, RemoveDirectoryShape DEF Rename, NoDir
<1>3. CASE PendVerify
  BY <1>0, <1>3, RemoveDirectoryShape DEF PendVerify
<1>4. CASE PendPersisted
  BY <1>0, <1>4, RemoveDirectoryShape DEF PendPersisted
<1>5. CASE Compile
  <2>1. PICK r \in CompileOutcomes : artDir' \in compileEffect(r, artDir)
    BY <1>5 DEF Compile
  <2>. QED  BY <1>0, <1>5, <2>1, CompileEffectShape DEF Compile
<1>6. CASE ErrorScopeGuard
  BY <1>0, <1>6, RemoveDirectoryShape DEF ErrorScopeGuard
<1>7. CASE CompOsRun
  BY <1>0, <1>7 DEF CompOsRun
<1>8. CASE TamperArtifacts
  BY <1>0, <1>8, AttackerDirsShape DEF TamperArtifacts
<1>9. CASE DirsUntouched
  <2>1. UNCHANGED <<artDir, pendDir>>
    BY <1>9 DEF DirsUntouched, NotUpdatable, Start, RootCert, AddCompOsCert,
                Recheck, PersistData, PersistSign, OutcomeOkay,
                OutcomeCompiled, OutcomeError, MainPersisted,
                VerifyArtifacts, Finish, BootUp, Reboot, ProcessRestart,
                TamperManifest,
                TamperKeys, Hang, vars, env, disk, locals, props, history
  <2>. QED  BY <1>0, <2>1
<1>. QED
  BY <1>1, <1>2, <1>3, <1>4, <1>5, <1>6, <1>7, <1>8, <1>9
  DEF Next, Daemon, Environment, DirsUntouched

\* The actions that leave the signature file and the signed maps alone.
ManifestsUntouched ==
    \/ NotUpdatable \/ Start \/ RootCert \/ AddCompOsCert \/ PendCheck
    \/ Rename \/ Recheck \/ PendVerify \/ PersistData \/ PendPersisted
    \/ Compile \/ OutcomeOkay \/ OutcomeCompiled \/ OutcomeError
    \/ MainPersisted \/ VerifyArtifacts \/ Finish \/ ErrorScopeGuard
    \/ BootUp \/ Reboot \/ ProcessRestart \/ CompOsRun \/ TamperArtifacts
    \/ TamperKeys
    \/ Hang \/ UNCHANGED vars

\* persistDigests signs only the map it has just written, which lists the
\* genuine artifacts; the attacker can only restore a signature our key made.
LEMMA ManifestsStep == IInv /\ [Next]_vars => ManifestsSigned'
<1> SUFFICES ASSUME IInv, [Next]_vars PROVE ManifestsSigned'
  OBVIOUS
<1>0. ManifestsSigned  BY DEF IInv
<1> USE DEF ManifestsSigned, SignedManifestsGenuine
<1>1. CASE PersistSign
  <2>1. AllGenuine(odsignInfo.map)
    BY <1>1 DEF PersistSign, IInv, ArtifactsGenuineOnPath, PersistPcs
  <2>2. signedHist' \in {signedHist, signedHist \cup {odsignInfo.map}}
    BY <1>1 DEF PersistSign
  <2>3. \A m \in signedHist' : AllGenuine(m)
    BY <1>0, <2>1, <2>2
  <2>4. odsignSig' \in {[signed |-> TRUE, over |-> odsignInfo.map],
                        odsignSig, NoSig}
    BY <1>1 DEF PersistSign
  <2>6. odsignSig'.signed => odsignSig'.over \in signedHist'
    <3>1. CASE odsignSig' = NoSig  BY <3>1, Zenon DEF NoSig
    <3>2. CASE odsignSig' = odsignSig
      <4>1. signedHist \subseteq signedHist'  BY <2>2
      <4>. QED  BY <1>0, <3>2, <4>1
    <3>3. CASE odsignSig' # odsignSig /\ odsignSig' # NoSig
      <4>1. /\ odsignSig' = [signed |-> TRUE, over |-> odsignInfo.map]
            /\ odsignInfo.map \in signedHist'
        BY <1>1, <3>3 DEF PersistSign
      <4>. QED  BY <4>1
    <3>. QED  BY <2>4, <3>1, <3>2, <3>3
  <2>. QED  BY <2>3, <2>6
<1>2. CASE TamperManifest
  <2>1. UNCHANGED signedHist  BY <1>2 DEF TamperManifest, history
  <2>2. CASE odsignSig' = NoSig  BY <1>0, <2>1, <2>2, Zenon DEF NoSig
  <2>3. CASE odsignSig' # NoSig
    BY <1>0, <1>2, <2>1, <2>3 DEF TamperManifest
  <2>. QED  BY <2>2, <2>3
<1>3. CASE ManifestsUntouched
  <2>1. UNCHANGED <<odsignSig, signedHist>>
    BY <1>3 DEF ManifestsUntouched, NotUpdatable, Start, RootCert,
                AddCompOsCert, PendCheck, Rename, Recheck, PendVerify,
                PersistData, PendPersisted, Compile, OutcomeOkay,
                OutcomeCompiled, OutcomeError, MainPersisted,
                VerifyArtifacts, Finish, ErrorScopeGuard, BootUp, Reboot,
                ProcessRestart,
                CompOsRun, TamperArtifacts, TamperKeys, Hang, vars, env,
                disk, locals, props, history
  <2>. QED  BY <1>0, <2>1
<1>. QED
  BY <1>1, <1>2, <1>3 DEF Next, Daemon, Environment, ManifestsUntouched

\* The points of main() at which the artifacts are known to be genuine.
PathPcs == {"outcome", "finish", "done"} \cup PersistPcs

\* A step between two points off that path, which leaves the two flags
\* alone, keeps the invariant: neither flag can be set off the path.
LEMMA PathQuiet ==
    ASSUME ArtifactsGenuineOnPath,
           pc \notin PathPcs, pc' \notin PathPcs,
           digestsVerified' = digestsVerified, verifStatus' = verifStatus
    PROVE  ArtifactsGenuineOnPath'
<1>1. ~digestsVerified /\ verifStatus # "1"
  BY DEF ArtifactsGenuineOnPath, PathPcs
<1>. QED  BY <1>1, Zenon DEF ArtifactsGenuineOnPath, PathPcs, PersistPcs

\* The steps of main() and of the world that never set either flag and
\* happen off the path.
OffPath ==
    \/ NotUpdatable \/ Start \/ RootCert \/ AddCompOsCert \/ Rename
    \/ BootUp \/ CompOsRun \/ TamperArtifacts \/ TamperManifest
    \/ TamperKeys \/ Hang

\* Along main()'s path to success the artifacts stay genuine: odrefresh
\* writes genuine files, CompOs artifacts are adopted only with valid
\* signatures by the genuine CompOs key, persistDigests records the
\* digests of what is there, and verifyArtifacts accepts only files listed
\* in a map our key signed.
LEMMA PathStep == IInv /\ [Next]_vars => ArtifactsGenuineOnPath'
<1> SUFFICES ASSUME IInv, [Next]_vars PROVE ArtifactsGenuineOnPath'
  OBVIOUS
<1> USE DEF compileArtifacts, checkArtifacts, verifyExistingRootCert,
            createX509RootCert, leafCertValid, addCompOsCertToKeyring,
            verifyIntegrity
<1>0. /\ ArtifactsGenuineOnPath /\ TypeOK /\ DirsWellFormed
      /\ ManifestsSigned /\ CompOsKeyGenuine
  BY DEF IInv
<1>a. digestsVerified => pc \in {"outcome", "finish"} /\ status = "Okay"
  BY <1>0 DEF ArtifactsGenuineOnPath
<1>b. verifStatus = "1" => pc = "done"
  BY <1>0 DEF ArtifactsGenuineOnPath
<1>1. CASE OffPath
  <2>1. /\ pc \notin PathPcs /\ pc' \notin PathPcs
        /\ UNCHANGED <<digestsVerified, verifStatus>>
    BY <1>1 DEF OffPath, NotUpdatable, Start, RootCert, AddCompOsCert,
                Rename, BootUp, CompOsRun, TamperArtifacts, TamperManifest,
                TamperKeys, Hang, Return, PathPcs, PersistPcs, locals,
                props
  <2>. QED  BY <1>0, <2>1, PathQuiet
<1>2. CASE PendCheck \/ Recheck
  <2>1. ~digestsVerified /\ verifStatus # "1"
    BY <1>1, <1>a, <1>b, <1>2 DEF PendCheck, Recheck
  <2>2. /\ pc' \in {"compile", "rename", "pendverify", "outcome"}
        /\ pc' = "outcome" => status' \notin {"CompilationSuccess",
                                               "CompilationFailed"}
        /\ UNCHANGED <<digestsVerified, verifStatus>>
    BY <1>2, CheckAssumption DEF PendCheck, Recheck, AfterCompOs, locals,
                                 props
  <2>. QED  BY <2>1, <2>2, Zenon DEF ArtifactsGenuineOnPath, PersistPcs
<1>3. CASE PendVerify
  <2>1. ~digestsVerified /\ verifStatus # "1"
    BY <1>a, <1>b, <1>3 DEF PendVerify
  <2>2. CASE pc' = "persist_data"
    <3>1. /\ digests' = artDir.files /\ artDir' = artDir
          /\ UNCHANGED <<digestsVerified, verifStatus>>
          /\ \A f \in Files : artDir.files[f] # Absent =>
                 signedByCompOsKey(artDir.files[f], composKey)
      BY <1>3, <2>2 DEF PendVerify, locals, props
    <3>2. AllGenuine(artDir.files)
      BY <1>0, <3>1 DEF CompOsKeyGenuine, signedByCompOsKey, AllGenuine,
                        Genuine
    <3>. QED
      BY <2>1, <2>2, <3>1, <3>2, Zenon DEF ArtifactsGenuineOnPath, PersistPcs
  <2>3. CASE pc' # "persist_data"
    <3>1. pc' = "compile" /\ UNCHANGED <<digestsVerified, verifStatus>>
      BY <1>3, <2>3 DEF PendVerify, locals, props
    <3>. QED  BY <2>1, <3>1, Zenon DEF ArtifactsGenuineOnPath, PersistPcs
  <2>. QED  BY <2>2, <2>3
<1>4. CASE PersistData \/ PersistSign
  <2>1. /\ ~digestsVerified /\ verifStatus # "1"
        /\ digests = artDir.files /\ AllGenuine(digests)
    BY <1>0, <1>a, <1>b, <1>4
    DEF PersistData, PersistSign, ArtifactsGenuineOnPath, PersistPcs
  <2>2. /\ UNCHANGED <<digests, artDir, digestsVerified, verifStatus>>
        /\ pc' \in PersistPcs
        /\ pc' = "persist_sign" => odsignInfo'.map = digests
    BY <1>4 DEF PersistData, PersistSign, PersistReturn, PersistPcs, disk,
                locals, props
  <2>. QED  BY <2>1, <2>2, Zenon DEF ArtifactsGenuineOnPath, PersistPcs
<1>5. CASE PendPersisted
  <2>1. /\ ~digestsVerified /\ verifStatus # "1"
        /\ AllGenuine(artDir.files)
    BY <1>0, <1>a, <1>b, <1>5
    DEF PendPersisted, ArtifactsGenuineOnPath, PersistPcs
  <2>2. CASE persistOk
    <3>1. /\ digestsVerified' /\ status' = "Okay" /\ pc' = "outcome"
          /\ artDir' = artDir /\ verifStatus' = verifStatus
      BY <1>5, <2>2 DEF PendPersisted
    <3>. QED  BY <2>1, <3>1, Zenon DEF ArtifactsGenuineOnPath, PersistPcs
  <2>3. CASE ~persistOk
    <3>1. pc' = "compile" /\ UNCHANGED <<digestsVerified, verifStatus>>
      BY <1>5, <2>3, Zenon DEF PendPersisted
    <3>. QED  BY <2>1, <3>1, Zenon DEF ArtifactsGenuineOnPath, PersistPcs
  <2>. QED  BY <2>2, <2>3
<1>6. CASE Compile
  <2>1. ~digestsVerified /\ verifStatus # "1"
    BY <1>a, <1>b, <1>6 DEF Compile
  <2>2. PICK r \in CompileOutcomes :
          status' = r /\ artDir' \in compileEffect(r, artDir)
    BY <1>6 DEF Compile
  <2>3. status' \in {"CompilationSuccess", "CompilationFailed"}
          => AllGenuine(artDir'.files)
    BY <2>2, CompileEffectGenuine
  <2>4. pc' = "outcome" /\ UNCHANGED <<digestsVerified, verifStatus>>
    BY <1>6 DEF Compile, locals, props
  <2>. QED  BY <2>1, <2>3, <2>4, Zenon DEF ArtifactsGenuineOnPath, PersistPcs
<1>7. CASE OutcomeOkay
  <2>1. verifStatus # "1"  BY <1>b, <1>7 DEF OutcomeOkay
  <2>2. /\ pc' \in {"verify", "finish"}
        /\ pc' = "verify" => ~digestsVerified
        /\ pc' = "finish" => digestsVerified \/ ~artDir.exists
        /\ UNCHANGED <<artDir, status, digestsVerified, verifStatus>>
    BY <1>7 DEF OutcomeOkay, disk, locals, props
  <2>3. ~artDir.exists => AllGenuine(artDir.files)
    BY <1>0, AllGenuineEmpty DEF DirsWellFormed
  <2>4. digestsVerified => AllGenuine(artDir.files) /\ status = "Okay"
    BY <1>0 DEF ArtifactsGenuineOnPath
  <2>. QED
    BY <2>1, <2>2, <2>3, <2>4, Zenon DEF ArtifactsGenuineOnPath, PersistPcs
<1>8. CASE OutcomeCompiled
  <2>1. /\ ~digestsVerified /\ verifStatus # "1"
        /\ AllGenuine(artDir.files)
    BY <1>0, <1>a, <1>b, <1>8 DEF OutcomeCompiled, ArtifactsGenuineOnPath
  <2>2. /\ pc' \in {"persist_data", "guard"}
        /\ pc' = "persist_data" => digests' = artDir.files
        /\ UNCHANGED <<artDir, digestsVerified, verifStatus>>
    BY <1>8 DEF OutcomeCompiled, computeDigests, Return, disk, locals, props
  <2>. QED  BY <2>1, <2>2, Zenon DEF ArtifactsGenuineOnPath, PersistPcs
<1>9. CASE OutcomeError \/ MainPersisted
  <2>1. ~digestsVerified /\ verifStatus # "1"
    BY <1>a, <1>b, <1>9 DEF OutcomeError, MainPersisted
  <2>2. pc = "mainpersisted" => AllGenuine(artDir.files)
    BY <1>0 DEF ArtifactsGenuineOnPath, PersistPcs
  <2>3. /\ pc' \in {"finish", "guard"}
        /\ pc' = "finish" => pc = "mainpersisted"
        /\ UNCHANGED <<artDir, digestsVerified, verifStatus>>
    BY <1>9 DEF OutcomeError, MainPersisted, Return, disk, locals, props
  <2>. QED  BY <2>1, <2>2, <2>3, Zenon DEF ArtifactsGenuineOnPath, PersistPcs
<1>10. CASE VerifyArtifacts
  <2>1. ~digestsVerified /\ verifStatus # "1"
    BY <1>a, <1>b, <1>10 DEF VerifyArtifacts
  <2>2. /\ pc' \in {"finish", "guard"}
        /\ pc' = "finish" => /\ odsignInfoValid
                              /\ verifyDigests(computeDigests(artDir),
                                               odsignInfo.map)
        /\ UNCHANGED <<artDir, digestsVerified, verifStatus>>
    BY <1>10 DEF VerifyArtifacts, Return, disk, locals, props
  <2>3. odsignInfoValid => AllGenuine(odsignInfo.map)
    BY <1>0 DEF odsignInfoValid, ManifestsSigned, SignedManifestsGenuine
  <2>4. AllGenuine(odsignInfo.map)
        /\ verifyDigests(computeDigests(artDir), odsignInfo.map)
          => AllGenuine(artDir.files)
    BY DEF AllGenuine, verifyDigests, computeDigests
  <2>. QED
    BY <2>1, <2>2, <2>3, <2>4, Zenon DEF ArtifactsGenuineOnPath, PersistPcs
<1>11. CASE Finish
  <2>1. AllGenuine(artDir.files)
    BY <1>0, <1>11 DEF Finish, ArtifactsGenuineOnPath
  <2>2. /\ pc' = "done" /\ verifStatus' = "1" /\ ~digestsVerified'
        /\ artDir' = artDir
    BY <1>11, Zenon DEF Finish, ExitProcess, disk
  <2>. QED  BY <2>1, <2>2, Zenon DEF ArtifactsGenuineOnPath, PersistPcs
<1>12. CASE ErrorScopeGuard \/ Reboot
  <2>1. /\ pc' \in {"done", "down"} /\ verifStatus' \in {"0", "unset"}
        /\ ~digestsVerified'
    BY <1>12, Zenon DEF ErrorScopeGuard, Reboot, ExitProcess
  <2>. QED  BY <2>1, Zenon DEF ArtifactsGenuineOnPath, PersistPcs
<1>13. CASE UNCHANGED vars
  BY <1>0, <1>13 DEF vars, env, disk, locals, props, history,
                     ArtifactsGenuineOnPath
<1>14. CASE ProcessRestart
  <2>1. verifStatus # "1"  BY <1>b, <1>14 DEF ProcessRestart
  <2>2. /\ pc' = "start" /\ ~digestsVerified'
        /\ verifStatus' = verifStatus
    BY <1>14, Zenon DEF ProcessRestart, ExitProcess, props
  <2>. QED  BY <2>1, <2>2, Zenon DEF ArtifactsGenuineOnPath, PersistPcs
<1>. QED
  BY <1>1, <1>2, <1>3, <1>4, <1>5, <1>6, <1>7, <1>8, <1>9, <1>10, <1>11,
     <1>12, <1>13, <1>14 DEF Next, Daemon, Environment, OffPath

----------------------------------------------------------------------------
(* The safety theorems.                                                    *)

\* A wiped /data satisfies the inductive invariant.
LEMMA InitIInv == Init => IInv
<1> SUFFICES ASSUME Init PROVE IInv
  OBVIOUS
<1>1. TypeOK  BY InitTypeOK
<1>2. CompOsKeyGenuine
  BY Zenon DEF Init, LocalsInit, CompOsKeyGenuine, CompOsCertsForGenuineKeys,
               NoCert
<1>3. DirsWellFormed  BY DEF Init, DirsWellFormed, NoDir
<1>4. ArtifactsGenuineOnPath
  BY Zenon DEF Init, LocalsInit, PropsInit, ArtifactsGenuineOnPath,
               PersistPcs
<1>5. ManifestsSigned
  BY Zenon DEF Init, ManifestsSigned, SignedManifestsGenuine, NoSig
<1>. QED  BY <1>1, <1>2, <1>3, <1>4, <1>5 DEF IInv

\* Every step keeps the inductive invariant.
LEMMA NextIInv == IInv /\ [Next]_vars => IInv'
<1> SUFFICES ASSUME IInv, [Next]_vars PROVE IInv'
  OBVIOUS
<1>1. TypeOK'  BY NextTypeOK DEF IInv
<1>. QED  BY <1>1, KeysStep, DirsStep, PathStep, ManifestsStep DEF IInv

\* The inductive invariant holds in every state of every behaviour.
THEOREM IInvHolds == Spec => []IInv
BY InitIInv, NextIInv, PTL DEF Spec

\* Whatever an attacker with write access to /data does between boots, and
\* wherever a boot is cut short, odsign reports
\* odsign.verification.success = 1 only while every artifact is one that
\* odrefresh compiled on the device or the CompOs VM signed.
THEOREM TrustedArtifactsGenuineHolds == Spec => []TrustedArtifactsGenuine
<1>1. IInv => TrustedArtifactsGenuine
  BY DEF IInv, ArtifactsGenuineOnPath, TrustedArtifactsGenuine
<1>. QED  BY <1>1, IInvHolds, PTL

\* persistDigests never signs a digest map listing an attacker's file.
THEOREM SignedManifestsGenuineHolds == Spec => []SignedManifestsGenuine
<1>1. IInv => SignedManifestsGenuine
  BY DEF IInv, ManifestsSigned
<1>. QED  BY <1>1, IInvHolds, PTL

\* verifyCompOsKey issues compos_key.cert only for the key the CompOs VM
\* holds, never for a key file planted in /data.
THEOREM CompOsCertsForGenuineKeysHolds == Spec => []CompOsCertsForGenuineKeys
<1>1. IInv => CompOsCertsForGenuineKeys
  BY DEF IInv, CompOsKeyGenuine
<1>. QED  BY <1>1, IInvHolds, PTL

=============================================================================
