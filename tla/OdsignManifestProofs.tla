------------------------ MODULE OdsignManifestProofs ------------------------
(***************************************************************************)
(* Proof that when odsign reports success for an existing artifacts      *)
(* directory, odsign.info on disk lists every artifact with its digest    *)
(* (ManifestListsTrustedArtifacts).  The strengthening ManifestOnPath     *)
(* follows the data file from the moment persistDigests writes it to the  *)
(* report of success; it rests on IInv for the fact that the digests      *)
(* being persisted are the artifacts on disk.  The action property        *)
(* SignsWhatIsOnDisk follows from IInv alone.                             *)
(***************************************************************************)
EXTENDS OdsignSourceProofs

\* A digest map passes verifyDigests against itself.
LEMMA VerifyDigestsSelf ==
    ASSUME NEW m PROVE verifyDigests(m, m)
BY DEF verifyDigests

\* Off main()'s path to success neither flag can be set, so a step that
\* stays off it and leaves both flags alone keeps the strengthening.
LEMMA ManifestQuiet ==
    ASSUME ArtifactsGenuineOnPath,
           pc \notin PathPcs, pc' \notin PathPcs,
           digestsVerified' = digestsVerified, verifStatus' = verifStatus
    PROVE  ManifestOnPath'
<1>1. ~digestsVerified /\ verifStatus # "1"
  BY DEF ArtifactsGenuineOnPath, PathPcs
<1>. QED
  BY <1>1, Zenon DEF ManifestOnPath, ManifestListsTrustedArtifacts,
                     PathPcs, PersistPcs

\* persistDigests writes the digests of the artifacts on disk, its result
\* is checked on both paths that call it, and verifyArtifacts checks the
\* data file itself; nothing else of main() writes odsign.info.
LEMMA ManifestStep ==
    IInv /\ ManifestOnPath /\ [Next]_vars => ManifestOnPath'
<1> SUFFICES ASSUME IInv, ManifestOnPath, [Next]_vars
             PROVE  ManifestOnPath'
  OBVIOUS
<1> USE DEF compileArtifacts, checkArtifacts, verifyExistingRootCert,
            createX509RootCert, leafCertValid, addCompOsCertToKeyring,
            verifyIntegrity
<1>0. ArtifactsGenuineOnPath  BY DEF IInv
<1>a. digestsVerified => pc \in {"outcome", "finish"} /\ status = "Okay"
  BY <1>0 DEF ArtifactsGenuineOnPath
<1>b. verifStatus = "1" => pc = "done"
  BY <1>0 DEF ArtifactsGenuineOnPath
<1>c. pc \in PersistPcs => digests = artDir.files
  BY <1>0 DEF ArtifactsGenuineOnPath
<1> USE DEF ManifestOnPath, ManifestListsTrustedArtifacts
<1>1. CASE OffPath
  <2>1. /\ pc \notin PathPcs /\ pc' \notin PathPcs
        /\ UNCHANGED <<digestsVerified, verifStatus>>
    BY <1>1 DEF OffPath, NotUpdatable, Start, RootCert, AddCompOsCert,
                Rename, BootUp, CompOsRun, TamperArtifacts, TamperManifest,
                TamperKeys, Hang, Return, PathPcs, PersistPcs, locals,
                props
  <2>. QED  BY <1>0, <2>1, ManifestQuiet
<1>2. CASE PendCheck \/ Recheck \/ PendVerify \/ Compile \/ OutcomeCompiled
  <2>1. ~digestsVerified /\ verifStatus # "1"
    BY <1>a, <1>b, <1>2
    DEF PendCheck, Recheck, PendVerify, Compile, OutcomeCompiled
  <2>2. /\ pc' \in {"compile", "rename", "pendverify", "outcome",
                    "persist_data", "guard"}
        /\ UNCHANGED <<digestsVerified, verifStatus>>
    BY <1>2 DEF PendCheck, Recheck, PendVerify, Compile, OutcomeCompiled,
                AfterCompOs, Return, locals, props
  <2>. QED  BY <2>1, <2>2, Zenon
<1>3. CASE PersistData
  <2>1. ~digestsVerified /\ verifStatus # "1"
    BY <1>a, <1>b, <1>3 DEF PersistData
  <2>2. CASE pc' = "persist_sign"
    <3>1. /\ odsignInfo' = [ok |-> TRUE, map |-> digests]
          /\ UNCHANGED <<digests, digestsVerified, verifStatus>>
      BY <1>3, <2>2 DEF PersistData, PersistReturn, locals, props
    <3>. QED  BY <2>1, <2>2, <3>1, Zenon
  <2>3. CASE pc' # "persist_sign"
    <3>1. /\ pc' \in {"pendpersisted", "mainpersisted"} /\ ~persistOk'
          /\ UNCHANGED <<digestsVerified, verifStatus>>
      BY <1>3, <2>3 DEF PersistData, PersistReturn, locals, props
    <3>. QED  BY <2>1, <3>1, Zenon
  <2>. QED  BY <2>2, <2>3
<1>4. CASE PersistSign
  <2>1. /\ ~digestsVerified /\ verifStatus # "1"
        /\ odsignInfo.ok /\ odsignInfo.map = artDir.files
    BY <1>a, <1>b, <1>c, <1>4 DEF PersistSign, PersistPcs
  <2>2. /\ pc' \in {"pendpersisted", "mainpersisted"}
        /\ UNCHANGED <<odsignInfo, artDir, digestsVerified, verifStatus>>
    BY <1>4 DEF PersistSign, PersistReturn, disk, locals, props
  <2>. QED  BY <2>1, <2>2, Zenon
<1>5. CASE PendPersisted
  <2>1. ~digestsVerified /\ verifStatus # "1"
    BY <1>a, <1>b, <1>5 DEF PendPersisted
  <2>2. CASE persistOk
    <3>1. odsignInfo.ok /\ odsignInfo.map = artDir.files
      BY <1>5, <2>2 DEF PendPersisted
    <3>2. /\ pc' = "outcome"
          /\ UNCHANGED <<odsignInfo, artDir, verifStatus>>
      BY <1>5, <2>2 DEF PendPersisted
    <3>. QED  BY <2>1, <3>1, <3>2, Zenon
  <2>3. CASE ~persistOk
    <3>1. pc' = "compile" /\ UNCHANGED <<digestsVerified, verifStatus>>
      BY <1>5, <2>3, Zenon DEF PendPersisted
    <3>. QED  BY <2>1, <3>1, Zenon
  <2>. QED  BY <2>2, <2>3
<1>6. CASE OutcomeOkay
  <2>1. verifStatus # "1"  BY <1>b, <1>6 DEF OutcomeOkay
  <2>2. /\ pc' \in {"verify", "finish"}
        /\ pc' = "finish" => digestsVerified \/ ~artDir.exists
        /\ UNCHANGED <<artDir, odsignInfo, digestsVerified, verifStatus>>
    BY <1>6 DEF OutcomeOkay, disk, locals, props
  <2>3. digestsVerified =>
          odsignInfo.ok /\ verifyDigests(artDir.files, odsignInfo.map)
    BY VerifyDigestsSelf
  <2>. QED  BY <2>1, <2>2, <2>3, Zenon
<1>7. CASE OutcomeError \/ MainPersisted
  <2>1. ~digestsVerified /\ verifStatus # "1"
    BY <1>a, <1>b, <1>7 DEF OutcomeError, MainPersisted
  <2>2. /\ pc' \in {"finish", "guard"}
        /\ pc' = "finish" => pc = "mainpersisted" /\ persistOk
        /\ UNCHANGED <<artDir, odsignInfo, digestsVerified, verifStatus>>
    BY <1>7 DEF OutcomeError, MainPersisted, Return, disk, locals, props
  <2>3. pc = "mainpersisted" /\ persistOk =>
          odsignInfo.ok /\ verifyDigests(artDir.files, odsignInfo.map)
    BY VerifyDigestsSelf
  <2>. QED  BY <2>1, <2>2, <2>3, Zenon
<1>8. CASE VerifyArtifacts
  <2>1. ~digestsVerified /\ verifStatus # "1"
    BY <1>a, <1>b, <1>8 DEF VerifyArtifacts
  <2>2. /\ pc' \in {"finish", "guard"}
        /\ pc' = "finish" =>
             odsignInfo.ok /\ verifyDigests(artDir.files, odsignInfo.map)
        /\ UNCHANGED <<artDir, odsignInfo, digestsVerified, verifStatus>>
    BY <1>8 DEF VerifyArtifacts, odsignInfoValid, computeDigests, Return,
                disk, locals, props
  <2>. QED  BY <2>1, <2>2, Zenon
<1>9. CASE Finish
  <2>1. artDir.exists =>
          odsignInfo.ok /\ verifyDigests(artDir.files, odsignInfo.map)
    BY <1>9 DEF Finish
  <2>2. /\ pc' = "done" /\ ~digestsVerified'
        /\ UNCHANGED <<artDir, odsignInfo>>
    BY <1>9, Zenon DEF Finish, ExitProcess, disk
  <2>. QED  BY <2>1, <2>2, Zenon
<1>10. CASE ErrorScopeGuard \/ Reboot
  <2>1. /\ pc' \in {"done", "down"} /\ verifStatus' \in {"0", "unset"}
        /\ ~digestsVerified'
    BY <1>10, Zenon DEF ErrorScopeGuard, Reboot, ExitProcess
  <2>. QED  BY <2>1, Zenon
<1>11. CASE ProcessRestart
  <2>1. verifStatus # "1"  BY <1>b, <1>11 DEF ProcessRestart
  <2>2. /\ pc' = "start" /\ ~digestsVerified'
        /\ verifStatus' = verifStatus
    BY <1>11, Zenon DEF ProcessRestart, ExitProcess, props
  <2>. QED  BY <2>1, <2>2, Zenon
<1>12. CASE UNCHANGED vars
  BY <1>12 DEF vars, env, disk, locals, props, history
<1>. QED
  BY <1>1, <1>2, <1>3, <1>4, <1>5, <1>6, <1>7, <1>8, <1>9, <1>10, <1>11,
     <1>12 DEF Next, Daemon, Environment, OffPath

\* A wiped /data, and no verdict.
LEMMA InitManifest == Init => ManifestOnPath
BY Zenon DEF Init, LocalsInit, PropsInit, ManifestOnPath,
             ManifestListsTrustedArtifacts

\* From the moment persistDigests has written odsign.info until success is
\* reported, odsign.info holds the digest map of kArtArtifactsDir, across
\* crashes of odsign and whatever the attacker wrote before the boot.
THEOREM ManifestOnPathHolds == Spec => []ManifestOnPath
<1>1. Spec => [](IInv /\ ManifestOnPath)
  BY InitIInv, NextIInv, InitManifest, ManifestStep, PTL DEF Spec
<1>. QED  BY <1>1, PTL

\* However a boot or the odsign process is cut short (between writing
\* odsign.info and signing it, say) and whatever the attacker writes
\* between boots, odsign reports odsign.verification.success = 1 for an
\* existing artifacts directory only while odsign.info parses and lists
\* every one of its artifacts with its digest.
THEOREM ManifestListsTrustedArtifactsHolds ==
    Spec => []ManifestListsTrustedArtifacts
<1>1. Spec => []ManifestOnPath  BY ManifestOnPathHolds
<1>2. ManifestOnPath => ManifestListsTrustedArtifacts
  BY DEF ManifestOnPath
<1>. QED  BY <1>1, <1>2, PTL

\* The only step that signs is persistDigests' second half, and the map it
\* signs is the data file it has just written, which holds the digests of
\* the artifacts on disk.
LEMMA SignStep ==
    IInv /\ [Next]_vars =>
      [signedHist' # signedHist =>
         signedHist' = signedHist \cup {artDir.files}]_vars
<1> SUFFICES ASSUME IInv, [Next]_vars, signedHist' # signedHist
             PROVE  signedHist' = signedHist \cup {artDir.files}
  OBVIOUS
<1>1. CASE PersistSign
  <2>1. odsignInfo.map = artDir.files
    BY <1>1 DEF PersistSign, IInv, ArtifactsGenuineOnPath, PersistPcs
  <2>2. signedHist' \in {signedHist, signedHist \cup {odsignInfo.map}}
    BY <1>1 DEF PersistSign
  <2>. QED  BY <2>1, <2>2
<1>2. CASE SignedUntouched
  <2>1. UNCHANGED signedHist
    BY <1>2 DEF SignedUntouched, NotUpdatable, Start, RootCert,
                AddCompOsCert, PendCheck, Rename, Recheck, PendVerify,
                PersistData, PendPersisted, Compile, OutcomeOkay,
                OutcomeCompiled, OutcomeError, MainPersisted,
                VerifyArtifacts, Finish, ErrorScopeGuard, BootUp, Reboot,
                ProcessRestart, CompOsRun, TamperArtifacts, TamperManifest,
                TamperKeys, Hang, vars, env, disk, locals, props, history
  <2>. QED  BY <2>1
<1>. QED
  BY <1>1, <1>2 DEF Next, Daemon, Environment, SignedUntouched

\* Whatever the attacker writes between boots and wherever a boot is cut
\* short, every signature odsign makes with the keystore key is over the
\* digest map of kArtArtifactsDir as it is when the signature is made.
THEOREM SignsWhatIsOnDiskHolds == Spec => SignsWhatIsOnDisk
<1>1. Spec => [][Next]_vars  BY PTL DEF Spec
<1>. QED  BY <1>1, IInvHolds, SignStep, PTL DEF SignsWhatIsOnDisk

=============================================================================
