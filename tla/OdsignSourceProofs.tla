------------------------- MODULE OdsignSourceProofs -------------------------
(***************************************************************************)
(* Proof that odsign never reports success for a mixed artifacts          *)
(* directory: the artifacts it trusts were all compiled by odrefresh on   *)
(* the device, or all by the CompOs VM (TrustedArtifactsSingleSource).    *)
(* The strengthening OneSourceOnPath follows ArtifactsGenuineOnPath and   *)
(* leans on it: the digests persisted are the artifacts on disk, and a   *)
(* manifest that passes getOdsignInfo is one our key signed.              *)
(***************************************************************************)
EXTENDS OdsignProofs

----------------------------------------------------------------------------
(* What the helpers do to the producers of the files of a directory.       *)

\* An empty digest map is single-source.
LEMMA SingleSourceEmpty == SingleSource(EmptyMap)
BY DEF SingleSource, EmptyMap

\* removeDirectory only takes files away.
LEMMA RemoveDirectorySingleSource ==
    ASSUME NEW d, SingleSource(d.files), NEW e \in removeDirectory(d)
    PROVE  SingleSource(e.files)
<1>1. CASE e = NoDir  BY <1>1, SingleSourceEmpty DEF NoDir
<1>2. CASE e = d  BY <1>2
<1>3. CASE e # NoDir /\ e # d
  <2>1. PICK S \in SUBSET Files :
          e = [exists |-> TRUE,
               files  |-> [f \in Files |-> IF f \in S THEN d.files[f]
                                                      ELSE Absent]]
    BY <1>3 DEF removeDirectory
  <2>. QED  BY <2>1 DEF SingleSource
<1>. QED  BY <1>1, <1>2, <1>3

\* odrefresh --compile writes only files of its own into the directory.
LEMMA CompileEffectSingleSource ==
    ASSUME NEW r \in {"CompilationSuccess", "CompilationFailed"}, NEW d,
           NEW e \in compileEffect(r, d)
    PROVE  SingleSource(e.files)
<1>1. \A S \in SUBSET Files : SingleSource(OdrFiles(S))
  BY DEF SingleSource, OdrFiles
<1>2. CASE r = "CompilationSuccess"  BY <1>1, <1>2 DEF compileEffect
<1>3. CASE r = "CompilationFailed"
  <2>1. PICK S \in SUBSET Files : e = [exists |-> TRUE, files |-> OdrFiles(S)]
    BY <1>3 DEF compileEffect
  <2>. QED  BY <1>1, <2>1
<1>. QED  BY <1>2, <1>3

\* Files that pass verifyDigests against a single-source map are a
\* single-source set: each of them is the map's entry for its path.
LEMMA VerifyDigestsSingleSource ==
    ASSUME NEW c, NEW m, SingleSource(m), verifyDigests(c, m)
    PROVE  SingleSource(c)
BY DEF SingleSource, verifyDigests

\* Files that all carry a signature of the genuine CompOs key were all
\* compiled by the CompOs VM.
LEMMA CompOsSignedSingleSource ==
    ASSUME NEW c, NEW k \in {"none", "good"},
           \A f \in Files : c[f] # Absent => signedByCompOsKey(c[f], k)
    PROVE  SingleSource(c)
BY DEF SingleSource, signedByCompOsKey


----------------------------------------------------------------------------
(* The strengthening, one part at a time.                                 *)

USE FilesAssumption, ConfigAssumption, BoundsAssumption, OutcomesAssumption

\* Every action other than persistDigests' signing step leaves the set of
\* signed maps alone.
SignedUntouched ==
    \/ NotUpdatable \/ Start \/ RootCert \/ AddCompOsCert \/ PendCheck
    \/ Rename \/ Recheck \/ PendVerify \/ PersistData \/ PendPersisted
    \/ Compile \/ OutcomeOkay \/ OutcomeCompiled \/ OutcomeError
    \/ MainPersisted \/ VerifyArtifacts \/ Finish \/ ErrorScopeGuard
    \/ BootUp \/ Reboot \/ ProcessRestart \/ CompOsRun \/ TamperArtifacts
    \/ TamperManifest \/ TamperKeys \/ Hang \/ UNCHANGED vars

\* persistDigests signs the map it has just written, which is the digests
\* of the artifacts on disk, and those are single-source on that path.
LEMMA SignedStep ==
    IInv /\ OneSourceOnPath /\ [Next]_vars => SignedManifestsOneSource'
<1> SUFFICES ASSUME IInv, OneSourceOnPath, [Next]_vars
             PROVE  SignedManifestsOneSource'
  OBVIOUS
<1>0. SignedManifestsOneSource  BY DEF OneSourceOnPath
<1>1. CASE PersistSign
  <2>1. /\ pc = "persist_sign"
        /\ odsignInfo.map = digests /\ digests = artDir.files
    BY <1>1 DEF PersistSign, IInv, ArtifactsGenuineOnPath, PersistPcs
  <2>2. SingleSource(artDir.files)
    BY <2>1 DEF OneSourceOnPath, ArtifactsOneSourceOnPath, PersistPcs
  <2>3. signedHist' \in {signedHist, signedHist \cup {odsignInfo.map}}
    BY <1>1 DEF PersistSign
  <2>. QED  BY <1>0, <2>1, <2>2, <2>3 DEF SignedManifestsOneSource
<1>2. CASE SignedUntouched
  <2>1. UNCHANGED signedHist
    BY <1>2 DEF SignedUntouched, NotUpdatable, Start, RootCert,
                AddCompOsCert, PendCheck, Rename, Recheck, PendVerify,
                PersistData, PendPersisted, Compile, OutcomeOkay,
                OutcomeCompiled, OutcomeError, MainPersisted,
                VerifyArtifacts, Finish, ErrorScopeGuard, BootUp, Reboot,
                ProcessRestart, CompOsRun, TamperArtifacts, TamperManifest,
                TamperKeys, Hang, vars, env, disk, locals, props, history
  <2>. QED  BY <1>0, <2>1 DEF SignedManifestsOneSource
<1>. QED
  BY <1>1, <1>2 DEF Next, Daemon, Environment, SignedUntouched

\* Off main()'s path to success neither flag can be set, so a step that
\* stays off it and leaves both flags alone keeps the path part.
LEMMA SourceQuiet ==
    ASSUME ArtifactsGenuineOnPath,
           pc \notin PathPcs, pc' \notin PathPcs,
           digestsVerified' = digestsVerified, verifStatus' = verifStatus
    PROVE  ArtifactsOneSourceOnPath'
<1>1. ~digestsVerified /\ verifStatus # "1"
  BY DEF ArtifactsGenuineOnPath, PathPcs
<1>. QED
  BY <1>1, Zenon DEF ArtifactsOneSourceOnPath, TrustedArtifactsSingleSource,
                     PathPcs, PersistPcs

\* Along main()'s path to success the artifacts stay single-source:
\* odrefresh writes only its own files, adoption accepts only files the
\* CompOs key signed, persistDigests records what is there, and
\* verifyArtifacts accepts only files listed in a map our key signed.
LEMMA SourcePathStep ==
    IInv /\ OneSourceOnPath /\ [Next]_vars => ArtifactsOneSourceOnPath'
<1> SUFFICES ASSUME IInv, OneSourceOnPath, [Next]_vars
             PROVE  ArtifactsOneSourceOnPath'
  OBVIOUS
<1> USE DEF compileArtifacts, checkArtifacts, verifyExistingRootCert,
            createX509RootCert, leafCertValid, addCompOsCertToKeyring,
            verifyIntegrity
<1>0. /\ ArtifactsGenuineOnPath /\ TypeOK /\ DirsWellFormed
      /\ ManifestsSigned /\ CompOsKeyGenuine
      /\ ArtifactsOneSourceOnPath /\ SignedManifestsOneSource
  BY DEF IInv, OneSourceOnPath
<1>a. digestsVerified => pc \in {"outcome", "finish"} /\ status = "Okay"
  BY <1>0 DEF ArtifactsGenuineOnPath
<1>b. verifStatus = "1" => pc = "done"
  BY <1>0 DEF ArtifactsGenuineOnPath
<1>c. pc \in PersistPcs => SingleSource(artDir.files)
  BY <1>0 DEF ArtifactsOneSourceOnPath
<1> USE DEF ArtifactsOneSourceOnPath, TrustedArtifactsSingleSource
<1>1. CASE OffPath
  <2>1. /\ pc \notin PathPcs /\ pc' \notin PathPcs
        /\ UNCHANGED <<digestsVerified, verifStatus>>
    BY <1>1 DEF OffPath, NotUpdatable, Start, RootCert, AddCompOsCert,
                Rename, BootUp, CompOsRun, TamperArtifacts, TamperManifest,
                TamperKeys, Hang, Return, PathPcs, PersistPcs, locals,
                props
  <2>. QED  BY <1>0, <2>1, SourceQuiet
<1>2. CASE PendCheck \/ Recheck
  <2>1. ~digestsVerified /\ verifStatus # "1"
    BY <1>a, <1>b, <1>2 DEF PendCheck, Recheck
  <2>2. /\ pc' \in {"compile", "rename", "pendverify", "outcome"}
        /\ pc' = "outcome" => status' \notin {"CompilationSuccess",
                                               "CompilationFailed"}
        /\ UNCHANGED <<digestsVerified, verifStatus>>
    BY <1>2, CheckAssumption DEF PendCheck, Recheck, AfterCompOs, locals,
                                 props
  <2>. QED  BY <2>1, <2>2, Zenon DEF PersistPcs
<1>3. CASE PendVerify
  <2>1. ~digestsVerified /\ verifStatus # "1"
    BY <1>a, <1>b, <1>3 DEF PendVerify
  <2>2. CASE pc' = "persist_data"
    <3>1. /\ artDir' = artDir
          /\ UNCHANGED <<digestsVerified, verifStatus>>
          /\ \A f \in Files : artDir.files[f] # Absent =>
                 signedByCompOsKey(artDir.files[f], composKey)
      BY <1>3, <2>2 DEF PendVerify, locals, props
    <3>2. SingleSource(artDir.files)
      BY <1>0, <3>1, CompOsSignedSingleSource DEF CompOsKeyGenuine
    <3>. QED  BY <2>1, <2>2, <3>1, <3>2, Zenon DEF PersistPcs
  <2>3. CASE pc' # "persist_data"
    <3>1. pc' = "compile" /\ UNCHANGED <<digestsVerified, verifStatus>>
      BY <1>3, <2>3 DEF PendVerify, locals, props
    <3>. QED  BY <2>1, <3>1, Zenon DEF PersistPcs
  <2>. QED  BY <2>2, <2>3
<1>4. CASE PersistData \/ PersistSign
  <2>1. /\ ~digestsVerified /\ verifStatus # "1"
        /\ SingleSource(artDir.files)
    BY <1>a, <1>b, <1>c, <1>4 DEF PersistData, PersistSign, PersistPcs
  <2>2. /\ UNCHANGED <<artDir, digestsVerified, verifStatus>>
        /\ pc' \in PersistPcs
    BY <1>4 DEF PersistData, PersistSign, PersistReturn, PersistPcs, disk,
                locals, props
  <2>. QED  BY <2>1, <2>2, Zenon DEF PersistPcs
<1>5. CASE PendPersisted
  <2>1. /\ ~digestsVerified /\ verifStatus # "1"
        /\ SingleSource(artDir.files)
    BY <1>a, <1>b, <1>c, <1>5 DEF PendPersisted, PersistPcs
  <2>2. CASE persistOk
    <3>1. /\ status' = "Okay" /\ pc' = "outcome"
          /\ artDir' = artDir /\ verifStatus' = verifStatus
      BY <1>5, <2>2 DEF PendPersisted
    <3>. QED  BY <2>1, <3>1, Zenon DEF PersistPcs
  <2>3. CASE ~persistOk
    <3>1. pc' = "compile" /\ UNCHANGED <<digestsVerified, verifStatus>>
      BY <1>5, <2>3, Zenon DEF PendPersisted
    <3>. QED  BY <2>1, <3>1, Zenon DEF PersistPcs
  <2>. QED  BY <2>2, <2>3
<1>6. CASE Compile
  <2>1. ~digestsVerified /\ verifStatus # "1"
    BY <1>a, <1>b, <1>6 DEF Compile
  <2>2. PICK r \in CompileOutcomes :
          status' = r /\ artDir' \in compileEffect(r, artDir)
    BY <1>6 DEF Compile
  <2>3. status' \in {"CompilationSuccess", "CompilationFailed"}
          => SingleSource(artDir'.files)
    BY <2>2, CompileEffectSingleSource
  <2>4. pc' = "outcome" /\ UNCHANGED <<digestsVerified, verifStatus>>
    BY <1>6 DEF Compile, locals, props
  <2>. QED  BY <2>1, <2>3, <2>4, Zenon DEF PersistPcs
<1>7. CASE OutcomeOkay
  <2>1. verifStatus # "1"  BY <1>b, <1>7 DEF OutcomeOkay
  <2>2. /\ pc' \in {"verify", "finish"}
        /\ pc' = "verify" => ~digestsVerified
        /\ pc' = "finish" => digestsVerified \/ ~artDir.exists
        /\ UNCHANGED <<artDir, status, digestsVerified, verifStatus>>
    BY <1>7 DEF OutcomeOkay, disk, locals, props
  <2>3. ~artDir.exists => SingleSource(artDir.files)
    BY <1>0, SingleSourceEmpty DEF DirsWellFormed
  <2>4. digestsVerified => SingleSource(artDir.files)
    BY <1>0
  <2>. QED  BY <2>1, <2>2, <2>3, <2>4, Zenon DEF PersistPcs
<1>8. CASE OutcomeCompiled
  <2>1. /\ ~digestsVerified /\ verifStatus # "1"
        /\ SingleSource(artDir.files)
    BY <1>0, <1>a, <1>b, <1>8 DEF OutcomeCompiled
  <2>2. /\ pc' \in {"persist_data", "guard"}
        /\ UNCHANGED <<artDir, digestsVerified, verifStatus>>
    BY <1>8 DEF OutcomeCompiled, Return, disk, locals, props
  <2>. QED  BY <2>1, <2>2, Zenon DEF PersistPcs
<1>9. CASE OutcomeError \/ MainPersisted
  <2>1. ~digestsVerified /\ verifStatus # "1"
    BY <1>a, <1>b, <1>9 DEF OutcomeError, MainPersisted
  <2>2. pc = "mainpersisted" => SingleSource(artDir.files)
    BY <1>c DEF PersistPcs
  <2>3. /\ pc' \in {"finish", "guard"}
        /\ pc' = "finish" => pc = "mainpersisted"
        /\ UNCHANGED <<artDir, digestsVerified, verifStatus>>
    BY <1>9 DEF OutcomeError, MainPersisted, Return, disk, locals, props
  <2>. QED  BY <2>1, <2>2, <2>3, Zenon DEF PersistPcs
<1>10. CASE VerifyArtifacts
  <2>1. ~digestsVerified /\ verifStatus # "1"
    BY <1>a, <1>b, <1>10 DEF VerifyArtifacts
  <2>2. /\ pc' \in {"finish", "guard"}
        /\ pc' = "finish" => /\ odsignInfoValid
                              /\ verifyDigests(computeDigests(artDir),
                                               odsignInfo.map)
        /\ UNCHANGED <<artDir, digestsVerified, verifStatus>>
    BY <1>10 DEF VerifyArtifacts, Return, disk, locals, props
  <2>3. odsignInfoValid => SingleSource(odsignInfo.map)
    BY <1>0 DEF odsignInfoValid, ManifestsSigned, SignedManifestsOneSource
  <2>4. pc' = "finish" => SingleSource(artDir.files)
    BY <2>2, <2>3, VerifyDigestsSingleSource DEF computeDigests
  <2>. QED  BY <2>1, <2>2, <2>4, Zenon DEF PersistPcs
<1>11. CASE Finish
  <2>1. SingleSource(artDir.files)  BY <1>0, <1>11 DEF Finish
  <2>2. /\ pc' = "done" /\ verifStatus' = "1" /\ ~digestsVerified'
        /\ artDir' = artDir
    BY <1>11, Zenon DEF Finish, ExitProcess, disk
  <2>. QED  BY <2>1, <2>2, Zenon DEF PersistPcs
<1>12. CASE ErrorScopeGuard \/ Reboot
  <2>1. /\ pc' \in {"done", "down"} /\ verifStatus' \in {"0", "unset"}
        /\ ~digestsVerified'
    BY <1>12, Zenon DEF ErrorScopeGuard, Reboot, ExitProcess
  <2>. QED  BY <2>1, Zenon DEF PersistPcs
<1>13. CASE UNCHANGED vars
  BY <1>0, <1>13 DEF vars, env, disk, locals, props, history
<1>14. CASE ProcessRestart
  <2>1. verifStatus # "1"  BY <1>b, <1>14 DEF ProcessRestart
  <2>2. /\ pc' = "start" /\ ~digestsVerified'
        /\ verifStatus' = verifStatus
    BY <1>14, Zenon DEF ProcessRestart, ExitProcess, props
  <2>. QED  BY <2>1, <2>2, Zenon DEF PersistPcs
<1>. QED
  BY <1>1, <1>2, <1>3, <1>4, <1>5, <1>6, <1>7, <1>8, <1>9, <1>10, <1>11,
     <1>12, <1>13, <1>14 DEF Next, Daemon, Environment, OffPath

----------------------------------------------------------------------------
(* The theorems.                                                           *)

\* A wiped /data: nothing signed, no artifacts, no verdict.
LEMMA InitOneSource == Init => OneSourceOnPath
<1> SUFFICES ASSUME Init PROVE OneSourceOnPath
  OBVIOUS
<1>1. SignedManifestsOneSource  BY DEF Init, SignedManifestsOneSource
<1>2. ArtifactsOneSourceOnPath
  BY Zenon DEF Init, LocalsInit, PropsInit, ArtifactsOneSourceOnPath,
               TrustedArtifactsSingleSource, PersistPcs
<1>. QED  BY <1>1, <1>2 DEF OneSourceOnPath

\* Every step keeps the strengthening, given the inductive invariant.
LEMMA NextOneSource ==
    IInv /\ OneSourceOnPath /\ [Next]_vars => OneSourceOnPath'
BY SignedStep, SourcePathStep DEF OneSourceOnPath

\* Every manifest our key ever signed lists artifacts of one compiler, and
\* along main()'s path from a compilation, an adoption of CompOs artifacts
\* or a digest verification to the report of success, kArtArtifactsDir
\* holds artifacts of one compiler, whatever the attacker and the crashes do.
THEOREM OneSourceOnPathHolds == Spec => []OneSourceOnPath
<1>1. Spec => [](IInv /\ OneSourceOnPath)
  BY InitIInv, NextIInv, InitOneSource, NextOneSource, PTL DEF Spec
<1>. QED  BY <1>1, PTL

\* Whatever an attacker with write access to /data copies between the two
\* artifact directories, and wherever a boot or the odsign process is cut
\* short (in the middle of removing the current artifacts and renaming
\* the pending ones onto them, say), odsign reports
\* odsign.verification.success = 1 only for a directory whose artifacts
\* were all compiled by odrefresh on the device or all by the CompOs VM:
\* never a mix of the two.
THEOREM TrustedArtifactsSingleSourceHolds ==
    Spec => []TrustedArtifactsSingleSource
<1>1. Spec => []OneSourceOnPath  BY OneSourceOnPathHolds
<1>2. OneSourceOnPath => TrustedArtifactsSingleSource
  BY DEF OneSourceOnPath, ArtifactsOneSourceOnPath
<1>. QED  BY <1>1, <1>2, PTL

=============================================================================
