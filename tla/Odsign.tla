------------------------------- MODULE Odsign -------------------------------
(***************************************************************************)
(* The on-device signing daemon (src/ondevice-signing/odsign_main.cpp)    *)
(* across any number of boots.  One boot is one run of main(): a state     *)
(* machine over pc whose steps are the daemon's calls that change state.  *)
(* Between boots (pc = "down") the files under /data persist; an attacker *)
(* with write access to /data, but without the keystore key, may rewrite *)
(* them, and the CompOs VM may leave a new pending key and pending         *)
(* artifacts.  A crash (power loss, process death) may happen between any *)
(* two steps of a boot; then no scope guard runs.                         *)
(*                                                                         *)
(* Data is abstracted to what the properties tell apart: a file's content *)
(* is a record saying who produced it (odrefresh on the device, the       *)
(* CompOs VM, or the attacker) and for which file name; a digest is the   *)
(* content itself (the hash is collision resistant); a signature file is  *)
(* the digest map it is a valid signature of, if any.                     *)
(***************************************************************************)
EXTENDS Naturals

CONSTANTS
    Files,            \* names of the artifact files odrefresh can produce
    CheckOutcomes,    \* exit codes `odrefresh --check' may return
    CompileOutcomes,  \* exit codes `odrefresh --compile' may return
    SupportsFsVerity, \* /proc/sys/fs/verity exists
    CompOsAvailable,  \* compOsPresent() && isDebugBuild()
    MaxBoots,         \* bound on the number of boots explored
    MaxTampers,       \* bound on the number of attacker writes explored
    MaxCrashes,       \* bound on the number of odsign process crashes
    SubprocessMayHang \* odrefresh or compos_verify_key may never exit

\* art::odrefresh::ExitCode, plus every other int the cast may produce.
ExitCodes == {"Okay", "CompilationRequired", "CompilationSuccess",
              "CompilationFailed", "CleanupFailed", "Unexpected"}

ASSUME FilesAssumption == Files # {}
ASSUME ConfigAssumption ==
    {SupportsFsVerity, CompOsAvailable, SubprocessMayHang} \subseteq BOOLEAN
ASSUME BoundsAssumption ==
    {MaxBoots, MaxTampers, MaxCrashes} \subseteq Nat
ASSUME OutcomesAssumption ==
    /\ CheckOutcomes \subseteq ExitCodes
    /\ CompileOutcomes \subseteq ExitCodes
\* `odrefresh --check' never reports that it compiled anything: main()
\* signs whatever is in the artifacts directory when it sees those codes.
ASSUME CheckAssumption ==
    CheckOutcomes \cap {"CompilationSuccess", "CompilationFailed"} = {}

----------------------------------------------------------------------------
(* Files, directories, manifests, keys and certificates.                  *)

Producers == {"odr", "compos", "forged"}
Content   == [src : Producers, name : Files]
Absent    == [src |-> "none", name |-> "none"]
FileVal   == Content \cup {Absent}

\* A DigestMap (std::map<path, hex digest>); Absent = path not a key.
DigestMap == [Files -> FileVal]
EmptyMap  == [f \in Files |-> Absent]

Dir   == [exists : BOOLEAN, files : DigestMap]
NoDir == [exists |-> FALSE, files |-> EmptyMap]

\* odsign.info: ok = FALSE is a missing or unparseable data file.
InfoFile == [ok : BOOLEAN, map : DigestMap]
NoInfo   == [ok |-> FALSE, map |-> EmptyMap]
\* odsign.info.signature: the map it is a valid signature of, if signed.
SigFile  == [signed : BOOLEAN, over : DigestMap]
NoSig    == [signed |-> FALSE, over |-> EmptyMap]

\* A CompOs public key file: genuine (the VM holds its private key blob)
\* or planted by the attacker.
KeyVal == {"none", "good", "evil"}
\* compos_key.cert: signed = issued by our signing key for `key'.
CertVal == [signed : BOOLEAN, key : KeyVal]
NoCert  == [signed |-> FALSE, key |-> "none"]
RootCertVal == {"none", "ours", "other"}

Genuine(c) == c.src \in {"odr", "compos"}

\* A digest map that lists no attacker file.
AllGenuine(m) == \A f \in Files : m[f] # Absent => Genuine(m[f])

PcVal == {"down", "start", "rootcert", "compos", "pendcheck", "rename",
          "recheck", "pendverify", "persist_data", "persist_sign",
          "pendpersisted", "mainpersisted", "compile", "outcome",
          "verify", "finish", "done", "hung"}

----------------------------------------------------------------------------
VARIABLES
    \* ro.apex.updatable, a read-only property of the build
    apexUpdatable,
    \* persistent files under /data
    artDir, pendDir, odsignInfo, odsignSig, rootCert, composCert,
    curKey, pendKey,
    \* main()'s locals and the daemon's call stack
    pc, useCompOs, status, digestsVerified, composKey, digests, ret,
    persistOk,
    \* boot-status properties (cleared by a reboot) and exit status
    keyDone, verifStatus, verifDone, exitCode,
    \* history: what the signing key ever signed
    signedHist, certHist, keyUsedAfterDone,
    \* the environment: boots so far, attacker writes so far, whether the
    \* CompOs VM ran since the last boot, and odsign crashes so far
    boots, tampers, composRan, crashes

disk     == <<artDir, pendDir, odsignInfo, odsignSig, rootCert, composCert,
              curKey, pendKey>>
locals   == <<pc, useCompOs, status, digestsVerified, composKey, digests,
              ret, persistOk>>
props    == <<keyDone, verifStatus, verifDone, exitCode>>
history  == <<signedHist, certHist, keyUsedAfterDone>>
env      == <<apexUpdatable, boots, tampers, composRan, crashes>>
vars     == <<env, disk, locals, props, history>>

----------------------------------------------------------------------------
(* Helpers of odsign_main.cpp.                                             *)

\* directoryHasContent: is_directory && !is_empty.
directoryHasContent(d) == d.exists /\ \E f \in Files : d.files[f] # Absent

\* removeDirectory: remove_all either removes the tree or fails part way,
\* leaving the directory with some of its entries; the error is ignored.
removeDirectory(d) ==
    IF d.exists
    THEN {NoDir} \cup
         {[exists |-> TRUE,
           files  |-> [f \in Files |-> IF f \in S THEN d.files[f] ELSE Absent]]
            : S \in SUBSET Files}
    ELSE {d}

\* std::filesystem::rename of a directory onto kArtArtifactsDir succeeds
\* only if the target does not exist or is an empty directory.
renamePossible(to) == ~directoryHasContent(to)

\* compileArtifacts / checkArtifacts: the exit code of `odrefresh
\* --compile' / `odrefresh --check', cast to art::odrefresh::ExitCode.
compileArtifacts == CompileOutcomes
checkArtifacts == CheckOutcomes

\* verifyExistingRootCert: the certificate file exists and holds the
\* public key of our keystore key (a keystore error fails it as well).
verifyExistingRootCert == rootCert = "ours"

\* extractRsaPublicKeyFromLeafCert: the certificate file exists, verifies
\* under our public key and has the CompOs subject.
leafCertValid(c) == c.signed

\* Mutant: the directory entries are returned instead of their digests.
computeDigestsEntries(d) == d

\* computeDigests: the digest of every regular file under the directory.
computeDigests(d) == d.files

\* Mutant: a computed path missing from the trusted map is skipped.
verifyDigestsKnownOnly(computed, trusted) ==
    \A f \in Files : computed[f] # Absent /\ trusted[f] # Absent =>
                       trusted[f] = computed[f]

\* Mutant: the trusted map is iterated instead of the computed one.
verifyDigestsTrustedOnly(computed, trusted) ==
    \A f \in Files : trusted[f] # Absent => computed[f] = trusted[f]

\* verifyDigests: every computed path is trusted with the same digest;
\* trusted paths missing from the computed map are not looked at.
verifyDigests(computed, trusted) ==
    \A f \in Files : computed[f] # Absent => trusted[f] = computed[f]

\* verifyIntegrityFsVerity / verifyIntegrityNoFsVerity: the digests of the
\* artifacts (fs-verity measurements, or recomputed) against the trusted ones.
verifyIntegrity(d, trusted) == verifyDigests(computeDigests(d), trusted)

\* Mutant: the data file is parsed without checking its signature.
odsignInfoUnsigned == odsignInfo.ok

\* getOdsignInfo: the signature verifies over the data file's bytes.
odsignInfoValid == odsignInfo.ok /\ odsignSig.signed
                   /\ odsignSig.over = odsignInfo.map

\* Mutant: the exit code of compos_verify_key is ignored.
startCompOsIgnoringResult(keyFile) ==
    IF keyFile # "none" THEN BOOLEAN ELSE {FALSE}

\* startCompOsAndVerifyKey: false if the key file is unreadable; else the
\* VM confirms a key only if it holds the matching key blob, and the VM
\* may fail to start.
startCompOsAndVerifyKey(keyFile) ==
    IF keyFile = "good" THEN BOOLEAN ELSE {FALSE}

\* verifyAllFilesUsingCompOs (VerityUtils): every file carries a valid
\* signature by the CompOs key; the attacker can sign only with its own.
signedByCompOsKey(c, k) ==
    \/ c.src = "compos" /\ k = "good"
    \/ c.src = "forged" /\ k = "evil"

\* odrefresh --compile: what the artifacts directory holds afterwards.
\* It cleans the directory before compiling; on kOkay the artifacts on
\* /system may be used and the directory removed.
OdrFiles(S) == [f \in Files |-> IF f \in S THEN [src |-> "odr", name |-> f]
                                           ELSE Absent]
compileEffect(r, d) ==
    CASE r = "Okay"               -> {d, NoDir}
      [] r = "CompilationSuccess" ->
           {[exists |-> TRUE, files |-> OdrFiles(Files)]}
      [] r = "CompilationFailed"  -> {[exists |-> TRUE, files |-> OdrFiles(S)]
                                        : S \in SUBSET Files}
      [] OTHER                    -> {d}

----------------------------------------------------------------------------
(* Initial state: a freshly wiped /data.                                   *)

LocalsInit ==
    /\ useCompOs = FALSE
    /\ status = "CompilationRequired"
    /\ digestsVerified = FALSE
    /\ composKey = "none"
    /\ digests = EmptyMap
    /\ ret = "none"
    /\ persistOk = FALSE

PropsInit ==
    /\ keyDone = FALSE
    /\ verifStatus = "unset"
    /\ verifDone = FALSE
    /\ exitCode = "none"

Init ==
    /\ apexUpdatable \in BOOLEAN
    /\ boots = 0 /\ tampers = 0 /\ composRan = FALSE /\ crashes = 0
    /\ artDir = NoDir /\ pendDir = NoDir
    /\ odsignInfo = NoInfo /\ odsignSig = NoSig
    /\ rootCert = "none" /\ composCert = NoCert
    /\ curKey = "none" /\ pendKey = "none"
    /\ pc = "down"
    /\ LocalsInit
    /\ PropsInit
    /\ signedHist = {} /\ certHist = {} /\ keyUsedAfterDone = FALSE

----------------------------------------------------------------------------
(* Shared pieces of the steps of main().                                   *)

\* `return code' from main(): the armed scope guard runs next.
Return(code) == pc' = "guard" /\ exitCode' = code

\* main() returns and the process exits: its locals are gone.
ExitProcess ==
    /\ useCompOs' = FALSE /\ status' = "CompilationRequired"
    /\ digestsVerified' = FALSE /\ composKey' = "none"
    /\ digests' = EmptyMap /\ ret' = "none" /\ persistOk' = FALSE

\* Where main() goes once the CompOs path has produced odrefresh_status.
AfterCompOs(s) == IF s = "CompilationRequired" THEN "compile" ELSE "outcome"

\* Where persistDigests returns to.
PersistReturn == IF ret = "pending" THEN "pendpersisted" ELSE "mainpersisted"

\* A use of the signing key, recording whether init had already been told
\* (odsign.key.done) that the key is no longer needed.
UseKey == keyUsedAfterDone' = (keyUsedAfterDone \/ keyDone)

\* createX509RootCert: a self-signed certificate, signed with our key.
createX509RootCert == rootCert' = "ours" /\ UseKey

\* addCompOsCertToFsVerityKeyring after verifyCompOsKey succeeded: the
\* certificate goes into the fs-verity keyring, or is unlinked and an
\* error returned.
addCompOsCertToKeyring(key, cert) ==
    \/ composCert' = cert /\ composKey' = key /\ pc' = "pendcheck"
    \/ composCert' = NoCert /\ UNCHANGED composKey /\ pc' = "compile"

----------------------------------------------------------------------------
(* main(), one action per step.                                            *)

\* ro.apex.updatable is false: `return 0' with the guard still armed.
NotUpdatable ==
    /\ pc = "start" /\ ~apexUpdatable
    /\ Return("ok")
    /\ UNCHANGED <<env, disk, useCompOs, status, digestsVerified,
                   composKey, digests, ret, persistOk, keyDone, verifStatus,
                   verifDone, history>>

\* KeystoreKey::getInstance(), the fs-verity probe and the useCompOs test.
Start ==
    /\ pc = "start" /\ apexUpdatable
    /\ \/ /\ useCompOs' = (SupportsFsVerity /\ CompOsAvailable)
          /\ pc' = IF SupportsFsVerity THEN "rootcert" ELSE "compile"
          /\ UNCHANGED exitCode
       \/ /\ Return("fail")                         \* no keystore key
          /\ UNCHANGED useCompOs
    /\ UNCHANGED <<env, disk, status, digestsVerified, composKey, digests,
                   ret, persistOk, keyDone, verifStatus, verifDone, history>>

\* verifyExistingRootCert, else createX509RootCert, then
\* addCertToFsVerityKeyring(kSigningKeyCert, "fsv_ods").
RootCert ==
    /\ pc = "rootcert"
    /\ LET Register ==
             \/ /\ pc' = IF useCompOs THEN "compos" ELSE "compile"
                /\ UNCHANGED exitCode
             \/ Return("fail")
       IN \/ /\ verifyExistingRootCert
             /\ UNCHANGED <<rootCert, keyUsedAfterDone>>
             /\ Register
          \/ /\ createX509RootCert
             /\ Register
          \/ /\ UNCHANGED <<rootCert, keyUsedAfterDone>>
             /\ Return("fail")                    \* creation failed
    /\ UNCHANGED <<env, artDir, pendDir, odsignInfo, odsignSig, composCert,
                   curKey, pendKey, useCompOs, status, digestsVerified,
                   composKey, digests, ret, persistOk, keyDone, verifStatus,
                   verifDone, signedHist, certHist>>

\* addCompOsCertToFsVerityKeyring, with verifyCompOsKey inlined: (a) the
\* VM confirms the pending key and promotes it to current, else (b) a
\* cached compos_key.cert issued by our key, else (c) the VM confirms the
\* current key; after (a) or (c) the current key file is read and a new
\* leaf certificate is issued for it.  The certificate is then added to
\* the fs-verity keyring, and unlinked if that fails.  Any error leaves
\* odrefresh_status at kCompilationRequired.
AddCompOsCert ==
    /\ pc = "compos"
    /\ \E pendingOk \in startCompOsAndVerifyKey(pendKey) :
       LET current == IF pendingOk THEN pendKey ELSE curKey
           NoKey == UNCHANGED <<composCert, composKey>> /\ pc' = "compile"
       IN
       /\ curKey' = current
       /\ pendKey' = IF pendingOk THEN "none" ELSE pendKey
       /\ \/ /\ ~pendingOk /\ leafCertValid(composCert)      \* (b) cached cert
             /\ UNCHANGED <<certHist, keyUsedAfterDone>>
             /\ addCompOsCertToKeyring(composCert.key, composCert)
          \/ \E verified \in IF pendingOk THEN {TRUE}
                             ELSE startCompOsAndVerifyKey(curKey) :
               IF ~verified \/ current = "none"
               THEN NoKey /\ UNCHANGED <<certHist, keyUsedAfterDone>>
               ELSE /\ UseKey
                    /\ \/ /\ certHist' = certHist \cup {current}
                          /\ addCompOsCertToKeyring(current,
                                          [signed |-> TRUE, key |-> current])
                       \/ /\ UNCHANGED certHist     \* createLeafCertificate fails
                          /\ NoKey
    /\ UNCHANGED <<env, artDir, pendDir, odsignInfo, odsignSig, rootCert,
                   useCompOs, status, digestsVerified, digests, ret, persistOk,
                   props, signedHist>>

\* checkCompOsPendingArtifacts, up to the switch: nothing pending, or
\* `odrefresh --check' on the current artifacts.  A result other than
\* kCompilationRequired is returned as is (pending ones deleted on kOkay);
\* otherwise the current artifacts are removed before the rename.
PendCheck ==
    /\ pc = "pendcheck"
    /\ \/ /\ ~directoryHasContent(pendDir)
          /\ pc' = "compile"
          /\ UNCHANGED <<artDir, pendDir, status>>
       \/ /\ directoryHasContent(pendDir)
          /\ \E r \in checkArtifacts :
               IF r = "CompilationRequired"
               THEN /\ artDir' \in removeDirectory(artDir)
                    /\ pc' = "rename"
                    /\ UNCHANGED <<pendDir, status>>
               ELSE /\ pendDir' \in IF r = "Okay" THEN removeDirectory(pendDir)
                                                  ELSE {pendDir}
                    /\ status' = r
                    /\ pc' = AfterCompOs(r)
                    /\ UNCHANGED artDir
    /\ UNCHANGED <<env, odsignInfo, odsignSig, rootCert, composCert, curKey,
                   pendKey, useCompOs, digestsVerified, composKey, digests,
                   ret, persistOk, props, history>>

\* rename(kCompOsPendingArtifactsDir, kArtArtifactsDir); on failure the
\* pending artifacts are removed and kCompilationRequired returned.
Rename ==
    /\ pc = "rename"
    /\ \/ /\ renamePossible(artDir)
          /\ artDir' = pendDir
          /\ pendDir' = NoDir
          /\ pc' = "recheck"
          /\ UNCHANGED status
       \/ /\ pendDir' \in removeDirectory(pendDir)
          /\ status' = "CompilationRequired"
          /\ pc' = "compile"
          /\ UNCHANGED artDir
    /\ UNCHANGED <<env, odsignInfo, odsignSig, rootCert, composCert, curKey,
                   pendKey, useCompOs, digestsVerified, composKey, digests,
                   ret, persistOk, props, history>>

\* `odrefresh --check' on the promoted artifacts; not kOkay is returned.
Recheck ==
    /\ pc = "recheck"
    /\ \E r \in checkArtifacts :
         IF r = "Okay"
         THEN pc' = "pendverify" /\ UNCHANGED status
         ELSE status' = r /\ pc' = AfterCompOs(r)
    /\ UNCHANGED <<env, disk, useCompOs, digestsVerified, composKey,
                   digests, ret, persistOk, props, history>>

\* Mutant: the promoted artifacts are digested without checking their
\* CompOs signatures.
PendVerifyUnsigned ==
    /\ pc = "pendverify"
    /\ \/ /\ artDir.exists
          /\ digests' = artDir.files
          /\ ret' = "pending"
          /\ pc' = "persist_data"
          /\ UNCHANGED <<artDir, status>>
       \/ /\ artDir' \in removeDirectory(artDir)
          /\ status' = "CompilationRequired"
          /\ pc' = "compile"
          /\ UNCHANGED <<digests, ret>>
    /\ UNCHANGED <<env, pendDir, odsignInfo, odsignSig, rootCert,
                   composCert, curKey, pendKey, useCompOs, digestsVerified,
                   composKey, persistOk, props, history>>

\* verifyAllFilesUsingCompOs(kArtArtifactsDir, compos_key): on success the
\* digests are persisted; on failure the artifacts are removed and
\* kCompilationRequired returned.
PendVerify ==
    /\ pc = "pendverify"
    /\ \/ /\ artDir.exists
          /\ \A f \in Files : artDir.files[f] # Absent =>
                                signedByCompOsKey(artDir.files[f], composKey)
          /\ digests' = artDir.files
          /\ ret' = "pending"
          /\ pc' = "persist_data"
          /\ UNCHANGED <<artDir, status>>
       \/ /\ artDir' \in removeDirectory(artDir)
          /\ status' = "CompilationRequired"
          /\ pc' = "compile"
          /\ UNCHANGED <<digests, ret>>
    /\ UNCHANGED <<env, pendDir, odsignInfo, odsignSig, rootCert,
                   composCert, curKey, pendKey, useCompOs, digestsVerified,
                   composKey, persistOk, props, history>>

\* Mutant: a failed write of the data file is ignored.
PersistDataUnchecked ==
    /\ pc = "persist_data"
    /\ odsignInfo' \in {[ok |-> TRUE, map |-> digests], odsignInfo, NoInfo}
    /\ pc' = "persist_sign"
    /\ UNCHANGED <<env, artDir, pendDir, odsignSig, rootCert, composCert,
                   curKey, pendKey, useCompOs, status, digestsVerified,
                   composKey, digests, ret, persistOk, props, history>>

\* persistDigests, first half: the data file is truncated and the
\* serialized map written; a failed open or write returns an error.
PersistData ==
    /\ pc = "persist_data"
    /\ \/ /\ odsignInfo' = [ok |-> TRUE, map |-> digests]
          /\ pc' = "persist_sign"
          /\ UNCHANGED persistOk
       \/ /\ odsignInfo' \in {odsignInfo, NoInfo}
          /\ persistOk' = FALSE
          /\ pc' = PersistReturn
    /\ UNCHANGED <<env, artDir, pendDir, odsignSig, rootCert, composCert,
                   curKey, pendKey, useCompOs, status, digestsVerified,
                   composKey, digests, ret, props, history>>

\* persistDigests, second half: the bytes just written are read back and
\* signed, and the signature written with WriteStringToFile, whose result
\* is not checked.
PersistSign ==
    /\ pc = "persist_sign"
    /\ UseKey
    /\ \/ /\ persistOk' = FALSE                   \* key.sign fails
          /\ UNCHANGED <<odsignSig, signedHist>>
       \/ /\ persistOk' = TRUE
          /\ signedHist' = signedHist \cup {odsignInfo.map}
          /\ odsignSig' \in {[signed |-> TRUE, over |-> odsignInfo.map],
                             odsignSig, NoSig}
    /\ pc' = PersistReturn
    /\ UNCHANGED <<env, artDir, pendDir, odsignInfo, rootCert, composCert,
                   curKey, pendKey, useCompOs, status, digestsVerified,
                   composKey, digests, ret, props, certHist>>

\* checkCompOsPendingArtifacts after persistDigests: odsign.key.done is
\* set either way; on failure the artifacts are removed.
PendPersisted ==
    /\ pc = "pendpersisted"
    /\ keyDone' = TRUE
    /\ IF persistOk
       THEN /\ digestsVerified' = TRUE
            /\ status' = "Okay"
            /\ pc' = "outcome"
            /\ UNCHANGED artDir
       ELSE /\ artDir' \in removeDirectory(artDir)
            /\ status' = "CompilationRequired"
            /\ pc' = "compile"
            /\ UNCHANGED digestsVerified
    /\ UNCHANGED <<env, pendDir, odsignInfo, odsignSig, rootCert,
                   composCert, curKey, pendKey, useCompOs, composKey, digests,
                   ret, persistOk, verifStatus, verifDone, exitCode, history>>

\* compileArtifacts(kForceCompilation), run when the status is still
\* kCompilationRequired.
Compile ==
    /\ pc = "compile"
    /\ \E r \in compileArtifacts :
         /\ status' = r
         /\ artDir' \in compileEffect(r, artDir)
    /\ pc' = "outcome"
    /\ UNCHANGED <<env, pendDir, odsignInfo, odsignSig, rootCert,
                   composCert, curKey, pendKey, useCompOs, digestsVerified,
                   composKey, digests, ret, persistOk, props, history>>

\* kOkay: unless CompOs digests were verified, artifacts that are present
\* (or whose access() fails with an errno other than ENOENT) are verified.
OutcomeOkay ==
    /\ pc = "outcome" /\ status = "Okay"
    /\ \E accessError \in BOOLEAN :
         pc' = IF ~digestsVerified /\ (artDir.exists \/ accessError)
               THEN "verify" ELSE "finish"
    /\ UNCHANGED <<env, disk, useCompOs, status, digestsVerified,
                   composKey, digests, ret, persistOk, props, history>>

\* kCompilationSuccess / kCompilationFailed: addFilesToVerityRecursive
\* (which signs with the key) or computeDigests, then persistDigests.
OutcomeCompiled ==
    /\ pc = "outcome"
    /\ status \in {"CompilationSuccess", "CompilationFailed"}
    /\ keyUsedAfterDone' = (keyUsedAfterDone \/ (SupportsFsVerity /\ keyDone))
    /\ \/ /\ artDir.exists
          /\ digests' = computeDigests(artDir)
          /\ ret' = "main"
          /\ pc' = "persist_data"
          /\ UNCHANGED exitCode
       \/ /\ Return("fail")
          /\ UNCHANGED <<digests, ret>>
    /\ UNCHANGED <<env, disk, useCompOs, status, digestsVerified,
                   composKey, persistOk, keyDone, verifStatus, verifDone,
                   signedHist, certHist>>

\* kCleanupFailed or an unexpected exit code: return -1.
OutcomeError ==
    /\ pc = "outcome"
    /\ status \notin {"Okay", "CompilationSuccess", "CompilationFailed"}
    /\ Return("fail")
    /\ UNCHANGED <<env, disk, useCompOs, status, digestsVerified,
                   composKey, digests, ret, persistOk, keyDone, verifStatus,
                   verifDone, history>>

\* main() after persistDigests: an error returns -1.
MainPersisted ==
    /\ pc = "mainpersisted"
    /\ \/ persistOk /\ pc' = "finish" /\ UNCHANGED exitCode
       \/ ~persistOk /\ Return("fail")
    /\ UNCHANGED <<env, disk, useCompOs, status, digestsVerified,
                   composKey, digests, ret, persistOk, keyDone, verifStatus,
                   verifDone, history>>

\* verifyArtifacts: getOdsignInfo, odsign.key.done, then the digests of
\* the artifacts (from fs-verity or recomputed) against the trusted ones.
\* Any read or iteration error fails as well.
VerifyArtifacts ==
    /\ pc = "verify"
    /\ keyDone' = TRUE
    /\ \/ /\ odsignInfoValid
          /\ artDir.exists
          /\ verifyIntegrity(artDir, odsignInfo.map)
          /\ pc' = "finish"
          /\ UNCHANGED exitCode
       \/ Return("fail")
    /\ UNCHANGED <<env, disk, useCompOs, status, digestsVerified,
                   composKey, digests, ret, persistOk, verifStatus, verifDone,
                   history>>

\* The success path: the guard is disabled and success reported.
\* Mutant: scope_guard.Disable() is missing, so the guard still runs.
FinishGuardArmed ==
    /\ pc = "finish"
    /\ keyDone' = TRUE
    /\ verifStatus' = "1"
    /\ verifDone' = TRUE
    /\ exitCode' = "ok"
    /\ pc' = "guard"
    /\ ExitProcess
    /\ UNCHANGED <<env, disk, history>>

Finish ==
    /\ pc = "finish"
    /\ keyDone' = TRUE
    /\ verifStatus' = "1"
    /\ verifDone' = TRUE
    /\ exitCode' = "ok"
    /\ pc' = "done"
    /\ ExitProcess
    /\ UNCHANGED <<env, disk, history>>

\* Mutant: the guard does not set odsign.verification.done.
ErrorScopeGuardNoDone ==
    /\ pc = "guard"
    /\ artDir' \in removeDirectory(artDir)
    /\ pendDir' \in removeDirectory(pendDir)
    /\ keyDone' = TRUE
    /\ verifStatus' = "0"
    /\ pc' = "done"
    /\ ExitProcess
    /\ UNCHANGED <<env, odsignInfo, odsignSig, rootCert, composCert,
                   curKey, pendKey, exitCode, verifDone, history>>

\* errorScopeGuard, run as main() returns with the guard armed: both
\* artifact directories removed (errors ignored), then the properties.
ErrorScopeGuard ==
    /\ pc = "guard"
    /\ artDir' \in removeDirectory(artDir)
    /\ pendDir' \in removeDirectory(pendDir)
    /\ keyDone' = TRUE
    /\ verifStatus' = "0"
    /\ verifDone' = TRUE
    /\ pc' = "done"
    /\ ExitProcess
    /\ UNCHANGED <<env, odsignInfo, odsignSig, rootCert, composCert,
                   curKey, pendKey, exitCode, history>>

----------------------------------------------------------------------------
(* Boots, crashes and the world between boots.                            *)

\* init starts odsign.
BootUp ==
    /\ pc = "down"
    /\ boots < MaxBoots
    /\ boots' = boots + 1
    /\ composRan' = FALSE
    /\ pc' = "start"
    /\ UNCHANGED <<apexUpdatable, tampers, crashes, disk, useCompOs, status,
                   digestsVerified, composKey, digests, ret, persistOk, props,
                   history>>

\* Power loss or a reboot at any point of a boot: the locals and the
\* properties are lost, the files under /data are kept.
Reboot ==
    /\ pc # "down"
    /\ pc' = "down"
    /\ ExitProcess
    /\ keyDone' = FALSE /\ verifStatus' = "unset"
    /\ verifDone' = FALSE /\ exitCode' = "none"
    /\ UNCHANGED <<env, disk, history>>

\* The odsign process dies between two of its steps: an abort (such as
\* the dereference of an unchecked Result in getOdsignInfo) or a kill.
\* ctl.stop was not set, so init restarts the service in the same boot:
\* the locals are lost, /data and the boot-status properties are kept.
ProcessRestart ==
    /\ pc \notin {"down", "done"}
    /\ crashes < MaxCrashes
    /\ crashes' = crashes + 1
    /\ pc' = "start"
    /\ ExitProcess
    /\ UNCHANGED <<apexUpdatable, boots, tampers, composRan, disk, props,
                   history>>

\* After boot the CompOs VM generates a pending key and compiles pending
\* artifacts (possibly not all of them).
CompOsRun ==
    /\ pc = "down" /\ ~composRan
    /\ composRan' = TRUE
    /\ pendKey' = "good"
    /\ \E S \in SUBSET Files :
         pendDir' = [exists |-> TRUE,
                     files  |-> [f \in Files |-> IF f \in S
                                    THEN [src |-> "compos", name |-> f]
                                    ELSE Absent]]
    /\ UNCHANGED <<apexUpdatable, boots, tampers, crashes, artDir, odsignInfo,
                   odsignSig, rootCert, composCert, curKey, locals, props,
                   history>>

\* What the attacker can write into one file slot: nothing, a file of its
\* own, or a copy of any file present in either artifact directory.
AttackerFiles(f) ==
    {Absent, [src |-> "forged", name |-> f]}
      \cup {artDir.files[g] : g \in Files} \cup {pendDir.files[g] : g \in Files}

AttackerDirs(d) ==
    {NoDir} \cup UNION {{[exists |-> TRUE, files |-> [d.files EXCEPT ![f] = v]]
                           : v \in AttackerFiles(f)} : f \in Files}

\* The attacker rewrites one file of an artifact directory, or removes it.
TamperArtifacts ==
    /\ pc = "down" /\ tampers < MaxTampers
    /\ tampers' = tampers + 1
    /\ \/ artDir' \in AttackerDirs(artDir) /\ UNCHANGED pendDir
       \/ pendDir' \in AttackerDirs(pendDir) /\ UNCHANGED artDir
    /\ UNCHANGED <<apexUpdatable, boots, composRan, crashes, odsignInfo,
                   odsignSig,
                   rootCert, composCert, curKey, pendKey, locals, props,
                   history>>

\* The attacker edits or removes odsign.info / its signature, or restores
\* a pair the key signed earlier.
TamperManifest ==
    /\ pc = "down" /\ tampers < MaxTampers
    /\ tampers' = tampers + 1
    /\ odsignInfo' \in {NoInfo}
          \cup {[ok |-> TRUE,
                 map |-> [odsignInfo.map EXCEPT
                            ![f] = [src |-> "forged", name |-> f]]]
                 : f \in Files}
          \cup {[ok |-> TRUE, map |-> m] : m \in signedHist}
    /\ odsignSig' \in {odsignSig, NoSig}
          \cup {[signed |-> TRUE, over |-> m] : m \in signedHist}
    /\ UNCHANGED <<apexUpdatable, boots, composRan, crashes, artDir, pendDir,
                   rootCert,
                   composCert, curKey, pendKey, locals, props, history>>

\* The attacker plants or removes CompOs key files and certificates, or
\* restores a CompOs certificate our key issued earlier.
TamperKeys ==
    /\ pc = "down" /\ tampers < MaxTampers
    /\ tampers' = tampers + 1
    /\ curKey' \in {curKey, "none", "evil"}
    /\ pendKey' \in {pendKey, "none", "evil"}
    /\ composCert' \in {composCert, NoCert, [signed |-> FALSE, key |-> "evil"]}
                        \cup {[signed |-> TRUE, key |-> k] : k \in certHist}
    /\ rootCert' \in {rootCert, "none", "other"}
    /\ UNCHANGED <<apexUpdatable, boots, composRan, crashes, artDir, pendDir,
                   odsignInfo, odsignSig, locals, props, history>>

\* logwrap_fork_execvp waits for odrefresh or compos_verify_key to exit,
\* with no timeout: a child that never exits blocks main() for good.  The
\* VM is started only for a readable key file, and `odrefresh --check' on
\* the pending path only when pending artifacts exist.
Hang ==
    /\ SubprocessMayHang
    /\ \/ pc = "compile" \/ pc = "recheck"
       \/ pc = "pendcheck" /\ directoryHasContent(pendDir)
       \/ pc = "compos" /\ (pendKey # "none" \/ curKey # "none")
    /\ pc' = "hung"
    /\ UNCHANGED <<env, disk, useCompOs, status, digestsVerified, composKey,
                   digests, ret, persistOk, props, history>>

Daemon ==
    \/ NotUpdatable \/ Start \/ RootCert \/ AddCompOsCert
    \/ PendCheck \/ Rename \/ Recheck \/ PendVerify
    \/ PersistData \/ PersistSign \/ PendPersisted
    \/ Compile \/ OutcomeOkay \/ OutcomeCompiled \/ OutcomeError
    \/ MainPersisted \/ VerifyArtifacts \/ Finish \/ ErrorScopeGuard

Environment ==
    \/ BootUp \/ Reboot \/ ProcessRestart \/ CompOsRun \/ Hang
    \/ TamperArtifacts \/ TamperManifest \/ TamperKeys

Next == Daemon \/ Environment

Spec == Init /\ [][Next]_vars

\* odsign is a single-threaded process that init runs to completion; its
\* calls to odrefresh and compos_verify_key are synchronous and assumed to
\* return.  A step of the daemon that stays enabled is eventually taken.
LiveSpec == Spec /\ WF_vars(Daemon)

----------------------------------------------------------------------------
(* Properties.                                                             *)

\* Every variable holds a value of its type.
TypeOK ==
    /\ apexUpdatable \in BOOLEAN
    /\ boots \in 0..MaxBoots /\ tampers \in 0..MaxTampers
    /\ crashes \in 0..MaxCrashes
    /\ composRan \in BOOLEAN
    /\ artDir \in Dir /\ pendDir \in Dir
    /\ odsignInfo \in InfoFile /\ odsignSig \in SigFile
    /\ rootCert \in RootCertVal /\ composCert \in CertVal
    /\ curKey \in KeyVal /\ pendKey \in KeyVal
    /\ pc \in PcVal \cup {"guard"}
    /\ useCompOs \in BOOLEAN
    /\ status \in ExitCodes
    /\ digestsVerified \in BOOLEAN
    /\ composKey \in KeyVal
    /\ digests \in DigestMap
    /\ ret \in {"none", "pending", "main"}
    /\ persistOk \in BOOLEAN
    /\ keyDone \in BOOLEAN /\ verifDone \in BOOLEAN
    /\ verifStatus \in {"unset", "0", "1"}
    /\ exitCode \in {"none", "ok", "fail"}
    /\ signedHist \subseteq DigestMap
    /\ certHist \subseteq KeyVal
    /\ keyUsedAfterDone \in BOOLEAN

\* When odsign reports odsign.verification.success = 1, no file in the
\* artifacts directory was written by the attacker: whatever was planted
\* in /data between boots, main() only reports success for artifacts
\* that odrefresh compiled on the device or the CompOs VM signed.
TrustedArtifactsGenuine ==
    verifStatus = "1" => AllGenuine(artDir.files)

\* Every artifact listed in the map comes from the same producer: all were
\* compiled by odrefresh on the device, or all by the CompOs VM.
SingleSource(m) ==
    \A f, g \in Files : m[f] # Absent /\ m[g] # Absent => m[f].src = m[g].src

\* When odsign reports success, the artifacts directory is not a mix of
\* artifacts compiled on the device and artifacts adopted from the CompOs
\* VM: the current directory is removed before the pending one is renamed
\* onto it (a rename onto a directory that remove_all left non-empty
\* fails), verifyAllFilesUsingCompOs accepts only CompOs-signed files, and
\* verifyDigests rejects any file the signed manifest does not list.
TrustedArtifactsSingleSource ==
    verifStatus = "1" => SingleSource(artDir.files)

\* persistDigests never signs (neither after compiling, nor after adopting
\* CompOs artifacts) a digest map that lists an attacker's file.
SignedManifestsGenuine ==
    \A m \in signedHist : AllGenuine(m)

\* Every signature persistDigests makes is over the digest map of the
\* artifacts as they are on disk at that moment: it signs the bytes it has
\* just written to odsign.info, which are the digests main() computed (or
\* verifyAllFilesUsingCompOs returned) for kArtArtifactsDir, and nothing
\* touches the directory in between.
SignsWhatIsOnDisk ==
    [][signedHist' # signedHist =>
         signedHist' = signedHist \cup {artDir.files}]_vars

\* verifyCompOsKey only ever issues compos_key.cert for a key the CompOs
\* VM confirmed, never for a key file planted in /data.
CompOsCertsForGenuineKeys == certHist \subseteq {"good"}

\* Once odsign.key.done is set ("we're done with the signing key",
\* checkCompOsPendingArtifacts), the signing key is not used again in the
\* same boot: init then raises the keystore boot level and the key can
\* no longer sign.
KeyNotUsedAfterDone == ~keyUsedAfterDone

\* Artifacts that odsign reported as trusted pass verification on the
\* next boot: the signature file is a valid signature of odsign.info and
\* odsign.info lists every artifact with its digest (persistDigests
\* either succeeds or makes main() fail).
TrustedArtifactsVerifiable ==
    verifStatus = "1" /\ artDir.exists =>
        odsignInfoValid /\ verifyDigests(artDir.files, odsignInfo.map)

\* When odsign reports success for an existing artifacts directory,
\* odsign.info on disk parses and lists every artifact with its digest:
\* the data half of persistDigests is checked on both paths that write it
\* (after compiling and after adopting CompOs artifacts), and
\* verifyArtifacts checks it on the third, so on the next boot only the
\* signature file (whose write is not checked) can make verification fail.
ManifestListsTrustedArtifacts ==
    verifStatus = "1" /\ artDir.exists =>
        odsignInfo.ok /\ verifyDigests(artDir.files, odsignInfo.map)

\* Every trusted artifact holds the content produced for its own file
\* name (the TODO in checkCompOsPendingArtifacts: CompOs signatures do
\* not bind a file's content to its name).
TrustedArtifactsMatchNames ==
    verifStatus = "1" =>
        \A f \in Files : artDir.files[f] # Absent => artDir.files[f].name = f


\* Every boot in which odsign runs, and which is not cut short by a
\* reboot, ends with odsign.verification.done set (zygote waits for it):
\* on every path through main(), including every exit code of odrefresh,
\* either the success path or the scope guard runs.
BootSignalsDone == pc = "start" ~> (verifDone \/ pc = "down")

----------------------------------------------------------------------------
(* The inductive invariant behind the safety properties, in four parts. *)

\* The CompOs key in use and every certificate our key issued are for the
\* key the CompOs VM holds.
CompOsKeyGenuine ==
    /\ CompOsCertsForGenuineKeys
    /\ composCert.signed => composCert.key \in certHist
    /\ composKey \in {"none", "good"}

\* A directory that does not exist has no files.
DirsWellFormed ==
    /\ ~artDir.exists => artDir.files = EmptyMap
    /\ ~pendDir.exists => pendDir.files = EmptyMap

\* The artifacts are genuine at every point of main() from the outcome of
\* a compilation, through persistDigests, to the report of success.
PersistPcs == {"persist_data", "persist_sign", "pendpersisted", "mainpersisted"}

ArtifactsGenuineOnPath ==
    /\ pc = "outcome" /\ status \in {"CompilationSuccess", "CompilationFailed"}
         => AllGenuine(artDir.files)
    /\ pc \in PersistPcs => digests = artDir.files /\ AllGenuine(digests)
    /\ pc = "persist_sign" => odsignInfo.map = digests
    /\ digestsVerified => /\ pc \in {"outcome", "finish"} /\ status = "Okay"
                          /\ AllGenuine(artDir.files)
    /\ pc = "finish" => AllGenuine(artDir.files)
    /\ verifStatus = "1" => pc = "done" /\ AllGenuine(artDir.files)

\* A signature file on disk is one our key produced, over a genuine map.
ManifestsSigned ==
    /\ odsignSig.signed => odsignSig.over \in signedHist
    /\ SignedManifestsGenuine

IInv ==
    /\ TypeOK
    /\ CompOsKeyGenuine
    /\ DirsWellFormed
    /\ ArtifactsGenuineOnPath
    /\ ManifestsSigned

\* The strengthening behind TrustedArtifactsSingleSource, in two parts:
\* every map our key signed is single-source, and so are the artifacts at
\* every point of main()'s path to success at which
\* ArtifactsGenuineOnPath holds.
SignedManifestsOneSource == \A m \in signedHist : SingleSource(m)

ArtifactsOneSourceOnPath ==
    /\ pc = "outcome" /\ status \in {"CompilationSuccess", "CompilationFailed"}
         => SingleSource(artDir.files)
    /\ pc \in PersistPcs => SingleSource(artDir.files)
    /\ digestsVerified => SingleSource(artDir.files)
    /\ pc = "finish" => SingleSource(artDir.files)
    /\ TrustedArtifactsSingleSource

OneSourceOnPath == SignedManifestsOneSource /\ ArtifactsOneSourceOnPath

\* The strengthening behind ManifestListsTrustedArtifacts: from the moment
\* persistDigests has written the data file until success is reported,
\* odsign.info is the digest map of the artifacts on disk.
ManifestOnPath ==
    /\ pc = "persist_sign" => odsignInfo.ok /\ odsignInfo.map = digests
    /\ pc \in {"pendpersisted", "mainpersisted"} /\ persistOk =>
         odsignInfo.ok /\ odsignInfo.map = artDir.files
    /\ digestsVerified => odsignInfo.ok /\ odsignInfo.map = artDir.files
    /\ pc = "finish" /\ artDir.exists =>
         odsignInfo.ok /\ verifyDigests(artDir.files, odsignInfo.map)
    /\ ManifestListsTrustedArtifacts

=============================================================================
