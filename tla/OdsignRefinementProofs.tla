----------------------- MODULE OdsignRefinementProofs -----------------------
(***************************************************************************)
(* Proof that the odsign model implements its boot-status promise         *)
(* (OdsignBootStatus) under the mapping of OdsignRefinement, for every    *)
(* value of the constants.  It rests on the inductive invariant IInv of   *)
(* OdsignProofs, on OneSourceOnPath of OdsignSourceProofs and on          *)
(* VerdictOnlyWhenDone.                                                    *)
(***************************************************************************)
EXTENDS OdsignSourceProofs, OdsignRefinement

\* The actions that neither run at the end of main() nor touch the two
\* verification properties.
VerdictUntouched ==
    \/ NotUpdatable \/ Start \/ RootCert \/ AddCompOsCert \/ PendCheck
    \/ Rename \/ Recheck \/ PendVerify \/ PersistData \/ PersistSign
    \/ PendPersisted \/ Compile \/ OutcomeOkay \/ OutcomeCompiled
    \/ OutcomeError \/ MainPersisted \/ VerifyArtifacts \/ BootUp
    \/ ProcessRestart \/ CompOsRun \/ TamperArtifacts \/ TamperManifest
    \/ TamperKeys \/ Hang

\* Every action other than Finish, ErrorScopeGuard and Reboot runs before
\* main() returns (or while the device is down) and leaves the properties
\* alone; a crashed odsign is restarted with the properties as they were.
LEMMA VerdictUntouchedStep ==
    ASSUME VerdictUntouched
    PROVE  /\ pc # "done"
           /\ UNCHANGED <<verifStatus, verifDone>>
BY DEF VerdictUntouched, NotUpdatable, Start, RootCert, AddCompOsCert,
       PendCheck, Rename, Recheck, PendVerify, PersistData, PersistSign,
       PendPersisted, Compile, OutcomeOkay, OutcomeCompiled, OutcomeError,
       MainPersisted, VerifyArtifacts, BootUp, ProcessRestart, CompOsRun,
       TamperArtifacts, TamperManifest, TamperKeys, Hang, Return, env, disk,
       locals, props, history

LEMMA InitVerdict == Init => VerdictOnlyWhenDone
BY DEF Init, PropsInit, VerdictOnlyWhenDone

\* The success path and the scope guard set both properties as main()
\* returns; a reboot clears both.
LEMMA NextVerdict ==
    VerdictOnlyWhenDone /\ [Next]_vars => VerdictOnlyWhenDone'
<1> SUFFICES ASSUME VerdictOnlyWhenDone, [Next]_vars
             PROVE  VerdictOnlyWhenDone'
  OBVIOUS
<1>1. CASE Finish \/ ErrorScopeGuard
  BY <1>1 DEF Finish, ErrorScopeGuard, VerdictOnlyWhenDone
<1>2. CASE Reboot
  BY <1>2 DEF Reboot, VerdictOnlyWhenDone
<1>3. CASE VerdictUntouched
  BY <1>3, VerdictUntouchedStep DEF VerdictOnlyWhenDone
<1>4. CASE UNCHANGED vars
  BY <1>4 DEF vars, locals, props, VerdictOnlyWhenDone
<1>. QED
  BY <1>1, <1>2, <1>3, <1>4 DEF Next, Daemon, Environment, VerdictUntouched

\* The initial state is an initial state of the promise: a wiped /data
\* and no verdict.
LEMMA InitRefines == Init => BootStatus!Init
BY EmptyValuesType DEF Init, PropsInit, BootStatus!Init

\* Every step is a step of the promise, or leaves the artifacts and the
\* verdict alone.
LEMMA NextRefines ==
    IInv /\ OneSourceOnPath /\ VerdictOnlyWhenDone /\ IInv' /\ [Next]_vars
      => [BootStatus!Next]_BootStatus!vars
<1> SUFFICES ASSUME IInv, OneSourceOnPath, VerdictOnlyWhenDone, IInv',
                    [Next]_vars
             PROVE  [BootStatus!Next]_BootStatus!vars
  OBVIOUS
<1>0. TypeOK /\ TypeOK'  BY DEF IInv
<1>1. CASE Finish
  <2>1. verifStatus = "unset"
    BY <1>1 DEF Finish, VerdictOnlyWhenDone
  <2>2. artDir \in TrustedDirs
    BY <1>0, <1>1 DEF Finish, IInv, ArtifactsGenuineOnPath, TypeOK,
                      OneSourceOnPath, ArtifactsOneSourceOnPath, TrustedDirs
  <2>3. UNCHANGED artDir  BY <1>1 DEF Finish, disk
  <2>. QED  BY <1>1, <2>1, <2>2, <2>3 DEF Finish, BootStatus!Next,
                                         BootStatus!ReportValid
<1>2. CASE ErrorScopeGuard
  <2>1. verifStatus = "unset"
    BY <1>2 DEF ErrorScopeGuard, VerdictOnlyWhenDone
  <2>2. artDir' \in Dir  BY <1>0 DEF TypeOK
  <2>. QED  BY <1>2, <2>1, <2>2 DEF ErrorScopeGuard, BootStatus!Next,
                                   BootStatus!ReportError
<1>3. CASE Reboot
  BY <1>3 DEF Reboot, disk, BootStatus!Next, BootStatus!Restart
<1>4. CASE VerdictUntouched
  <2>1. /\ pc # "done"
        /\ UNCHANGED <<verifStatus, verifDone>>
    BY <1>4, VerdictUntouchedStep
  <2>2. verifStatus = "unset"  BY <2>1 DEF VerdictOnlyWhenDone
  <2>3. artDir' \in Dir  BY <1>0 DEF TypeOK
  <2>. QED  BY <2>1, <2>2, <2>3 DEF BootStatus!Next, BootStatus!Work
<1>5. CASE UNCHANGED vars
  BY <1>5 DEF vars, disk, props, BootStatus!vars
<1>. QED
  BY <1>1, <1>2, <1>3, <1>4, <1>5
  DEF Next, Daemon, Environment, VerdictUntouched

\* odsign, with crashes, the CompOs VM and the offline attacker, keeps its
\* promise to init: at most one verdict per boot, "valid" only for
\* artifacts with no attacker's file and all from one compiler, and kArtArtifactsDir unchanged from
\* the verdict until the next reboot (errorScopeGuard never runs after the
\* success path has reported, and nothing rewrites the directory after it).
THEOREM RefinesBootStatus == Spec => BootStatusSpec
<1>1. Spec => [](IInv /\ OneSourceOnPath /\ VerdictOnlyWhenDone)
  BY InitIInv, NextIInv, InitOneSource, NextOneSource, InitVerdict,
     NextVerdict, PTL DEF Spec
<1>. QED
  BY <1>1, InitRefines, NextRefines, PTL
  DEF Spec, BootStatusSpec, BootStatus!Spec

=============================================================================
