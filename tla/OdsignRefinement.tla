------------------------- MODULE OdsignRefinement --------------------------
(***************************************************************************)
(* odsign_main.cpp implements the boot-status promise of OdsignBootStatus: *)
(* the abstract artifacts are kArtArtifactsDir, the abstract verdict is   *)
(* odsign.verification.success with odsign.verification.done, and the    *)
(* trusted directory states are those holding no attacker's file and no *)
(* mix of artifacts compiled on the device and by the CompOs VM.         *)
(***************************************************************************)
EXTENDS Odsign

\* The directory states that may be reported valid.
TrustedDirs == {d \in Dir : AllGenuine(d.files) /\ SingleSource(d.files)}

BootStatus == INSTANCE OdsignBootStatus
                WITH Artifacts    <- Dir,
                     Trusted      <- TrustedDirs,
                     artifacts    <- artDir,
                     verification <- verifStatus,
                     done         <- verifDone

\* Every behaviour of odsign, crashes, the CompOs VM and the offline
\* attacker included, is a behaviour of the promise: one verdict per boot
\* (errorScopeGuard and the success path never both report), "valid" only
\* for genuine artifacts from a single compiler, and no change to kArtArtifactsDir between the
\* verdict and the next reboot.
BootStatusSpec == BootStatus!Spec

\* The strengthening the refinement proof needs: the two verification
\* properties are set together (errorScopeGuard and the success path each
\* set both, a reboot clears both), and only as main() returns.
VerdictOnlyWhenDone ==
    /\ (verifStatus # "unset") = verifDone
    /\ verifDone => pc = "done"

=============================================================================
