-------------------------- MODULE OdsignBootStatus --------------------------
(***************************************************************************)
(* What odsign promises init, boot after boot, seen only through the       *)
(* artifacts directory that zygote will load and the two boot-status      *)
(* properties odsign.verification.success and odsign.verification.done.  *)
(*                                                                         *)
(* Within a boot the artifacts may change in any way until odsign gives   *)
(* its verdict; it gives at most one; it says "valid" only for artifacts  *)
(* it can trust; and from the verdict until the next boot the artifacts  *)
(* stay exactly as they were when the verdict was given.  A reboot clears *)
(* the properties and keeps the artifacts.                                *)
(***************************************************************************)

CONSTANTS
    Artifacts,  \* every state the artifacts directory can be in
    Trusted     \* the states of it that may be reported valid

VARIABLES
    artifacts,     \* the artifacts directory
    verification,  \* odsign.verification.success: "unset", "0" or "1"
    done           \* odsign.verification.done

vars == <<artifacts, verification, done>>

Init ==
    /\ artifacts \in Artifacts
    /\ verification = "unset"
    /\ done = FALSE

\* Before the verdict the artifacts may be compiled, adopted, removed or
\* rewritten.
Work ==
    /\ verification = "unset"
    /\ artifacts' \in Artifacts
    /\ UNCHANGED <<verification, done>>

\* The verdict "valid", for trusted artifacts, which are left as they are.
ReportValid ==
    /\ verification = "unset"
    /\ artifacts \in Trusted
    /\ verification' = "1"
    /\ done' = TRUE
    /\ UNCHANGED artifacts

\* The verdict "error", given while the artifacts are being removed.
ReportError ==
    /\ verification = "unset"
    /\ verification' = "0"
    /\ done' = TRUE
    /\ artifacts' \in Artifacts

\* A reboot: the properties are cleared, /data is kept.
Restart ==
    /\ verification' = "unset"
    /\ done' = FALSE
    /\ UNCHANGED artifacts

Next == Work \/ ReportValid \/ ReportError \/ Restart

Spec == Init /\ [][Next]_vars

=============================================================================
