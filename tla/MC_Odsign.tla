------------------------------ MODULE MC_Odsign ------------------------------
(* Model-checking instance of Odsign: the artifact file names, and the    *)
(* exit codes odrefresh returns for --check and --compile.                *)
EXTENDS OdsignRefinement, TLC

CONSTANTS f1, f2

MCFiles1 == {f1}
MCFiles2 == {f1, f2}
MCCheckOutcomes == {"Okay", "CompilationRequired", "CleanupFailed"}
MCCompileOutcomes == {"Okay", "CompilationSuccess", "CompilationFailed",
                      "CleanupFailed", "Unexpected"}

\* The file names play the same role.
MCSymmetry == Permutations(MCFiles2)
=============================================================================
