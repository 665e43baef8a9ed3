------------------------- MODULE MCSecretsRotation -------------------------
(* Instances of the master-key rotation for TLC.                            *)
EXTENDS SecretsRotation, TLC

Symmetry ==
    Permutations(Secrets) \cup Permutations(SoftKeys) \cup Permutations(HardKeys)
        \cup Permutations(Jobs)
=============================================================================
