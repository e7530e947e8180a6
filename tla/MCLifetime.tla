----------------------------- MODULE MCLifetime -----------------------------
(***************************************************************************)
(* Configs for TLC: with and without an entry of the registry, with valid  *)
(* and invalid entries of others, and with a helper that fails.            *)
(***************************************************************************)
EXTENDS Lifetime

MCSecrets == {[own |-> "valid", others |-> {"valid"}], [own |-> "none", others |-> {"valid", "invalid"}],
              [own |-> "none", others |-> {"invalid"}], [own |-> "error", others |-> {}]}
=============================================================================
