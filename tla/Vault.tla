-------------------------------- MODULE Vault -------------------------------
(***************************************************************************)
(* What the sealed columns of the database promise, whatever is going on:  *)
(* one key opens every secret in them.  Changing the key changes no        *)
(* secret, and saving a secret does not change the key.  The promise ends  *)
(* when the singleton lock is lost or the panel is started with a key that *)
(* is not the database's.                                                  *)
(***************************************************************************)
CONSTANTS VCell

VARIABLES secret,  \* the plaintext of each cell
          opens,   \* the keys that open every cell that holds a secret
          sound    \* the promise stands

VaultInit == sound = TRUE /\ opens # {}

ChangeKey == secret' = secret /\ opens' # {}
SaveSecret(c) ==
    /\ \A d \in VCell \ {c} : secret'[d] = secret[d]
    /\ opens \cap opens' # {}

VaultNext ==
    \/ sound' = FALSE
    \/ sound' = sound /\ (ChangeKey \/ \E c \in VCell : SaveSecret(c))

VaultSpec == VaultInit /\ [][VaultNext]_<<secret, opens, sound>>

=============================================================================
