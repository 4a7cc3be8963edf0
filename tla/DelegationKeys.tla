--------------------------- MODULE DelegationKeys ---------------------------
(***************************************************************************)
(* The delegation signing keys of one (workspace, purpose, issuer): their  *)
(* registration and lifecycle in cpk_delegation_signing_keys, and the      *)
(* custody of their private halves at the secret provider.                 *)
(*                                                                         *)
(* Every store operation takes the advisory lock of the purpose first, so  *)
(* each is one action.  The operators below return the table an operation  *)
(* leaves; the programs that call them are in GatewayKeyRotation.          *)
(***************************************************************************)
EXTENDS Naturals, FiniteSets

CONSTANTS
    Keys,       \* key identities, each with its own SecretReference
    FirstKey    \* the key the gateway was first deployed with

ASSUME KeysAssumption == FirstKey \in Keys

VARIABLES
    keys,       \* cpk_delegation_signing_keys: the status of each key
    custody     \* at the provider: the private key's version, per key

\* RegisteredDelegationSigningKeyStatus; "absent" is a row that does not exist.
KeyStatuses == {"absent", "verify-only", "active", "retired", "revoked"}

\* The provider's versions: never generated, usable, or revoked.
CustodyStatuses == {"absent", "live", "revoked"}

\* list_for_verification: the keys a verifier may be given.
VerificationKeys == {k \in Keys : keys[k] \in {"active", "verify-only"}}

\* require_active: the one signer (cpk_delegation_signing_keys_active_scope is
\* a unique index).
IsSigner(k) == keys[k] = "active"

\* register: an existing row with the same identity is returned as it is.
Registered(k) ==
    IF keys[k] = "absent" THEN [keys EXCEPT ![k] = "verify-only"] ELSE keys

\* activate: an active key is left alone, and only a verify-only key may become
\* active; whichever key was active becomes verify-only in the same transaction.
CanActivate(k) == keys[k] \in {"active", "verify-only"}
Activated(k) ==
    [x \in Keys |-> IF x = k THEN "active"
                    ELSE IF keys[x] = "active" THEN "verify-only"
                    ELSE keys[x]]

\* retire: only a verify-only key; a retired one is returned as it is.
CanRetire(k) == keys[k] \in {"verify-only", "retired"}
Retired(k) == [keys EXCEPT ![k] = "retired"]

\* revoke: a key of any status.
CanRevoke(k) == keys[k] # "absent"
Revoked(k) == [keys EXCEPT ![k] = "revoked"]

(***************************************************************************)
(* The provider is another system.  Generation and revocation carry a      *)
(* correlation that the provider remembers: repeating one changes nothing. *)
(***************************************************************************)
Generated(k) == [custody EXCEPT ![k] = IF @ = "absent" THEN "live" ELSE @]
VersionRevoked(k) == [custody EXCEPT ![k] = "revoked"]

KeysTypeOK ==
    /\ keys \in [Keys -> KeyStatuses]
    /\ custody \in [Keys -> CustodyStatuses]

KeysInit ==
    /\ keys = [k \in Keys |-> IF k = FirstKey THEN "active" ELSE "absent"]
    /\ custody = [k \in Keys |-> IF k = FirstKey THEN "live" ELSE "absent"]

=============================================================================
