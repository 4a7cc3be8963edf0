--------------------------- MODULE SecretRegistry ---------------------------
(***************************************************************************)
(* Secret providers, secret references and authorized uses of one          *)
(* workspace: secret_providers.py over postgres/secret_provider_store.py.  *)
(*                                                                         *)
(* A registration id is a digest of what the registration says, the        *)
(* registration it supersedes included.  Here the id is the sequence of    *)
(* contents itself, the newest first: id[1] is what it says and Tail(id)   *)
(* the id it supersedes.  Rows are never deleted.                          *)
(*                                                                         *)
(* Registering and revoking hold locks on the rows they decide from, so    *)
(* each is one action.  Registering a reference reads its provider without *)
(* a lock and is two.  A use is authorized under locks on both rows; the   *)
(* value is fetched later, outside any transaction.                        *)
(*                                                                         *)
(* A generated secret goes the other way: the provider is asked to keep a  *)
(* value under a custody grant, and its reference is registered from the   *)
(* receipt, if the registration the grant rests on is still active.        *)
(***************************************************************************)
EXTENDS Naturals, Sequences, FiniteSets, TLC

CONSTANTS
    SecretProviders,   \* provider identities
    SecretRefs,        \* secret references
    ProviderOf,        \* the provider each reference's identity names
    Intents,           \* SecretUseIntent
    ProviderContents,  \* what provider registrations may say
    ReferenceIntents,  \* the intents reference registrations may ask for
    GeneratedIntents,  \* the intents secrets are generated for
    MaxChain,          \* bound on supersessions
    Correlations,      \* correlation ids of uses
    Bootstrapped,      \* references within the resolver's bootstrap authority
    Stored,            \* references the provider holds a value for at first
    NoUse              \* a correlation nobody used

ASSUME SecretAssumption ==
    /\ ProviderOf \in [SecretRefs -> SecretProviders]
    /\ ReferenceIntents \subseteq (SUBSET Intents) \ {{}}
    /\ GeneratedIntents \subseteq Intents
    /\ MaxChain \in Nat \ {0}
    /\ Bootstrapped \subseteq SecretRefs
    /\ Stored \subseteq SecretRefs

\* RegisteredSecretProvider: nonempty intents, and nonempty prefixes of the
\* provider's own references (the references within them stand for them).
IsProviderContent(c) ==
    /\ DOMAIN c = {"subject", "endpoint", "intents", "within"}
    /\ c.subject \in SecretProviders
    /\ c.intents \in (SUBSET Intents) \ {{}}
    /\ c.within \in (SUBSET SecretRefs) \ {{}}
    /\ \A r \in c.within : ProviderOf[r] = c.subject

ASSUME ContentAssumption == \A c \in ProviderContents : IsProviderContent(c)

VARIABLES
    providers,   \* cpk_secret_providers: id :> status
    references,  \* cpk_secret_references: id :> status
    reading,     \* reference registrations that have read their provider
    custody,     \* custody grants of calls under way, with or without a receipt
    kept,        \* references the provider holds a value for
    uses,        \* cpk_secret_use_authorizations, per correlation
    released     \* the correlations whose value a provider has released

svars == <<providers, references, reading, custody, kept, uses, released>>

RegistrationStatuses == {"active", "revoked", "superseded"}

\* secret_provider_registration_id_for.
ProviderIds == UNION {[1 .. n -> ProviderContents] : n \in 1 .. MaxChain}

\* RegisteredSecretReference: the registration names one provider
\* registration, not the provider.  The metadata of a generated one names its
\* custody and the provider's version.
ReferenceContents ==
    [subject : SecretRefs, provider : DOMAIN providers, intents : ReferenceIntents,
     generated : {FALSE}]

IsReferenceContent(c) ==
    /\ DOMAIN c = {"subject", "provider", "intents", "generated"}
    /\ c.subject \in SecretRefs
    /\ c.provider \in ProviderIds
    /\ c.intents \in (SUBSET Intents) \ {{}}
    /\ c.generated \in BOOLEAN

(***************************************************************************)
(* The two registration tables have the same shape.                        *)
(***************************************************************************)
Subject(id) == id[1].subject
History(table, s) == {i \in DOMAIN table : Subject(i) = s}
ActiveIds(table, s) == {i \in History(table, s) : table[i] = "active"}
IsActive(table, id) == id \in DOMAIN table /\ table[id] = "active"

\* _validate_supersession: the first registration supersedes nothing, a later
\* one names a row of the same subject, and the active one if there is one.
MaySupersede(table, id) ==
    IF Len(id) = 1
    THEN History(table, Subject(id)) = {}
    ELSE /\ Tail(id) \in History(table, Subject(id))
         /\ ActiveIds(table, Subject(id)) \subseteq {Tail(id)}

\* register: a row with this id is returned as it is, whatever its status; else
\* the active row is superseded and the new one inserted.
RegisteredRow(table, id) ==
    IF id \in DOMAIN table THEN table
    ELSE [i \in DOMAIN table \cup {id} |->
            CASE i = id -> "active"
              [] i \in ActiveIds(table, Subject(id)) -> "superseded"
              [] OTHER -> table[i]]

RevokedRow(table, id) == [table EXCEPT ![id] = "revoked"]

(***************************************************************************)
(* Providers.                                                              *)
(***************************************************************************)
RegisterProvider(id) ==
    /\ id \in DOMAIN providers \/ MaySupersede(providers, id)
    /\ providers' = RegisteredRow(providers, id)
    /\ UNCHANGED <<references, reading, custody, kept, uses, released>>

\* revoke_active.  Without an active row the last revoked one is returned.
RevokeProvider(p) ==
    /\ \E id \in ActiveIds(providers, p) : providers' = RevokedRow(providers, id)
    /\ UNCHANGED <<references, reading, custody, kept, uses, released>>

(***************************************************************************)
(* References.                                                             *)
(***************************************************************************)
\* _validate_reference_admission: a reference stays within its provider.
AdmittedBy(content, provider) ==
    /\ ProviderOf[content.subject] = provider.subject
    /\ content.intents \subseteq provider.intents
    /\ content.subject \in provider.within

\* register_reference, the read: require_active_registration takes no lock.
ReadProvider(id) ==
    /\ reading = {}
    /\ IsActive(providers, id[1].provider)
    /\ AdmittedBy(id[1], id[1].provider[1])
    /\ reading' = {id}
    /\ UNCHANGED <<providers, references, custody, kept, uses, released>>

\* The rest of the transaction, or its failure: a conflict or a lost process.
CommitReference(id) ==
    /\ id \in reading
    /\ reading' = reading \ {id}
    /\ \/ /\ id \in DOMAIN references \/ MaySupersede(references, id)
          /\ references' = RegisteredRow(references, id)
       \/ UNCHANGED references
    /\ UNCHANGED <<providers, custody, kept, uses, released>>

\* revoke: a superseded row is a conflict, a revoked one is returned.
RevokeReference(id) ==
    /\ IsActive(references, id)
    /\ references' = RevokedRow(references, id)
    /\ UNCHANGED <<providers, reading, custody, kept, uses, released>>

(***************************************************************************)
(* Custody of generated secrets.                                           *)
(***************************************************************************)
\* SecretCustodyGrant: the provider registration, the reference and the one
\* intent; its custody id is their digest, so a repeated grant is the same.
CustodyGrant(provider, reference, intent) ==
    [provider |-> provider, reference |-> reference, intent |-> intent]

\* secret_custody_grant_for: a registration of the reference would be admitted.
MayGrantCustody(provider, reference, intent) ==
    /\ IsActive(providers, provider)
    /\ AdmittedBy([subject |-> reference, intents |-> {intent}], provider[1])

\* A call has the grant, in a transaction that records nothing.  One call at a
\* time; it starts between registrations, which it commutes with.
GrantCustody(provider, reference, intent) ==
    /\ custody = {} /\ reading = {}
    /\ MayGrantCustody(provider, reference, intent)
    /\ custody' = {[grant |-> CustodyGrant(provider, reference, intent),
                    received |-> FALSE]}
    /\ UNCHANGED <<providers, references, reading, kept, uses, released>>

\* The provider generates and keeps a value.  The call may fail, or its process
\* may be lost, before or after that.
KeepGenerated(x) ==
    /\ x \in custody /\ ~ x.received
    /\ \/ kept' = kept \cup {x.grant.reference} /\ custody' = {[x EXCEPT !.received = TRUE]}
       \/ kept' \in {kept, kept \cup {x.grant.reference}} /\ custody' = {}
    /\ UNCHANGED <<providers, references, reading, uses, released>>

\* SecretCustodyReceipt.matches, and generated_secret_reference_candidate: what
\* a matching receipt lets its grant's holder register, superseding nothing.
GeneratedCandidate(g) ==
    <<[subject |-> g.reference, provider |-> g.provider, intents |-> {g.intent},
       generated |-> TRUE]>>

\* The fold of the receipt reads the provider, again without a lock; the rest
\* of the transaction is CommitReference.
ReadForGenerated(x) ==
    /\ x \in custody /\ x.received
    /\ reading = {}
    /\ custody' = {}
    /\ reading' = IF IsActive(providers, x.grant.provider)
                  THEN {GeneratedCandidate(x.grant)} ELSE {}
    /\ UNCHANGED <<providers, references, kept, uses, released>>

(***************************************************************************)
(* Uses.                                                                   *)
(***************************************************************************)
\* AuthorizedSecretUse, without its correlation.
UseRecords ==
    [reference : SecretRefs, registration : DOMAIN references,
     provider : DOMAIN providers, intent : Intents]

\* authorized_secret_use_for: the row names the registrations it rests on.
UseOf(id, intent) ==
    [reference |-> Subject(id), registration |-> id,
     provider |-> id[1].provider, intent |-> intent]

\* Mutant of MayUse: the provider is not looked at again.
MayUseAdmitted(id, intent) ==
    /\ IsActive(references, id)
    /\ intent \in id[1].intents

\* authorize_secret_use_in_unit_of_work: the checks, under locks on the
\* reference's and the provider's row.
MayUse(id, intent) ==
    /\ IsActive(references, id)
    /\ IsActive(providers, id[1].provider)
    /\ AdmittedBy(id[1], id[1].provider[1])
    /\ intent \in id[1].intents

\* A correlation used before must carry the same evidence, and adds nothing.
AuthorizeUse(c, id, intent) ==
    /\ MayUse(id, intent)
    /\ uses[c] \in {NoUse, UseOf(id, intent)}
    /\ uses' = [uses EXCEPT ![c] = UseOf(id, intent)]
    /\ UNCHANGED <<providers, references, reading, custody, kept, released>>

\* secret_resolution_grant_for: the committed use with the routing of the very
\* provider registration it rests on.
GrantFor(c) ==
    [use |-> uses[c], endpoint |-> uses[c].provider[1].endpoint]

\* SecretResolutionGrant.permits: one reference for one intent.
GrantPermits(g, reference, intent) == g.use.reference = reference /\ g.use.intent = intent

\* resolve: the resolver's own authority first, then the value.
Resolution(reference) ==
    IF reference \notin Bootstrapped THEN "denied"
    ELSE IF reference \notin kept THEN "missing" ELSE "resolved"

\* Mutant of ReleaseSecret: the value is handed out before its use is committed.
ReleaseSecretEarly(c) ==
    /\ released' = released \cup {c}
    /\ UNCHANGED <<providers, references, reading, custody, kept, uses>>

\* require_authorized_secret: only a committed grant is resolved, however late;
\* a missing or denied value is an error of the effect and changes nothing.
ReleaseSecret(c) ==
    /\ uses[c] # NoUse
    /\ \E r \in SecretRefs, i \in Intents :
          GrantPermits(GrantFor(c), r, i) /\ Resolution(r) = "resolved"
    /\ released' = released \cup {c}
    /\ UNCHANGED <<providers, references, reading, custody, kept, uses>>

SecretInit ==
    /\ providers = <<>>
    /\ references = <<>>
    /\ reading = {}
    /\ custody = {}
    /\ kept = Stored
    /\ uses = [c \in Correlations |-> NoUse]
    /\ released = {}

\* What supersedes i and says c.
Superseding(c, i) == <<c>> \o i

\* The ids a command may carry: new ones, or ones already registered.
Candidates(table, contents) ==
    {<<c>> : c \in contents} \cup
    {Superseding(c, i) : c \in contents, i \in {j \in DOMAIN table : Len(j) < MaxChain}}

SecretNext ==
    \/ \E id \in Candidates(providers, ProviderContents) : RegisterProvider(id)
    \/ \E p \in SecretProviders : RevokeProvider(p)
    \/ \E id \in Candidates(references, ReferenceContents) : ReadProvider(id)
    \/ \E id \in reading : CommitReference(id)
    \/ \E id \in DOMAIN providers, r \in SecretRefs, i \in GeneratedIntents :
         GrantCustody(id, r, i)
    \/ \E x \in custody : KeepGenerated(x) \/ ReadForGenerated(x)
    \/ \E id \in DOMAIN references : RevokeReference(id)
    \/ \E c \in Correlations, id \in DOMAIN references, i \in Intents :
         AuthorizeUse(c, id, i)
    \/ \E c \in Correlations : ReleaseSecret(c)

SecretSpec == SecretInit /\ [][SecretNext]_svars

(***************************************************************************)
(* Properties.                                                             *)
(***************************************************************************)
SecretTypeOK ==
    /\ DOMAIN providers \subseteq ProviderIds
    /\ \A id \in DOMAIN providers : providers[id] \in RegistrationStatuses
    /\ \A id \in DOMAIN references :
         /\ references[id] \in RegistrationStatuses
         /\ Len(id) <= MaxChain
         /\ \A n \in DOMAIN id : IsReferenceContent(id[n])
    /\ \A x \in custody : x.grant.provider \in DOMAIN providers /\ x.received \in BOOLEAN
    /\ kept \in SUBSET SecretRefs
    /\ uses \in [Correlations -> UseRecords \cup {NoUse}]
    /\ released \subseteq {c \in Correlations : uses[c] # NoUse}

\* A use that commits rests on the one active registration of its reference
\* and on an active provider registration that both admit its intent, although
\* the reference may have been registered from a provider revoked meanwhile
\* and registrations are superseded at any time.
UsesRestOnActive ==
    [][\A c \in Correlations :
          uses'[c] # uses[c] =>
              /\ ActiveIds(references, uses'[c].reference) = {uses'[c].registration}
              /\ uses'[c].provider \in ActiveIds(providers, ProviderOf[uses'[c].reference])
              /\ uses'[c].intent \in uses'[c].provider[1].intents]_svars

=============================================================================
