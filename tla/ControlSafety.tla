---------------------------- MODULE ControlSafety ---------------------------
(***************************************************************************)
(* Theorems about parts of Control, each for its own specification.        *)
(*                                                                         *)
(* Secrets: for any providers, references, intents and correlations, and   *)
(* chains of supersessions of any length.  What a use rests on is decided  *)
(* by its own guards, except that no other registration of the reference   *)
(* may be active.  That is an invariant of the two tables: registering     *)
(* supersedes every active row of the subject, whether the row is new,     *)
(* generated, or a replay.                                                 *)
(*                                                                         *)
(* Registry: for any rows and assignments.  A request is sent once its     *)
(* attempt is recorded, from the same loaded context, or again if the      *)
(* context loaded later makes the same one.  That its product was          *)
(* registered follows from the context, and rows stay.                     *)
(*                                                                         *)
(* Node control: for any commands, graphs, keys and clocks.  A command is  *)
(* applied once because it names the version it expects and each change    *)
(* moves the version on, though nothing else stops a second delivery.      *)
(*                                                                         *)
(* Ingress: for any calls of the adapter.  Only the creation of a tunnel   *)
(* brings its parts about, and only a success records it, so a teardown    *)
(* that returned stays true; one row in force is the index of its table.   *)
(*                                                                         *)
(* Pages: for any sets of rows, scopes and limits, and any number of       *)
(* pages, a traversal shows each row at most once, in the collection's     *)
(* order, and all the rows that matched throughout.  A page is the first   *)
(* rows after the cursor, counted by their rank, so the first part is      *)
(* about ranks in a finite set.  Between two pages everything rests on the *)
(* cursor: it is the position of the last row shown, positions of rows     *)
(* shown never change, and a row that matched since the first page and was *)
(* not shown is still after the cursor.                                    *)
(*                                                                         *)
(* Types: a row of a registry has the type of its subject because it was   *)
(* a candidate, written by hand or superseding a row of the table, and a   *)
(* use names a row of the reference it asked for.                          *)
(***************************************************************************)
EXTENDS Control, CommandReplaySafety, EffectFoldsSafety, RolloutSafety, FiniteSetTheorems,
        SequenceTheorems, WellFoundedInduction, TLAPS

\* Of the registrations of one subject at most one is active.
OneActive(ledger) ==
    \A i, j \in DOMAIN ledger :
        Subject(i) = Subject(j) /\ ledger[i] = "active" /\ ledger[j] = "active" => i = j

\* Both tables, and one row of uses per correlation.
RegistrationsInvariant ==
    /\ OneActive(providers)
    /\ OneActive(references)
    /\ DOMAIN uses = Correlations

-----------------------------------------------------------------------------
(* The two operations on a table.                                          *)

\* Registering an id, new or not, keeps one active row per subject.
LEMMA RegisteringKeepsOne ==
    ASSUME NEW ledger, NEW id, OneActive(ledger)
    PROVE  OneActive(RegisteredRow(ledger, id))
<1>1. CASE id \in DOMAIN ledger
  BY <1>1 DEF RegisteredRow
<1>2. CASE id \notin DOMAIN ledger
  <2> DEFINE new == RegisteredRow(ledger, id)
  <2>1. DOMAIN new = {id} \cup DOMAIN ledger
    BY <1>2 DEF new, RegisteredRow
  <2>2. new[id] = "active"
    BY <1>2 DEF new, RegisteredRow, ActiveIds, History
  <2>3. \A i \in DOMAIN ledger :
          new[i] = IF i \in ActiveIds(ledger, Subject(id)) THEN "superseded" ELSE ledger[i]
    BY <1>2 DEF new, RegisteredRow
  <2>4. \A i \in DOMAIN ledger :
          new[i] = "active" => ledger[i] = "active" /\ Subject(i) # Subject(id)
    BY <2>3 DEF new, ActiveIds, History
  <2> QED
    BY <2>1, <2>4 DEF new, OneActive
<1> QED
  BY <1>1, <1>2

\* Revoking a row keeps one active row per subject.
LEMMA RevokingKeepsOne ==
    ASSUME NEW ledger, NEW id, OneActive(ledger)
    PROVE  OneActive(RevokedRow(ledger, id))
BY DEF RevokedRow, OneActive

-----------------------------------------------------------------------------
(* The invariant.                                                          *)

LEMMA FirstRegistrations == SecretInit => RegistrationsInvariant
BY DEF SecretInit, RegistrationsInvariant, OneActive

LEMMA StepKeepsRegistrations ==
    RegistrationsInvariant /\ [SecretNext]_svars => RegistrationsInvariant'
<1> SUFFICES ASSUME RegistrationsInvariant, [SecretNext]_svars
             PROVE  RegistrationsInvariant'
  OBVIOUS
<1> USE DEF RegistrationsInvariant
<1>1. ASSUME NEW id \in Candidates(providers, ProviderContents), RegisterProvider(id)
      PROVE  RegistrationsInvariant'
  BY <1>1, RegisteringKeepsOne DEF RegisterProvider
<1>2. ASSUME NEW p \in SecretProviders, RevokeProvider(p)
      PROVE  RegistrationsInvariant'
  BY <1>2, RevokingKeepsOne DEF RevokeProvider
<1>3. ASSUME NEW id \in reading, CommitReference(id)
      PROVE  RegistrationsInvariant'
  BY <1>3, RegisteringKeepsOne DEF CommitReference
<1>4. ASSUME NEW id \in DOMAIN references, RevokeReference(id)
      PROVE  RegistrationsInvariant'
  BY <1>4, RevokingKeepsOne DEF RevokeReference
<1>5. ASSUME NEW c \in Correlations, NEW id \in DOMAIN references, NEW i \in Intents,
             AuthorizeUse(c, id, i)
      PROVE  RegistrationsInvariant'
  BY <1>5 DEF AuthorizeUse
<1>6. CASE UNCHANGED <<providers, references, uses>>
  BY <1>6 DEF OneActive
<1> QED
  BY <1>1, <1>2, <1>3, <1>4, <1>5, <1>6
     DEF SecretNext, svars, ReadProvider, GrantCustody, KeepGenerated, ReadForGenerated,
         ReleaseSecret

\* Of the registrations of one provider, and of one reference, at most one is
\* active, however registrations, revocations and generated secrets interleave
\* (SecretProviderStore.register, SecretReferenceStore.register).
THEOREM OneActiveRegistration == SecretSpec => [](OneActive(providers) /\ OneActive(references))
<1>1. RegistrationsInvariant => OneActive(providers) /\ OneActive(references)
  BY DEF RegistrationsInvariant
<1> QED
  BY <1>1, FirstRegistrations, StepKeepsRegistrations, PTL DEF SecretSpec

-----------------------------------------------------------------------------
(* Uses.                                                                   *)

\* The action of UsesRestOnActive.
RestsOnActive(c) ==
    /\ ActiveIds(references, uses'[c].reference) = {uses'[c].registration}
    /\ uses'[c].provider \in ActiveIds(providers, ProviderOf[uses'[c].reference])
    /\ uses'[c].intent \in uses'[c].provider[1].intents

LEMMA AuthorizedUseRests ==
    ASSUME RegistrationsInvariant,
           NEW c \in Correlations, NEW id \in DOMAIN references, NEW i \in Intents,
           AuthorizeUse(c, id, i)
    PROVE  RestsOnActive(c)
<1>1. uses'[c] = UseOf(id, i)
  BY DEF AuthorizeUse, RegistrationsInvariant
<1>2. /\ uses'[c].reference = Subject(id) /\ uses'[c].registration = id
      /\ uses'[c].provider = id[1].provider /\ uses'[c].intent = i
  BY <1>1 DEF UseOf
<1>3. ActiveIds(references, Subject(id)) = {id}
  BY DEF AuthorizeUse, MayUse, IsActive, RegistrationsInvariant, OneActive, ActiveIds, History
<1>4. id[1].provider \in ActiveIds(providers, ProviderOf[Subject(id)])
  BY DEF AuthorizeUse, MayUse, IsActive, AdmittedBy, ActiveIds, History, Subject
<1>5. i \in id[1].provider[1].intents
  BY DEF AuthorizeUse, MayUse, AdmittedBy
<1> QED
  BY <1>2, <1>3, <1>4, <1>5 DEF RestsOnActive

LEMMA StepUsesRest ==
    RegistrationsInvariant /\ [SecretNext]_svars =>
        [\A c \in Correlations : uses'[c] # uses[c] => RestsOnActive(c)]_svars
<1> SUFFICES ASSUME RegistrationsInvariant, SecretNext,
                    NEW c \in Correlations, uses'[c] # uses[c]
             PROVE  RestsOnActive(c)
  OBVIOUS
<1>1. PICK d \in Correlations, id \in DOMAIN references, i \in Intents :
          AuthorizeUse(d, id, i)
  BY DEF SecretNext, RegisterProvider, RevokeProvider, ReadProvider, CommitReference,
         GrantCustody, KeepGenerated, ReadForGenerated, RevokeReference, ReleaseSecret
<1>2. c = d
  BY <1>1 DEF AuthorizeUse, RegistrationsInvariant
<1> QED
  BY <1>1, <1>2, AuthorizedUseRests

\* A use that commits rests on the one active registration of its reference and
\* on an active registration of its provider that admits its intent
\* (authorize_secret_use_in_unit_of_work).
THEOREM UsesRest == SecretSpec => UsesRestOnActive
<1>1. RegistrationsInvariant /\ [SecretNext]_svars =>
        [\A c \in Correlations :
            uses'[c] # uses[c] =>
              /\ ActiveIds(references, uses'[c].reference) = {uses'[c].registration}
              /\ uses'[c].provider \in ActiveIds(providers, ProviderOf[uses'[c].reference])
              /\ uses'[c].intent \in uses'[c].provider[1].intents]_svars
  BY StepUsesRest DEF RestsOnActive
<1> QED
  BY <1>1, FirstRegistrations, StepKeepsRegistrations, PTL DEF SecretSpec, UsesRestOnActive

-----------------------------------------------------------------------------
(* The registry of products and runtime authorities.                       *)

\* A row of the product table says that this identity has this document.
WasRegistered(reference) ==
    \E r \in DOMAIN registry :
        r.table = "product" /\ r.claim = reference.identity /\ r.says = reference.digest

\* The request is for the products the graph was authored with.
AsAuthored(x, request) ==
    \A m \in request.products :
        /\ m.reference = ProductReference(
             MaterialGraph(x.activity, GraphOf[x.base], GraphOf[x.desired]).nodes[m.node])
        /\ WasRegistered(m.reference)

\* The coordinator holds an attempt only with the context it made it from, and
\* every context is about rows that exist.
AttemptsInvariant ==
    /\ DOMAIN started = Assignments /\ DOMAIN sent = Assignments
    /\ \A x \in Assignments :
         /\ sent[x] \subseteq started[x]
         /\ \A request \in started[x] : started[x] = {request} /\ AsAuthored(x, request)
    /\ owned \subseteq Assignments
    /\ \A x \in owned : started[x] = {Request(x)}
    /\ owned # {} => loaded # NoContext
    /\ loaded # NoContext => \A p \in loaded.products : WasRegistered(p)

-----------------------------------------------------------------------------
\* A context that leads to a request has the product of the request's node.
LEMMA RequestsAreAsAuthored ==
    ASSUME AttemptsInvariant, NEW x \in Assignments,
           loaded # NoContext, Problem(x) = "none"
    PROVE  AsAuthored(x, Request(x))
<1> DEFINE g == MaterialGraph(x.activity, GraphOf[x.base], GraphOf[x.desired])
           node == g.nodes[x.activity.id]
<1>1. Request(x).products = ProductMaterial(loaded, x.activity, g)
  BY DEF Request, EffectRequest
<1>2. CASE x.activity.kind # "node"
  BY <1>1, <1>2 DEF ProductMaterial, AsAuthored
<1>3. CASE x.activity.kind = "node"
  <2>1. ProductRegistered(loaded, node)
    <3>1. RequestProblem(loaded, x.activity, GraphOf[x.base], GraphOf[x.desired]) = "none"
      BY DEF Problem
    <3> HIDE DEF g
    <3>2. CASE ~ TargetFound(x.activity, g)
      BY <3>1, <3>2 DEF RequestProblem, g
    <3>3. CASE TargetFound(x.activity, g)
      BY <1>3, <3>1, <3>3 DEF RequestProblem, g
    <3> QED
      BY <3>2, <3>3
  <2>2. WasRegistered(ProductReference(node))
    BY <2>1 DEF ProductRegistered, AttemptsInvariant
  <2>3. \A m \in Request(x).products :
          m.node = x.activity.id /\ m.reference = ProductReference(node)
    <3>1. Request(x).products = {Material(loaded, g, x.activity.id)}
      BY <1>1, <1>3 DEF ProductMaterial
    <3>2. /\ Material(loaded, g, x.activity.id).node = x.activity.id
          /\ Material(loaded, g, x.activity.id).reference = ProductReference(node)
      BY DEF Material
    <3> QED
      BY <3>1, <3>2
  <2> QED
    BY <2>2, <2>3 DEF AsAuthored
<1> QED
  BY <1>2, <1>3

LEMMA FirstAttempts == RegistryInit => AttemptsInvariant
BY DEF RegistryInit, AttemptsInvariant

\* What is loaded is about rows that exist.
LEMMA LoadedProducts == \A p \in LoadedContext.products : WasRegistered(p)
BY DEF LoadedContext, ActiveRows, WasRegistered

\* A step that only adds rows and otherwise leaves what the invariant is about.
LEMMA NewRowsKeepAttempts ==
    ASSUME AttemptsInvariant, DOMAIN registry \subseteq DOMAIN registry',
           UNCHANGED <<loaded, started, owned, sent>>
    PROVE  AttemptsInvariant'
<1>1. \A x \in Assignments : Request(x)' = Request(x)
  BY DEF Request
<1>2. \A x \in Assignments : \A request : AsAuthored(x, request) => AsAuthored(x, request)'
  BY DEF AsAuthored, WasRegistered
<1> QED
  BY <1>1, <1>2 DEF AttemptsInvariant, WasRegistered

LEMMA StepKeepsAttempts ==
    AttemptsInvariant /\ [RegistryNext]_regvars => AttemptsInvariant'
<1> SUFFICES ASSUME AttemptsInvariant, [RegistryNext]_regvars
             PROVE  AttemptsInvariant'
  OBVIOUS
<1>1. ASSUME NEW row \in RegistryRows, CheckRow(row) \/ InsertRow(row) \/ RevokeRow(row)
      PROVE  AttemptsInvariant'
  BY <1>1, NewRowsKeepAttempts DEF CheckRow, InsertRow, WithRow, RevokeRow
<1>2. CASE LoadContext
  <2>1. owned' = {} /\ UNCHANGED <<registry, started, sent>>
    BY <1>2 DEF LoadContext, AttemptsInvariant
  <2>2. \A p \in loaded'.products : WasRegistered(p)'
    BY <1>2, <2>1, LoadedProducts DEF LoadContext, WasRegistered
  <2>3. \A x \in Assignments : \A request : AsAuthored(x, request)' <=> AsAuthored(x, request)
    BY <2>1 DEF AsAuthored, WasRegistered
  <2> QED
    BY <2>1, <2>2, <2>3 DEF AttemptsInvariant
<1>3. CASE Abandon
  BY <1>3 DEF Abandon, AttemptsInvariant, AsAuthored, WasRegistered
<1>4. ASSUME NEW x \in Assignments, StartAttempt(x)
      PROVE  AttemptsInvariant'
  <2>1. AsAuthored(x, Request(x))
    BY <1>4, RequestsAreAsAuthored DEF StartAttempt
  <2>2. \A y \in Assignments : \A request : AsAuthored(y, request)' <=> AsAuthored(y, request)
    BY <1>4 DEF StartAttempt, AsAuthored, WasRegistered
  <2>3. Request(x)' = Request(x)
    BY <1>4 DEF StartAttempt, Request
  <2>4. sent[x] = {} /\ started' = [started EXCEPT ![x] = {Request(x)}] /\ owned' = {x}
    BY <1>4 DEF StartAttempt, AttemptsInvariant
  <2> QED
    BY <1>4, <2>1, <2>2, <2>3, <2>4 DEF StartAttempt, AttemptsInvariant, WasRegistered
<1>5. ASSUME NEW x \in Assignments, Dispatch(x)
      PROVE  AttemptsInvariant'
  <2>1. Sent(x) \subseteq started[x]
    BY <1>5 DEF Dispatch, Sent, Sendable, AttemptsInvariant
  <2>2. \A y \in Assignments : \A request : AsAuthored(y, request)' <=> AsAuthored(y, request)
    BY <1>5 DEF Dispatch, AsAuthored, WasRegistered
  <2> QED
    BY <1>5, <2>1, <2>2 DEF Dispatch, AttemptsInvariant
<1>6. ASSUME NEW x \in Assignments, ContinueAttempt(x)
      PROVE  AttemptsInvariant'
  <2>1. \A y \in Assignments : \A request : AsAuthored(y, request)' <=> AsAuthored(y, request)
    BY <1>6 DEF ContinueAttempt, AsAuthored, WasRegistered
  <2> QED
    BY <1>6, <2>1 DEF ContinueAttempt, AttemptsInvariant
<1>7. CASE UNCHANGED regvars
  BY <1>7, NewRowsKeepAttempts DEF regvars
<1> QED
  BY <1>1, <1>2, <1>3, <1>4, <1>5, <1>6, <1>7 DEF RegistryNext

\* An interpreter is only ever given the request its attempt was recorded with,
\* for a product that was registered and that the graph was authored with
\* (ExecutionCoordinator._execute_admitted, RuntimeInterpreterDispatcher).
THEOREM RequestsAreKept == RegistrySpec => []AttemptsKeepTheirRequest
<1>1. AttemptsInvariant => AttemptsKeepTheirRequest
  BY DEF AttemptsInvariant, AttemptsKeepTheirRequest, AsAuthored, WasRegistered
<1> QED
  BY <1>1, FirstAttempts, StepKeepsAttempts, PTL DEF RegistrySpec

-----------------------------------------------------------------------------
(* Node control.                                                           *)

\* Attempts keep the intent, the lineage and the keys they were made with.
AttemptsRecorded ==
    \A id \in DOMAIN attempts :
        /\ attempts[id].request.id = id
        /\ Declares(ControlGraph[attempts[id].lineage], attempts[id].gateway,
                    attempts[id].request)

\* Whatever carries an attempt carries the one of the table.
Registered(a) == a.request.id \in DOMAIN attempts /\ a = attempts[a.request.id]

AnswersRecorded ==
    \A x \in answers :
        /\ Registered(x.attempt)
        /\ Fingerprint(x.attempt) = Fingerprint(x.command)

\* Signing authority, as the property has it.
AuthorityDeclared ==
    \A x \in authority :
        /\ Registered(x.attempt)
        /\ Declares(x.graph, x.attempt.gateway, x.attempt.request)
        /\ \A p \in Purposes : x.attempt.keys[p] \in x.signers

VariablesTyped ==
    /\ DOMAIN variables = ControlVariables
    /\ \A v \in ControlVariables : variables[v].version \in Nat

\* An applied command found the version it expected, and the variable has moved
\* on since: that is why it cannot be applied again.
AppliedOnce ==
    /\ \A x \in applied :
          /\ Registered(x.attempt)
          /\ Cell(x.attempt) \in ControlVariables
          /\ x.attempt.request.expected = x.version
          /\ x.version \in Nat /\ x.version < variables[Cell(x.attempt)].version
          /\ x.at < x.attempt.issued + GrantLifetime
    /\ \A x, y \in applied : x.attempt.request.id = y.attempt.request.id => x = y

NodeControlInvariant ==
    /\ AttemptsRecorded
    /\ AnswersRecorded
    /\ AuthorityDeclared
    /\ \A a \in commands : Registered(a)
    /\ VariablesTyped
    /\ AppliedOnce

LEMMA FirstCommands == ControlInit => NodeControlInvariant
BY DEF ControlInit, NodeControlInvariant, AttemptsRecorded, AnswersRecorded,
       AuthorityDeclared, VariablesTyped, AppliedOnce, Registered

\* Rows of the table stay.
LEMMA AttemptsStay ==
    ASSUME NodeControlInvariant, [ControlNext]_cvars
    PROVE  \A id \in DOMAIN attempts : id \in DOMAIN attempts' /\ attempts'[id] = attempts[id]
<1>1. CASE \E c \in ControlCommands : Prepare(c)
  BY <1>1 DEF Prepare, Added
<1>2. CASE ~ \E c \in ControlCommands : Prepare(c)
  BY <1>2 DEF ControlNext, cvars, Replay, Reload, Sign, Arrive, MoveOn, ActivateSigner,
              RevokeSigner, ReplaceHeld, RevokeHeld, ControlTick
<1> QED
  BY <1>1, <1>2

\* The one signer of a purpose is active.
LEMMA SignerIsActive ==
    ASSUME NEW p \in Purposes, Selectable(p)
    PROVE  Selected(p) \in ControlKeys /\ signing[Selected(p)] = "active"
<1>1. Signers(p) # {}
  BY FS_EmptySet DEF Selectable
<1> QED
  BY <1>1 DEF Selected, Signers

\* What an accepted command is.
LEMMA AppliedMeans ==
    ASSUME NEW a, Outcome(a) = "applied"
    PROVE  /\ time < a.issued + GrantLifetime
           /\ Cell(a) \in ControlVariables
           /\ a.request.expected = variables[Cell(a)].version
<1>1. GrantsVerify(a)
  BY DEF Outcome
<1>2. Cell(a) \in ControlVariables
  BY DEF Outcome
<1>3. a.request.expected = variables[Cell(a)].version
  BY DEF Outcome
<1> QED
  BY <1>1, <1>2, <1>3 DEF GrantsVerify, TransitAccepts, TransitGrant

LEMMA StepKeepsCommands ==
    NodeControlInvariant /\ [ControlNext]_cvars => NodeControlInvariant'
<1> SUFFICES ASSUME NodeControlInvariant, [ControlNext]_cvars
             PROVE  NodeControlInvariant'
  OBVIOUS
<1>1. \A a : Registered(a) => Registered(a)'
  BY AttemptsStay DEF Registered
<1>2. AttemptsRecorded'
  <2>1. CASE \E c \in ControlCommands : Prepare(c)
    BY <2>1 DEF NodeControlInvariant, AttemptsRecorded, Prepare, Added
  <2>2. CASE ~ \E c \in ControlCommands : Prepare(c)
    BY <2>2 DEF NodeControlInvariant, AttemptsRecorded, ControlNext, cvars, Replay, Reload,
                Sign, Arrive, MoveOn, ActivateSigner, RevokeSigner, ReplaceHeld,
                RevokeHeld, ControlTick
  <2> QED
    BY <2>1, <2>2
<1>3. AnswersRecorded'
  <2>1. ASSUME NEW c \in ControlCommands, Prepare(c)
        PROVE  AnswersRecorded'
    <3>1. PICK a : /\ a.actor = c.actor /\ a.gateway = c.gateway /\ a.request = c.request
                   /\ attempts' = Added(c.request.id, a)
                   /\ answers' = answers \cup {[command |-> c, attempt |-> a]}
      BY <2>1 DEF Prepare
    <3>2. Registered(a)'
      BY <3>1 DEF Registered, Added
    <3>3. Fingerprint(a) = Fingerprint(c)
      BY <3>1 DEF Fingerprint
    <3>4. ASSUME NEW x \in answers'
          PROVE  Registered(x.attempt)' /\ Fingerprint(x.attempt) = Fingerprint(x.command)
      <4>1. CASE x \in answers
        BY <1>1, <4>1 DEF NodeControlInvariant, AnswersRecorded
      <4>2. CASE x = [command |-> c, attempt |-> a]
        BY <3>2, <3>3, <4>2
      <4> QED
        BY <3>1, <4>1, <4>2
    <3> QED
      BY <3>4 DEF AnswersRecorded
  <2>2. ASSUME NEW c \in ControlCommands, Replay(c)
        PROVE  AnswersRecorded'
    BY <1>1, <2>2 DEF NodeControlInvariant, AnswersRecorded, AttemptsRecorded, Replay,
                      Registered
  <2>3. CASE UNCHANGED answers
    BY <1>1, <2>3 DEF NodeControlInvariant, AnswersRecorded
  <2>4. \/ \E c \in ControlCommands : Prepare(c) \/ Replay(c)
        \/ UNCHANGED answers
    BY DEF ControlNext, cvars, Reload, Sign, Arrive, MoveOn, ActivateSigner,
           RevokeSigner, ReplaceHeld, RevokeHeld, ControlTick
  <2> QED
    BY <2>1, <2>2, <2>3, <2>4
<1>4. AuthorityDeclared'
  <2>1. ASSUME NEW id \in DOMAIN attempts, Reload(id)
        PROVE  AuthorityDeclared'
    <3>1. PICK a : a = attempts[id]
      OBVIOUS
    <3>2. /\ lineage = a.lineage
          /\ \A p \in Purposes : Selectable(p) /\ Selected(p) = a.keys[p]
          /\ authority' = authority \cup
               {[attempt |-> a, graph |-> ControlGraph[lineage], at |-> time,
                 signers |-> {k \in ControlKeys : signing[k] = "active"}]}
      BY <2>1, <3>1 DEF Reload, StillCurrent, KeyRetained
    <3>3. Registered(a)'
      BY <1>1, <3>1 DEF NodeControlInvariant, AttemptsRecorded, Registered
    <3>4. Declares(ControlGraph[lineage], a.gateway, a.request)
      BY <3>1, <3>2 DEF NodeControlInvariant, AttemptsRecorded
    <3>5. \A p \in Purposes : a.keys[p] \in {k \in ControlKeys : signing[k] = "active"}
      BY <3>2, SignerIsActive
    <3> DEFINE active == {k \in ControlKeys : signing[k] = "active"}
               new == [attempt |-> a, graph |-> ControlGraph[lineage], at |-> time,
                       signers |-> active]
    <3>6. /\ new.attempt = a /\ new.graph = ControlGraph[lineage] /\ new.signers = active
          /\ authority' = authority \cup {new}
          /\ \A p \in Purposes : a.keys[p] \in active
      BY <3>2, <3>5
    <3> HIDE DEF active, new
    <3>8. ASSUME NEW x \in authority'
          PROVE  /\ Registered(x.attempt)'
                 /\ Declares(x.graph, x.attempt.gateway, x.attempt.request)
                 /\ \A p \in Purposes : x.attempt.keys[p] \in x.signers
      <4>1. CASE x \in authority
        BY <1>1, <4>1 DEF NodeControlInvariant, AuthorityDeclared
      <4>2. CASE x = new
        BY <3>3, <3>4, <3>6, <4>2
      <4> QED
        BY <3>6, <4>1, <4>2
    <3> QED
      BY <3>8 DEF AuthorityDeclared
  <2>2. CASE UNCHANGED authority
    BY <1>1, <2>2 DEF NodeControlInvariant, AuthorityDeclared
  <2>3. (\E id \in DOMAIN attempts : Reload(id)) \/ UNCHANGED authority
    BY DEF ControlNext, cvars, Prepare, Replay, Sign, Arrive, MoveOn, ActivateSigner,
           RevokeSigner, ReplaceHeld, RevokeHeld, ControlTick
  <2> QED
    BY <2>1, <2>2, <2>3
<1>5. (\A a \in commands : Registered(a))'
  <2>1. ASSUME NEW x \in authority, Sign(x)
        PROVE  (\A a \in commands : Registered(a))'
    BY <1>1, <2>1 DEF NodeControlInvariant, AuthorityDeclared, Sign
  <2>2. CASE UNCHANGED commands
    BY <1>1, <2>2 DEF NodeControlInvariant
  <2>3. (\E x \in authority : Sign(x)) \/ UNCHANGED commands
    BY DEF ControlNext, cvars, Prepare, Replay, Reload, Arrive, MoveOn, ActivateSigner,
           RevokeSigner, ReplaceHeld, RevokeHeld, ControlTick
  <2> QED
    BY <2>1, <2>2, <2>3
<1>6. VariablesTyped' /\ AppliedOnce'
  <2>1. ASSUME NEW a \in commands, Arrive(a)
        PROVE  VariablesTyped' /\ AppliedOnce'
    <3> DEFINE now == [attempt |-> a, at |-> time, version |-> variables[Cell(a)].version]
    <3>1. /\ Outcome(a) = "applied"
          /\ variables' = [variables EXCEPT ![Cell(a)] =
                             [version |-> @.version + 1, state |-> a.request.state]]
          /\ applied' = applied \cup {now}
      BY <2>1 DEF Arrive
    <3>2. /\ time < a.issued + GrantLifetime
          /\ Cell(a) \in ControlVariables
          /\ a.request.expected = variables[Cell(a)].version
      BY <3>1, AppliedMeans
    <3>3. VariablesTyped
      BY DEF NodeControlInvariant
    <3>4. /\ VariablesTyped'
          /\ variables'[Cell(a)].version = variables[Cell(a)].version + 1
          /\ \A v \in ControlVariables : v # Cell(a) => variables'[v] = variables[v]
      BY <3>1, <3>2, <3>3 DEF VariablesTyped
    <3>5. \A v \in ControlVariables : variables[v].version <= variables'[v].version
      BY <3>2, <3>3, <3>4 DEF VariablesTyped
    <3>6. Registered(a) /\ Registered(a)'
      BY <1>1 DEF NodeControlInvariant
    <3>7. \A x \in applied : x.attempt.request.id # a.request.id
      BY <3>2, <3>6 DEF NodeControlInvariant, AppliedOnce, Registered
    <3>8. ASSUME NEW x \in applied'
          PROVE  /\ Registered(x.attempt)'
                 /\ Cell(x.attempt) \in ControlVariables
                 /\ x.attempt.request.expected = x.version
                 /\ x.version \in Nat /\ x.version < variables'[Cell(x.attempt)].version
                 /\ x.at < x.attempt.issued + GrantLifetime
      <4>1. CASE x = now
        BY <3>2, <3>3, <3>4, <3>6, <4>1 DEF VariablesTyped
      <4>2. CASE x \in applied
        <5>1. /\ Registered(x.attempt)
              /\ Cell(x.attempt) \in ControlVariables
              /\ x.attempt.request.expected = x.version
              /\ x.version \in Nat /\ x.version < variables[Cell(x.attempt)].version
              /\ x.at < x.attempt.issued + GrantLifetime
          BY <4>2 DEF NodeControlInvariant, AppliedOnce
        <5>2. x.version < variables'[Cell(x.attempt)].version
          BY <3>3, <3>4, <3>5, <5>1 DEF VariablesTyped
        <5> QED
          BY <1>1, <5>1, <5>2
      <4> QED
        BY <3>1, <4>1, <4>2
    <3>9. \A x, y \in applied' : x.attempt.request.id = y.attempt.request.id => x = y
      BY <3>1, <3>7 DEF NodeControlInvariant, AppliedOnce
    <3>10. AppliedOnce'
      BY <3>8, <3>9 DEF AppliedOnce, Cell
    <3> QED
      BY <3>4, <3>10
  <2>2. CASE UNCHANGED <<variables, applied>>
    BY <1>1, <2>2 DEF NodeControlInvariant, VariablesTyped, AppliedOnce, Cell
  <2>3. (\E a \in commands : Arrive(a)) \/ UNCHANGED <<variables, applied>>
    BY DEF ControlNext, cvars, Prepare, Replay, Reload, Sign, MoveOn, ActivateSigner,
           RevokeSigner, ReplaceHeld, RevokeHeld, ControlTick
  <2> QED
    BY <2>1, <2>2, <2>3
<1> QED
  BY <1>2, <1>3, <1>4, <1>5, <1>6 DEF NodeControlInvariant

\* For any commands, graphs, keys and clocks: one attempt per request id, made
\* for the intent its callers sent; signing authority only where the accepted
\* graph declares the target; a variable changed at most once by a request,
\* within the lifetime of its grants.
THEOREM CommandsExact == NodeControlSpec => []ControlCommandsAreExact
<1>1. ASSUME NodeControlInvariant
      PROVE  ControlCommandsAreExact
  <2>1. \A x \in answers :
          /\ x.attempt.request = x.command.request
          /\ x.attempt.gateway = x.command.gateway /\ x.attempt.actor = x.command.actor
    BY <1>1 DEF NodeControlInvariant, AnswersRecorded, Fingerprint
  <2>2. \A x, y \in answers : x.command.request.id = y.command.request.id =>
          x.attempt = y.attempt
    <3> SUFFICES ASSUME NEW x \in answers, NEW y \in answers,
                        x.command.request.id = y.command.request.id
                 PROVE  x.attempt = y.attempt
      OBVIOUS
    <3>1. Registered(x.attempt) /\ Registered(y.attempt)
      BY <1>1 DEF NodeControlInvariant, AnswersRecorded
    <3>2. x.attempt.request.id = y.attempt.request.id
      BY <2>1
    <3> QED
      BY <3>1, <3>2 DEF Registered
  <2>3. \A x \in authority :
          /\ Declares(x.graph, x.attempt.gateway, x.attempt.request)
          /\ \A p \in Purposes : x.attempt.keys[p] \in x.signers
    BY <1>1 DEF NodeControlInvariant, AuthorityDeclared
  <2>4. /\ \A x, y \in applied : x.attempt.request.id = y.attempt.request.id => x = y
        /\ \A x \in applied : x.at < x.attempt.issued + GrantLifetime
    BY <1>1 DEF NodeControlInvariant, AppliedOnce
  <2> QED
    BY <2>1, <2>2, <2>3, <2>4 DEF ControlCommandsAreExact
<1> QED
  BY <1>1, FirstCommands, StepKeepsCommands, PTL DEF NodeControlSpec

-----------------------------------------------------------------------------
(* Public ingress.                                                         *)

\* An effect is where its operation leads, and ends once.
EffectsInOrder ==
    \A x \in IngressEffects : LET f == effects[x] IN
        /\ f.pc \in {"granted", "created", "undo"} => f.op = "allocate"
        /\ f.pc \in {"planned", "marking", "marked", "torn", "removing", "doubtful", "doubting"}
              => f.op = "remove"
        /\ f.outcome # "none" => f.pc = "ended"
        /\ f.pc \in {"marking", "marked", "torn", "removing", "doubtful"} => f.epoch \in DOMAIN epochs

\* Only its own creation brings the parts of a tunnel about: before it, and after
\* an end that reports their absence, there are none.
NothingLeft ==
    \A x \in IngressEffects : LET f == effects[x] IN
        (\/ f.pc \in {"idle", "granted"}
         \/ f.op = "allocate" /\ f.outcome \in {"failed", "unsupported"})
            => Parts(x) \cap cloud = {}

\* A recorded tunnel is that of an allocation that has succeeded, and the other
\* way round.
RowsAreAllocations ==
    /\ \A e \in DOMAIN epochs :
          LET f == effects[epochs[e].tunnel] IN f.op = "allocate" /\ f.outcome = "succeeded"
    /\ \A x \in IngressEffects :
          effects[x].op = "allocate" /\ effects[x].outcome = "succeeded" =>
              x \in tokens /\ \E e \in DOMAIN epochs : epochs[e].tunnel = x

\* A teardown that returned, and a removal that reports one.
RemovedIsGone ==
    \A x \in IngressEffects : LET f == effects[x] IN
        (/\ f.op = "remove"
         /\ \/ f.pc \in {"torn", "removing"}
            \/ f.outcome = "succeeded" /\ f.lifecycle = "ephemeral")
            => f.epoch \in DOMAIN epochs /\ Parts(epochs[f.epoch].tunnel) \cap cloud = {}

OneInForce == \A e, f \in InForce : e = f

IngressInvariant ==
    /\ IngressTypeOK
    /\ EffectsInOrder
    /\ NothingLeft
    /\ RowsAreAllocations
    /\ RemovedIsGone
    /\ OneInForce

LEMMA FirstIngress == IngressInit => IngressInvariant
<1> SUFFICES ASSUME IngressInit PROVE IngressInvariant
  OBVIOUS
<1>1. IngressTypeOK
  BY IngressAssumption DEF IngressInit, IngressTypeOK, EffectRecords, Outcomes, IngressLifecycles
<1> QED
  BY <1>1 DEF IngressInit, IngressInvariant, EffectsInOrder, NothingLeft, RowsAreAllocations,
              RemovedIsGone, OneInForce, InForce, RowsWith

\* The latest row with one of some statuses is the one closest to the end.
LEMMA LatestListed ==
    ASSUME NEW S, epochs \in Seq(ResourceRows), RowsWith(S) # {}
    PROVE  Latest(S) \in DOMAIN epochs /\ epochs[Latest(S)].status \in S
<1>1. PICK n : n = Len(epochs)
  OBVIOUS
<1>2. PICK rows : rows = RowsWith(S)
  OBVIOUS
<1>3. n \in Nat /\ rows # {} /\ \A e \in rows : e \in Nat /\ n - e \in Nat
  BY <1>1, <1>2 DEF RowsWith
<1> DEFINE gaps == {n - e : e \in rows}
<1>4. gaps \subseteq Nat /\ gaps # {}
  BY <1>3
<1>5. PICK g \in gaps : \A h \in gaps : g <= h
  <2> HIDE DEF gaps
  <2> DEFINE less == {mn \in Nat \X Nat : mn[1] < mn[2]}
  <2>1. \A g, h \in Nat : g < h => <<g, h>> \in less
    OBVIOUS
  <2>2. IsWellFoundedOn(less, Nat)
    BY NatLessThanWellFounded DEF OpToRel
  <2> HIDE DEF less
  <2>3. PICK g \in gaps : \A h \in gaps : <<h, g>> \notin less
    BY <1>4, <2>2, WFMin
  <2>4. ASSUME NEW h \in gaps PROVE g <= h
    <3>1. g \in Nat /\ h \in Nat /\ ~(h < g)
      BY <1>4, <2>1, <2>3
    <3> QED
      BY <3>1
  <2> QED
    BY <2>4
<1>6. PICK e \in rows : n - e = g
  BY <1>5
<1>7. \A f \in rows : f <= e
  <2> SUFFICES ASSUME NEW f \in rows PROVE f <= e
    OBVIOUS
  <2>1. n - e <= n - f
    BY <1>5, <1>6
  <2> QED
    BY <1>3, <2>1
<1>8. Latest(S) \in RowsWith(S)
  BY <1>2, <1>6, <1>7 DEF Latest
<1> QED
  BY <1>8 DEF RowsWith

\* A row appended.
LEMMA AppendedRow ==
    ASSUME epochs \in Seq(ResourceRows), NEW row \in ResourceRows,
           epochs' = Append(epochs, row)
    PROVE  /\ epochs' \in Seq(ResourceRows)
           /\ Len(epochs') = Len(epochs) + 1
           /\ DOMAIN epochs' = DOMAIN epochs \cup {Len(epochs) + 1}
           /\ Len(epochs) + 1 \notin DOMAIN epochs
           /\ \A e \in DOMAIN epochs : epochs'[e] = epochs[e]
           /\ epochs'[Len(epochs) + 1] = row
OBVIOUS

\* A row updated.
LEMMA UpdatedRow ==
    ASSUME epochs \in Seq(ResourceRows), NEW e, NEW status \in ResourceStatuses,
           NEW x \in IngressEffects,
           \/ SetRow(e, status, x)
           \/ epochs' = [epochs EXCEPT ![e].status = status]
    PROVE  /\ epochs' \in Seq(ResourceRows)
           /\ Len(epochs') = Len(epochs) /\ DOMAIN epochs' = DOMAIN epochs
           /\ \A i \in DOMAIN epochs : epochs'[i].tunnel = epochs[i].tunnel
           /\ \A i \in DOMAIN epochs :
                 epochs'[i].status = IF i = e THEN status ELSE epochs[i].status
<1>1. \A i \in DOMAIN epochs : epochs[i] \in ResourceRows
  OBVIOUS
<1>2. DOMAIN epochs' = DOMAIN epochs
  BY DEF SetRow
<1>3. \A i \in DOMAIN epochs :
        /\ epochs'[i] \in ResourceRows
        /\ epochs'[i].tunnel = epochs[i].tunnel
        /\ epochs'[i].status = IF i = e THEN status ELSE epochs[i].status
  BY <1>1 DEF SetRow, ResourceRows
<1>4. epochs' \in [1..Len(epochs) -> ResourceRows] /\ Len(epochs) \in Nat
  <2>1. DOMAIN epochs = 1..Len(epochs) /\ Len(epochs) \in Nat
    OBVIOUS
  <2>2. epochs' = [i \in 1..Len(epochs) |-> epochs'[i]]
    BY <2>1 DEF SetRow
  <2> QED
    BY <1>3, <2>1, <2>2
<1>5. epochs' \in Seq(ResourceRows) /\ Len(epochs') = Len(epochs)
  BY <1>4
<1> QED
  BY <1>2, <1>3, <1>5

\* What the record of an effect may be, whatever its operation.
EffectFits(f) ==
    /\ f.pc \in {"granted", "created", "undo"} => f.op = "allocate"
    /\ f.pc \in {"planned", "marking", "marked", "torn", "removing", "doubtful", "doubting"}
              => f.op = "remove"
    /\ f.outcome # "none" => f.pc = "ended"
    /\ f.pc \in {"marking", "marked", "torn", "removing", "doubtful"} => f.epoch \in DOMAIN epochs
    /\ f.op = "allocate" => f.outcome # "succeeded"

\* No row is new and nothing appears at the provider: all that is to show is
\* about the effect that moves, and the rows in force.
LEMMA OneEffectMoves ==
    ASSUME IngressInvariant, NEW x \in IngressEffects,
           zone' \in {"unregistered", "active", "revoked"}, custodian' \in {"active", "revoked"},
           effects' \in [IngressEffects -> EffectRecords],
           \A y \in IngressEffects : y # x => effects'[y] = effects[y],
           effects[x].pc # "ended",
           tokens' = tokens, cloud' \subseteq cloud,
           epochs' \in Seq(ResourceRows), Len(epochs') = Len(epochs),
           DOMAIN epochs' = DOMAIN epochs,
           \A e \in DOMAIN epochs : epochs'[e].tunnel = epochs[e].tunnel,
           EffectFits(effects'[x]),
           (\/ effects'[x].pc \in {"idle", "granted"}
            \/ effects'[x].op = "allocate" /\ effects'[x].outcome \in {"failed", "unsupported"})
               => Parts(x) \cap cloud' = {},
           (/\ effects'[x].op = "remove"
            /\ \/ effects'[x].pc \in {"torn", "removing"}
               \/ effects'[x].outcome = "succeeded" /\ effects'[x].lifecycle = "ephemeral")
               => /\ effects'[x].epoch \in DOMAIN epochs
                  /\ Parts(epochs[effects'[x].epoch].tunnel) \cap cloud' = {},
           OneInForce'
    PROVE  IngressInvariant'
<1> USE DEF IngressInvariant
<1>1. IngressTypeOK'
  BY DEF IngressTypeOK
<1>2. EffectsInOrder'
  BY DEF EffectsInOrder, EffectFits
<1>3. NothingLeft'
  BY DEF NothingLeft, EffectFits
<1>4. RowsAreAllocations'
  <2>1. ASSUME NEW e \in DOMAIN epochs'
        PROVE  /\ effects'[epochs'[e].tunnel].op = "allocate"
               /\ effects'[epochs'[e].tunnel].outcome = "succeeded"
    <3>0. epochs[e] \in ResourceRows
      BY DEF IngressTypeOK
    <3>1. epochs'[e].tunnel = epochs[e].tunnel /\ epochs[e].tunnel \in IngressEffects
      BY <3>0 DEF ResourceRows
    <3>2. /\ effects[epochs[e].tunnel].op = "allocate"
          /\ effects[epochs[e].tunnel].outcome = "succeeded"
      BY DEF RowsAreAllocations
    <3>3. epochs[e].tunnel # x
      BY <3>1, <3>2 DEF EffectsInOrder
    <3> QED
      BY <3>1, <3>2, <3>3
  <2>2. ASSUME NEW y \in IngressEffects,
               effects'[y].op = "allocate", effects'[y].outcome = "succeeded"
        PROVE  y \in tokens' /\ \E e \in DOMAIN epochs' : epochs'[e].tunnel = y
    <3>1. y # x
      BY <2>2 DEF EffectFits
    <3>2. y \in tokens /\ \E e \in DOMAIN epochs : epochs[e].tunnel = y
      BY <2>2, <3>1 DEF RowsAreAllocations
    <3> QED
      BY <3>2
  <2> QED
    BY <2>1, <2>2 DEF RowsAreAllocations
<1>5. RemovedIsGone'
  <2> SUFFICES ASSUME NEW y \in IngressEffects, effects'[y].op = "remove",
                      \/ effects'[y].pc \in {"torn", "removing"}
                      \/ effects'[y].outcome = "succeeded" /\ effects'[y].lifecycle = "ephemeral"
               PROVE  /\ effects'[y].epoch \in DOMAIN epochs
                      /\ Parts(epochs[effects'[y].epoch].tunnel) \cap cloud' = {}
    BY DEF RemovedIsGone
  <2>1. CASE y = x
    BY <2>1
  <2>2. CASE y # x
    BY <2>2 DEF RemovedIsGone
  <2> QED
    BY <2>1, <2>2
<1> QED
  BY <1>1, <1>2, <1>3, <1>4, <1>5

\* The first transition of an effect, and what it may be.
LEMMA NothingChangesAtProvider ==
    ASSUME IngressInvariant, NEW x \in IngressEffects,
           UNCHANGED <<zone, custodian, epochs, tokens, cloud>>,
           effects' \in [IngressEffects -> EffectRecords],
           \A y \in IngressEffects : y # x => effects'[y] = effects[y],
           effects[x].pc # "ended",
           EffectFits(effects'[x]),
           effects'[x].pc \notin {"torn", "removing"},
           effects'[x].pc \in {"idle", "granted"} => effects[x].pc \in {"idle", "granted"},
           effects'[x].op = "allocate" /\ effects'[x].outcome \in {"failed", "unsupported"}
               => effects[x].pc \in {"idle", "granted"},
           effects'[x].op = "remove" /\ effects'[x].outcome = "succeeded" =>
               effects'[x].lifecycle # "ephemeral"
    PROVE  IngressInvariant'
<1>1. OneInForce'
  BY DEF IngressInvariant, OneInForce, InForce, RowsWith
<1>2. effects[x].pc \in {"idle", "granted"} => Parts(x) \cap cloud = {}
  BY DEF IngressInvariant, NothingLeft
<1>3. epochs \in Seq(ResourceRows) /\ zone \in {"unregistered", "active", "revoked"}
      /\ custodian \in {"active", "revoked"}
  BY DEF IngressInvariant, IngressTypeOK
<1> QED
  BY <1>1, <1>2, <1>3, OneEffectMoves

LEMMA ChecksKeepIngress ==
    ASSUME IngressInvariant, NEW x \in IngressEffects,
           (\E l \in IngressLifecycles : Allocate(x, l)) \/ Remove(x) \/ ReadRow(x)
             \/ FindDoubtful(x) \/ EffectDies(x)
    PROVE  IngressInvariant'
<1>0. effects \in [IngressEffects -> EffectRecords] /\ epochs \in Seq(ResourceRows)
      /\ Len(epochs) <= MaxEpochs /\ MaxEpochs \in Nat /\ OneInForce /\ EffectsInOrder
  BY IngressAssumption DEF IngressInvariant, IngressTypeOK
<1>1. ASSUME NEW l \in IngressLifecycles, Allocate(x, l)
      PROVE  IngressInvariant'
  <2>1. PICK outcome \in {"none", "unsupported", "uncertain"} :
          effects' = [effects EXCEPT ![x] =
              [op |-> "allocate", epoch |-> 0, row |-> 0, lifecycle |-> l,
               pc |-> IF outcome = "none" THEN "granted" ELSE "ended",
               outcome |-> outcome]]
    BY <1>1 DEF Allocate
  <2>2. effects' \in [IngressEffects -> EffectRecords]
    BY <1>0, <2>1 DEF EffectRecords, Outcomes
  <2>3. effects[x].pc = "idle" /\ UNCHANGED <<zone, custodian, epochs, tokens, cloud>>
    BY <1>1 DEF Allocate, Begins, At
  <2>4. /\ \A y \in IngressEffects : y # x => effects'[y] = effects[y]
        /\ effects'[x].op = "allocate" /\ effects'[x].outcome = outcome
        /\ effects'[x].pc = IF outcome = "none" THEN "granted" ELSE "ended"
    BY <1>0, <2>1
  <2> QED
    BY <2>2, <2>3, <2>4, NothingChangesAtProvider DEF EffectFits
<1>2. CASE Remove(x)
  <2> DEFINE e == Latest({"active"})
             found == Granted /\ e # 0 /\ epochs[e].source \in tokens
  <2>1. effects' = [effects EXCEPT ![x] =
            [op |-> "remove", epoch |-> 0, row |-> 0,
             lifecycle |-> IF found THEN epochs[e].lifecycle ELSE "ephemeral",
             pc |-> IF found /\ epochs[e].lifecycle = "ephemeral" THEN "planned" ELSE "ended",
             outcome |-> IF ~ found THEN "unsupported"
                         ELSE IF epochs[e].lifecycle = "ephemeral" THEN "none"
                         ELSE "succeeded"]]
    BY <1>2 DEF Remove
  <2>2. found => epochs[e].lifecycle \in IngressLifecycles
    <3>1. found => e \in DOMAIN epochs
      BY <1>0, LatestListed DEF Latest
    <3>2. \A i \in DOMAIN epochs : epochs[i] \in ResourceRows
      BY <1>0
    <3> QED
      BY <3>1, <3>2 DEF ResourceRows
  <2>3. effects[x].pc = "idle" /\ UNCHANGED <<zone, custodian, epochs, tokens, cloud>>
    BY <1>2 DEF Remove, Begins, At
  <2> HIDE DEF found, e
  <2>4. effects' \in [IngressEffects -> EffectRecords]
    BY <1>0, <2>1, <2>2 DEF EffectRecords, Outcomes, IngressLifecycles
  <2>5. /\ \A y \in IngressEffects : y # x => effects'[y] = effects[y]
        /\ effects'[x].op = "remove"
        /\ effects'[x].pc \in {"planned", "ended"}
        /\ effects'[x].outcome # "none" => effects'[x].pc = "ended"
        /\ effects'[x].outcome = "succeeded" => effects'[x].lifecycle # "ephemeral"
    BY <1>0, <2>1
  <2> QED
    BY <2>3, <2>4, <2>5, NothingChangesAtProvider DEF EffectFits
<1>3. CASE ReadRow(x)
  <2>1. effects[x].pc = "planned" /\ UNCHANGED <<zone, custodian, epochs, tokens, cloud>>
    BY <1>3 DEF ReadRow, At
  <2>2. effects[x].op = "remove" /\ effects[x].outcome = "none"
    BY <1>0, <2>1 DEF EffectsInOrder
  <2>3. PICK e : e = Latest({"active"})
    OBVIOUS
  <2>4. e # 0 => e \in DOMAIN epochs
    BY <1>0, <2>3, LatestListed DEF Latest
  <2>5. \/ effects' = [effects EXCEPT ![x].pc = "ended", ![x].outcome = "uncertain"]
        \/ e # 0 /\ effects' = [effects EXCEPT ![x].pc = "marking", ![x].epoch = e]
    BY <1>3, <2>3 DEF ReadRow, End
  <2>6. effects[x] \in EffectRecords
    BY <1>0
  <2>7. e # 0 => e \in 0 .. MaxEpochs
    BY <1>0, <2>4
  <2>8. effects' \in [IngressEffects -> EffectRecords]
    <3>1. CASE effects' = [effects EXCEPT ![x].pc = "ended", ![x].outcome = "uncertain"]
      BY <1>0, <2>6, <3>1 DEF EffectRecords, Outcomes
    <3>2. CASE e # 0 /\ effects' = [effects EXCEPT ![x].pc = "marking", ![x].epoch = e]
      BY <1>0, <2>6, <2>7, <3>2 DEF EffectRecords
    <3> QED
      BY <2>5, <3>1, <3>2
  <2>9. /\ \A y \in IngressEffects : y # x => effects'[y] = effects[y]
        /\ effects'[x].op = "remove"
        /\ \/ effects'[x].pc = "ended" /\ effects'[x].outcome = "uncertain"
           \/ /\ effects'[x].pc = "marking" /\ effects'[x].outcome = "none"
              /\ effects'[x].epoch \in DOMAIN epochs
    BY <1>0, <2>2, <2>4, <2>5, <2>6 DEF EffectRecords
  <2> QED
    BY <2>1, <2>8, <2>9, NothingChangesAtProvider DEF EffectFits
<1>4. CASE EffectDies(x)
  <2>1. /\ effects[x].pc \notin {"idle", "ended", "dead"}
        /\ effects' = [effects EXCEPT ![x].pc = "dead"]
        /\ UNCHANGED <<zone, custodian, epochs, tokens, cloud>>
    BY <1>4 DEF EffectDies, Move
  <2>2. effects[x] \in EffectRecords /\ effects[x].outcome = "none"
    BY <1>0, <2>1 DEF EffectsInOrder
  <2>3. effects' \in [IngressEffects -> EffectRecords]
    BY <1>0, <2>1, <2>2 DEF EffectRecords
  <2>4. /\ \A y \in IngressEffects : y # x => effects'[y] = effects[y]
        /\ effects'[x].pc = "dead" /\ effects'[x].outcome = "none"
    BY <1>0, <2>1, <2>2 DEF EffectRecords
  <2> QED
    BY <2>1, <2>3, <2>4, NothingChangesAtProvider DEF EffectFits
<1>5. CASE FindDoubtful(x)
  <2>1. effects[x].pc = "doubtful" /\ UNCHANGED <<zone, custodian, epochs, tokens, cloud>>
    BY <1>5 DEF FindDoubtful, At
  <2>2. effects[x].op = "remove" /\ effects[x].outcome = "none"
    BY <1>0, <2>1 DEF EffectsInOrder
  <2>3. PICK e : e = Latest(Blocking)
    OBVIOUS
  <2>4. Blocked => e \in 0 .. MaxEpochs
    <3>1. Blocked => e \in DOMAIN epochs
      BY <1>0, <2>3, LatestListed DEF Blocked
    <3> QED
      BY <1>0, <3>1
  <2>5. \/ effects' = [effects EXCEPT ![x].pc = "ended", ![x].outcome = "uncertain"]
        \/ Blocked /\ effects' = [effects EXCEPT ![x].pc = "doubting", ![x].row = e]
    BY <1>5, <2>3 DEF FindDoubtful, End
  <2>6. effects[x] \in EffectRecords
    BY <1>0
  <2>7. effects' \in [IngressEffects -> EffectRecords]
    <3>1. CASE effects' = [effects EXCEPT ![x].pc = "ended", ![x].outcome = "uncertain"]
      BY <1>0, <2>6, <3>1 DEF EffectRecords, Outcomes
    <3>2. CASE Blocked /\ effects' = [effects EXCEPT ![x].pc = "doubting", ![x].row = e]
      BY <1>0, <2>4, <2>6, <3>2 DEF EffectRecords
    <3> QED
      BY <2>5, <3>1, <3>2
  <2>8. /\ \A y \in IngressEffects : y # x => effects'[y] = effects[y]
        /\ effects'[x].op = "remove"
        /\ \/ effects'[x].pc = "ended" /\ effects'[x].outcome = "uncertain"
           \/ effects'[x].pc = "doubting" /\ effects'[x].outcome = "none"
    BY <1>0, <2>2, <2>5, <2>6 DEF EffectRecords
  <2> QED
    BY <2>1, <2>7, <2>8, NothingChangesAtProvider DEF EffectFits
<1> QED
  BY <1>1, <1>2, <1>3, <1>4, <1>5

\* An effect that ends, and one that moves on.
LEMMA EffectEnds ==
    ASSUME NEW x \in IngressEffects, effects \in [IngressEffects -> EffectRecords],
           NEW o \in Outcomes, effects' = [effects EXCEPT ![x].pc = "ended", ![x].outcome = o]
    PROVE  effects' \in [IngressEffects -> EffectRecords]
<1>1. [effects[x] EXCEPT !.pc = "ended", !.outcome = o] \in EffectRecords
  BY DEF EffectRecords
<1> QED
  BY <1>1

LEMMA EffectMovesOn ==
    ASSUME NEW x \in IngressEffects, effects \in [IngressEffects -> EffectRecords],
           NEW pc \in {"torn", "doubtful"}, effects' = [effects EXCEPT ![x].pc = pc]
    PROVE  effects' \in [IngressEffects -> EffectRecords]
BY DEF EffectRecords

LEMMA CallsKeepIngress ==
    ASSUME IngressInvariant, NEW x \in IngressEffects,
           Compensate(x) \/ MarkRemoving(x) \/ Teardown(x)
             \/ MarkUncertain(x) \/ FindRemoved(x) \/ MarkRemoved(x)
    PROVE  IngressInvariant'
<1>0. /\ effects \in [IngressEffects -> EffectRecords] /\ effects[x] \in EffectRecords
      /\ epochs \in Seq(ResourceRows) /\ OneInForce /\ EffectsInOrder /\ RemovedIsGone
      /\ zone \in {"unregistered", "active", "revoked"} /\ custodian \in {"active", "revoked"}
  BY DEF IngressInvariant, IngressTypeOK
<1>1. UNCHANGED epochs => OneInForce'
  BY <1>0 DEF OneInForce, InForce, RowsWith
<1>2. CASE Compensate(x)
  <2>1. /\ effects[x].pc = "undo" /\ UNCHANGED <<zone, custodian, epochs, tokens>>
        /\ cloud' \subseteq cloud
        /\ \/ /\ Parts(x) \cap cloud' = {}
              /\ effects' = [effects EXCEPT ![x].pc = "ended", ![x].outcome = "failed"]
           \/ effects' = [effects EXCEPT ![x].pc = "ended", ![x].outcome = "uncertain"]
    BY <1>2 DEF Compensate, At, End, TornDown, PartlyTornDown
  <2>5. "failed" \in Outcomes /\ "uncertain" \in Outcomes
    BY DEF Outcomes
  <2>2. effects[x].op = "allocate"
    BY <1>0, <2>1 DEF EffectsInOrder
  <2>3. effects' \in [IngressEffects -> EffectRecords]
    BY <1>0, <2>1, <2>5, EffectEnds
  <2>4. /\ \A y \in IngressEffects : y # x => effects'[y] = effects[y]
        /\ effects'[x].op = "allocate" /\ effects'[x].pc = "ended"
        /\ effects'[x].outcome \in {"failed", "uncertain"}
        /\ effects'[x].outcome = "failed" => Parts(x) \cap cloud' = {}
    BY <1>0, <2>1, <2>2 DEF EffectRecords
  <2> QED
    BY <1>0, <1>1, <2>1, <2>3, <2>4, OneEffectMoves DEF EffectFits
<1>3. CASE MarkRemoving(x)
  <2>1. effects[x].pc = "marking" /\ UNCHANGED <<zone, custodian, tokens, cloud>>
    BY <1>3 DEF MarkRemoving, At
  <2>2. effects[x].op = "remove" /\ effects[x].outcome = "none" /\ effects[x].epoch \in DOMAIN epochs
    BY <1>0, <2>1 DEF EffectsInOrder
  <2>3. CASE /\ InForce \subseteq {effects[x].epoch}
             /\ SetRow(effects[x].epoch, "removing", x) /\ Move(x, "marked")
    <3>1. effects' = [effects EXCEPT ![x].pc = "marked"]
      BY <2>3 DEF Move
    <3>2. effects' \in [IngressEffects -> EffectRecords]
      BY <1>0, <3>1 DEF EffectRecords
    <3>3. /\ \A y \in IngressEffects : y # x => effects'[y] = effects[y]
          /\ effects'[x].op = "remove" /\ effects'[x].pc = "marked"
          /\ effects'[x].outcome = "none" /\ effects'[x].epoch \in DOMAIN epochs
      BY <1>0, <2>2, <3>1 DEF EffectRecords
    <3>4. /\ epochs' \in Seq(ResourceRows)
          /\ Len(epochs') = Len(epochs) /\ DOMAIN epochs' = DOMAIN epochs
          /\ \A i \in DOMAIN epochs : epochs'[i].tunnel = epochs[i].tunnel
          /\ \A i \in DOMAIN epochs :
                epochs'[i].status = IF i = effects[x].epoch THEN "removing" ELSE epochs[i].status
      <4>1. "removing" \in ResourceStatuses
        BY DEF ResourceStatuses
      <4> QED
        BY <1>0, <2>3, <4>1, UpdatedRow
    <3>5. OneInForce'
      BY <2>3, <3>4 DEF OneInForce, InForce, RowsWith
    <3> QED
      BY <1>0, <2>1, <3>2, <3>3, <3>4, <3>5, OneEffectMoves DEF EffectFits
  <2>4. CASE UNCHANGED epochs /\ End(x, "uncertain")
    <3>1. effects' = [effects EXCEPT ![x].pc = "ended", ![x].outcome = "uncertain"]
      BY <2>4 DEF End
    <3>2. effects' \in [IngressEffects -> EffectRecords]
      BY <1>0, <3>1 DEF EffectRecords, Outcomes
    <3>3. /\ \A y \in IngressEffects : y # x => effects'[y] = effects[y]
          /\ effects'[x].op = "remove" /\ effects'[x].pc = "ended"
          /\ effects'[x].outcome = "uncertain"
      BY <1>0, <2>2, <3>1 DEF EffectRecords
    <3> QED
      BY <1>0, <1>1, <2>1, <2>4, <3>2, <3>3, OneEffectMoves DEF EffectFits
  <2> QED
    BY <1>3, <2>3, <2>4 DEF MarkRemoving
<1>4. CASE Teardown(x)
  <2>1. effects[x].pc = "marked" /\ UNCHANGED <<zone, custodian, epochs, tokens>>
    BY <1>4 DEF Teardown, At
  <2>2. effects[x].op = "remove" /\ effects[x].outcome = "none" /\ effects[x].epoch \in DOMAIN epochs
    BY <1>0, <2>1 DEF EffectsInOrder
  <2>3. /\ cloud' \subseteq cloud
        /\ \/ /\ Parts(epochs[effects[x].epoch].tunnel) \cap cloud' = {}
              /\ effects' = [effects EXCEPT ![x].pc = "torn"]
           \/ effects' = [effects EXCEPT ![x].pc = "doubtful"]
    BY <1>4 DEF Teardown, Move, TornDown, PartlyTornDown
  <2>4. effects' \in [IngressEffects -> EffectRecords]
    BY <1>0, <2>3, EffectMovesOn
  <2>5. /\ \A y \in IngressEffects : y # x => effects'[y] = effects[y]
        /\ effects'[x].op = "remove" /\ effects'[x].pc \in {"torn", "doubtful"}
        /\ effects'[x].outcome = "none" /\ effects'[x].epoch = effects[x].epoch
        /\ effects'[x].pc = "torn" => Parts(epochs[effects[x].epoch].tunnel) \cap cloud' = {}
    BY <1>0, <2>2, <2>3 DEF EffectRecords
  <2> QED
    BY <1>0, <1>1, <2>1, <2>2, <2>3, <2>4, <2>5, OneEffectMoves DEF EffectFits
<1>5. CASE MarkUncertain(x)
  <2>1. /\ effects[x].pc = "doubting" /\ UNCHANGED <<zone, custodian, tokens, cloud>>
        /\ effects' = [effects EXCEPT ![x].pc = "ended", ![x].outcome = "uncertain"]
    BY <1>5 DEF MarkUncertain, At, End
  <2>2. effects[x].op = "remove"
    BY <1>0, <2>1 DEF EffectsInOrder
  <2>3. effects' \in [IngressEffects -> EffectRecords]
    BY <1>0, <2>1 DEF EffectRecords, Outcomes
  <2>4. /\ \A y \in IngressEffects : y # x => effects'[y] = effects[y]
        /\ effects'[x].op = "remove" /\ effects'[x].pc = "ended"
        /\ effects'[x].outcome = "uncertain"
    BY <1>0, <2>1, <2>2 DEF EffectRecords
  <2>5. /\ epochs' \in Seq(ResourceRows)
        /\ Len(epochs') = Len(epochs) /\ DOMAIN epochs' = DOMAIN epochs
        /\ \A i \in DOMAIN epochs : epochs'[i].tunnel = epochs[i].tunnel
        /\ \A i \in DOMAIN epochs : epochs'[i].status =
                IF i = effects[x].row THEN "uncertain" ELSE epochs[i].status
    <3>1. "uncertain" \in ResourceStatuses
      BY DEF ResourceStatuses
    <3>2. SetRow(effects[x].row, "uncertain", x)
      BY <1>5 DEF MarkUncertain
    <3> QED
      BY <1>0, <3>1, <3>2, UpdatedRow
  <2>6. OneInForce'
    BY <1>0, <2>5 DEF OneInForce, InForce, RowsWith
  <2> QED
    BY <1>0, <2>1, <2>3, <2>4, <2>5, <2>6, OneEffectMoves DEF EffectFits
<1>6. CASE FindRemoved(x)
  <2>1. effects[x].pc = "torn" /\ UNCHANGED <<zone, custodian, epochs, tokens, cloud>>
    BY <1>6 DEF FindRemoved, At
  <2>2. /\ effects[x].op = "remove" /\ effects[x].outcome = "none"
        /\ effects[x].epoch \in DOMAIN epochs
        /\ Parts(epochs[effects[x].epoch].tunnel) \cap cloud = {}
    BY <1>0, <2>1 DEF EffectsInOrder, RemovedIsGone
  <2>3. PICK e : e = Latest({"active", "removing"})
    OBVIOUS
  <2>4. \/ effects' = [effects EXCEPT ![x].pc = "ended", ![x].outcome = "uncertain"]
        \/ e # 0 /\ effects' = [effects EXCEPT ![x].pc = "removing", ![x].row = e]
    BY <1>6, <2>3 DEF FindRemoved, End
  <2>5. e # 0 => e \in 0 .. MaxEpochs
    <3>1. e # 0 => e \in DOMAIN epochs
      BY <1>0, <2>3, LatestListed DEF Latest
    <3>2. Len(epochs) <= MaxEpochs /\ MaxEpochs \in Nat
      BY IngressAssumption DEF IngressInvariant, IngressTypeOK
    <3> QED
      BY <1>0, <3>1, <3>2
  <2>6. effects' \in [IngressEffects -> EffectRecords]
    <3>1. CASE effects' = [effects EXCEPT ![x].pc = "ended", ![x].outcome = "uncertain"]
      BY <1>0, <3>1 DEF EffectRecords, Outcomes
    <3>2. CASE e # 0 /\ effects' = [effects EXCEPT ![x].pc = "removing", ![x].row = e]
      BY <1>0, <2>5, <3>2 DEF EffectRecords
    <3> QED
      BY <2>4, <3>1, <3>2
  <2>7. /\ \A y \in IngressEffects : y # x => effects'[y] = effects[y]
        /\ effects'[x].op = "remove" /\ effects'[x].epoch = effects[x].epoch
        /\ \/ effects'[x].pc = "ended" /\ effects'[x].outcome = "uncertain"
           \/ effects'[x].pc = "removing" /\ effects'[x].outcome = "none"
    BY <1>0, <2>2, <2>4 DEF EffectRecords
  <2> QED
    BY <1>0, <1>1, <2>1, <2>2, <2>6, <2>7, OneEffectMoves DEF EffectFits
<1>7. CASE MarkRemoved(x)
  <2>1. effects[x].pc = "removing" /\ UNCHANGED <<zone, custodian, tokens, cloud>>
    BY <1>7 DEF MarkRemoved, At
  <2>2. /\ effects[x].op = "remove" /\ effects[x].epoch \in DOMAIN epochs
        /\ Parts(epochs[effects[x].epoch].tunnel) \cap cloud = {}
    BY <1>0, <2>1 DEF EffectsInOrder, RemovedIsGone
  <2>3. effects' = [effects EXCEPT ![x].pc = "ended", ![x].outcome = "succeeded"]
    BY <1>7 DEF MarkRemoved, End
  <2>4. effects' \in [IngressEffects -> EffectRecords]
    BY <1>0, <2>3 DEF EffectRecords, Outcomes
  <2>5. /\ \A y \in IngressEffects : y # x => effects'[y] = effects[y]
        /\ effects'[x].op = "remove" /\ effects'[x].pc = "ended"
        /\ effects'[x].outcome = "succeeded"
        /\ effects'[x].epoch = effects[x].epoch
    BY <1>0, <2>2, <2>3 DEF EffectRecords
  <2>6. /\ epochs' \in Seq(ResourceRows)
        /\ Len(epochs') = Len(epochs) /\ DOMAIN epochs' = DOMAIN epochs
        /\ \A i \in DOMAIN epochs : epochs'[i].tunnel = epochs[i].tunnel
        /\ \A i \in DOMAIN epochs : epochs'[i].status =
                IF i = effects[x].row THEN "removed" ELSE epochs[i].status
    <3>1. "removed" \in ResourceStatuses
      BY DEF ResourceStatuses
    <3>2. PICK e : e = effects[x].row
      OBVIOUS
    <3>3. epochs' = [epochs EXCEPT ![e].status = "removed"]
      BY <1>7, <3>2 DEF MarkRemoved
    <3>4. /\ epochs' \in Seq(ResourceRows)
          /\ Len(epochs') = Len(epochs) /\ DOMAIN epochs' = DOMAIN epochs
          /\ \A i \in DOMAIN epochs : epochs'[i].tunnel = epochs[i].tunnel
          /\ \A i \in DOMAIN epochs :
                epochs'[i].status = IF i = e THEN "removed" ELSE epochs[i].status
      BY <1>0, <3>1, <3>3, UpdatedRow
    <3> QED
      BY <3>2, <3>4
  <2>7. OneInForce'
    BY <1>0, <2>6 DEF OneInForce, InForce, RowsWith
  <2> QED
    BY <1>0, <2>1, <2>2, <2>4, <2>5, <2>6, <2>7, OneEffectMoves DEF EffectFits
<1> QED
  BY <1>2, <1>3, <1>4, <1>5, <1>6, <1>7

\* The two steps that add something: parts at the provider, or a row.
LEMMA CreateKeepsIngress ==
    ASSUME IngressInvariant, NEW x \in IngressEffects, Create(x)
    PROVE  IngressInvariant'
<1> USE DEF IngressInvariant
<1>1. /\ effects \in [IngressEffects -> EffectRecords] /\ effects[x] \in EffectRecords
      /\ effects[x].pc = "granted" /\ effects[x].op = "allocate" /\ effects[x].outcome = "none"
      /\ UNCHANGED <<zone, custodian, epochs, tokens>>
      /\ cloud' \subseteq cloud \cup Parts(x)
  BY DEF IngressTypeOK, EffectsInOrder, Create, At
<1>2. /\ effects' \in [IngressEffects -> EffectRecords]
      /\ \A y \in IngressEffects : y # x => effects'[y] = effects[y]
      /\ effects'[x].op = "allocate"
      /\ \/ effects'[x].pc = "created" /\ effects'[x].outcome = "none"
         \/ effects'[x].pc = "ended" /\ effects'[x].outcome = "uncertain"
  <2>1. CASE effects' = [effects EXCEPT ![x].pc = "created"]
    BY <1>1, <2>1 DEF EffectRecords
  <2>2. CASE effects' = [effects EXCEPT ![x].pc = "ended", ![x].outcome = "uncertain"]
    <3>1. [effects[x] EXCEPT !.pc = "ended", !.outcome = "uncertain"] \in EffectRecords
      BY <1>1 DEF EffectRecords, Outcomes
    <3>2. effects' \in [IngressEffects -> EffectRecords]
      BY <1>1, <2>2, <3>1
    <3> QED
      BY <1>1, <2>2, <3>2 DEF EffectRecords
  <2> QED
    BY <2>1, <2>2 DEF Create, Move, End
<1>3. \A y \in IngressEffects : y # x => (Parts(y) \cap cloud = {} => Parts(y) \cap cloud' = {})
  BY <1>1 DEF Parts
<1>4. IngressTypeOK'
  <2>1. cloud' \subseteq UNION {Parts(y) : y \in IngressEffects}
    BY <1>1 DEF IngressTypeOK
  <2> QED
    BY <1>1, <1>2, <2>1 DEF IngressTypeOK
<1>5. EffectsInOrder'
  BY <1>1, <1>2 DEF EffectsInOrder
<1>6. NothingLeft'
  BY <1>1, <1>2, <1>3 DEF NothingLeft
<1>7. RowsAreAllocations' /\ OneInForce'
  <2>1. OneInForce'
    BY <1>1 DEF OneInForce, InForce, RowsWith
  <2>2. \A e \in DOMAIN epochs : epochs[e] \in ResourceRows
    BY DEF IngressTypeOK
  <2>3. \A e \in DOMAIN epochs : epochs[e].tunnel \in IngressEffects \ {x}
    BY <1>1, <2>2 DEF RowsAreAllocations, ResourceRows
  <2>4. \A e \in DOMAIN epochs : effects'[epochs[e].tunnel] = effects[epochs[e].tunnel]
    BY <1>2, <2>3
  <2>5. \A y \in IngressEffects :
          effects'[y].op = "allocate" /\ effects'[y].outcome = "succeeded" => y # x
    BY <1>2
  <2>6. \A y \in IngressEffects :
          effects'[y].op = "allocate" /\ effects'[y].outcome = "succeeded" =>
              y \in tokens /\ \E e \in DOMAIN epochs : epochs[e].tunnel = y
    BY <1>2, <2>5 DEF RowsAreAllocations
  <2> QED
    BY <1>1, <2>1, <2>4, <2>6 DEF RowsAreAllocations
<1>8. RemovedIsGone'
  <2> SUFFICES ASSUME NEW y \in IngressEffects, effects'[y].op = "remove",
                      \/ effects'[y].pc \in {"torn", "removing"}
                      \/ effects'[y].outcome = "succeeded" /\ effects'[y].lifecycle = "ephemeral"
               PROVE  /\ effects'[y].epoch \in DOMAIN epochs
                      /\ Parts(epochs[effects'[y].epoch].tunnel) \cap cloud' = {}
    BY <1>1 DEF RemovedIsGone
  <2>1. effects'[y] = effects[y]
    BY <1>2
  <2>2. PICK t : t = epochs[effects[y].epoch].tunnel
    OBVIOUS
  <2>3. effects[y].epoch \in DOMAIN epochs /\ Parts(t) \cap cloud = {}
    BY <2>1, <2>2 DEF RemovedIsGone
  <2>4. epochs[effects[y].epoch] \in ResourceRows
    BY <2>3 DEF IngressTypeOK
  <2>5. t \in IngressEffects /\ effects[t].outcome = "succeeded"
    BY <2>2, <2>3, <2>4 DEF ResourceRows, RowsAreAllocations
  <2>6. t # x
    BY <1>1, <2>5
  <2> QED
    BY <1>3, <2>1, <2>2, <2>3, <2>5, <2>6
<1> QED
  BY <1>4, <1>5, <1>6, <1>7, <1>8

LEMMA FoldKeepsIngress ==
    ASSUME IngressInvariant, NEW x \in IngressEffects, Fold(x)
    PROVE  IngressInvariant'
<1>1. /\ effects \in [IngressEffects -> EffectRecords] /\ effects[x] \in EffectRecords
      /\ epochs \in Seq(ResourceRows) /\ EffectsInOrder
      /\ effects[x].pc = "created" /\ effects[x].op = "allocate" /\ effects[x].outcome = "none"
      /\ UNCHANGED <<zone, custodian, cloud>>
      /\ zone \in {"unregistered", "active", "revoked"} /\ custodian \in {"active", "revoked"}
  BY DEF IngressInvariant, IngressTypeOK, EffectsInOrder, Fold, At
<1>2. CASE Move(x, "undo") /\ UNCHANGED <<epochs, tokens>>
  <2>1. effects' = [effects EXCEPT ![x].pc = "undo"]
    BY <1>2 DEF Move
  <2>2. effects' \in [IngressEffects -> EffectRecords]
    BY <1>1, <2>1 DEF EffectRecords
  <2>3. /\ \A y \in IngressEffects : y # x => effects'[y] = effects[y]
        /\ effects'[x].op = "allocate" /\ effects'[x].pc = "undo" /\ effects'[x].outcome = "none"
    BY <1>1, <2>1 DEF EffectRecords
  <2>4. OneInForce'
    BY <1>2 DEF IngressInvariant, OneInForce, InForce, RowsWith
  <2> QED
    BY <1>1, <1>2, <2>2, <2>3, <2>4, OneEffectMoves DEF EffectFits
<1>3. ASSUME ~ Blocked, Len(epochs) < MaxEpochs, tokens' = tokens \cup {x},
             epochs' = Append(epochs, [tunnel |-> x, source |-> x, status |-> "active",
                                       lifecycle |-> effects[x].lifecycle]),
             effects' = [effects EXCEPT ![x].pc = "ended", ![x].outcome = "succeeded"]
      PROVE  IngressInvariant'
  <2> DEFINE row == [tunnel |-> x, source |-> x, status |-> "active",
                     lifecycle |-> effects[x].lifecycle]
             new == Len(epochs) + 1
  <2>1. row \in ResourceRows /\ row.tunnel = x
    BY <1>1 DEF ResourceRows, ResourceStatuses, EffectRecords
  <2>2. /\ epochs' \in Seq(ResourceRows) /\ Len(epochs') = new
        /\ DOMAIN epochs' = DOMAIN epochs \cup {new}
        /\ \A e \in DOMAIN epochs : epochs'[e] = epochs[e]
        /\ epochs'[new] = row
    BY <1>1, <1>3, <2>1, AppendedRow
  <2>3. Len(epochs) \in Nat /\ MaxEpochs \in Nat
    BY <1>1, IngressAssumption
  <2>4. effects' \in [IngressEffects -> EffectRecords]
    <3>1. [effects[x] EXCEPT !.pc = "ended", !.outcome = "succeeded"] \in EffectRecords
      BY <1>1 DEF EffectRecords, Outcomes
    <3> QED
      BY <1>1, <1>3, <3>1
  <2>5. /\ \A y \in IngressEffects : y # x => effects'[y] = effects[y]
        /\ effects'[x].op = "allocate" /\ effects'[x].pc = "ended"
        /\ effects'[x].outcome = "succeeded"
    BY <1>1, <1>3 DEF EffectRecords
  <2> HIDE DEF row, new
  <2>6. IngressTypeOK'
    <3>1. Len(epochs') <= MaxEpochs
      BY <1>3, <2>2, <2>3 DEF new
    <3> QED
      BY <1>1, <1>3, <2>2, <2>4, <3>1 DEF IngressInvariant, IngressTypeOK
  <2>7. EffectsInOrder'
    BY <1>1, <2>2, <2>5 DEF EffectsInOrder
  <2>8. NothingLeft'
    BY <1>1, <2>5 DEF IngressInvariant, NothingLeft
  <2>9. RowsAreAllocations'
    <3>1. ASSUME NEW e \in DOMAIN epochs'
          PROVE  /\ effects'[epochs'[e].tunnel].op = "allocate"
                 /\ effects'[epochs'[e].tunnel].outcome = "succeeded"
      <4>1. CASE e = new
        BY <2>1, <2>2, <2>5, <4>1
      <4>2. CASE e \in DOMAIN epochs
        <5>1. epochs[e] \in ResourceRows
          BY <1>1, <4>2
        <5>2. epochs[e].tunnel \in IngressEffects
          BY <5>1 DEF ResourceRows
        <5> QED
          BY <2>2, <2>5, <4>2, <5>2 DEF IngressInvariant, RowsAreAllocations
      <4> QED
        BY <2>2, <4>1, <4>2
    <3>2. ASSUME NEW y \in IngressEffects,
                 effects'[y].op = "allocate", effects'[y].outcome = "succeeded"
          PROVE  y \in tokens' /\ \E e \in DOMAIN epochs' : epochs'[e].tunnel = y
      <4>1. CASE y = x
        BY <1>3, <2>1, <2>2, <4>1
      <4>2. CASE y # x
        BY <1>3, <2>2, <2>5, <3>2, <4>2 DEF IngressInvariant, RowsAreAllocations
      <4> QED
        BY <4>1, <4>2
    <3> QED
      BY <3>1, <3>2 DEF RowsAreAllocations
  <2>10. RemovedIsGone'
    BY <1>1, <2>2, <2>5 DEF IngressInvariant, RemovedIsGone
  <2>11. OneInForce'
    <3>1. \A e \in InForce' : e = new
      BY <1>3, <2>2 DEF Blocked, Blocking, InForce, RowsWith
    <3> QED
      BY <3>1 DEF OneInForce, new
  <2> QED
    BY <2>6, <2>7, <2>8, <2>9, <2>10, <2>11 DEF IngressInvariant
<1> QED
  BY <1>2, <1>3 DEF Fold, End

LEMMA StepKeepsIngress == IngressInvariant /\ [IngressNext]_ivars => IngressInvariant'
<1> SUFFICES ASSUME IngressInvariant, [IngressNext]_ivars PROVE IngressInvariant'
  OBVIOUS
<1>1. CASE RegisterZone \/ RevokeZone \/ LoseCustodian \/ UNCHANGED ivars
  <2>1. /\ UNCHANGED <<epochs, tokens, cloud, effects>>
        /\ zone' \in {"unregistered", "active", "revoked"} /\ custodian' \in {"active", "revoked"}
    BY <1>1 DEF IngressInvariant, IngressTypeOK, RegisterZone, RevokeZone, LoseCustodian, ivars
  <2>2. IngressTypeOK' /\ EffectsInOrder' /\ NothingLeft'
    BY <2>1 DEF IngressInvariant, IngressTypeOK, EffectsInOrder, NothingLeft
  <2>3. RowsAreAllocations' /\ RemovedIsGone' /\ OneInForce'
    BY <2>1 DEF IngressInvariant, RowsAreAllocations, RemovedIsGone, OneInForce, InForce, RowsWith
  <2> QED
    BY <2>2, <2>3 DEF IngressInvariant
<1> QED
  BY <1>1, ChecksKeepIngress, CallsKeepIngress, CreateKeepsIngress, FoldKeepsIngress DEF IngressNext

\* For any calls of the adapter and any number of epochs: an outcome that claims
\* certainty is true of the provider, and one row at most is in force.
THEOREM OutcomesAreTrue == IngressSpec => []IngressOutcomesAreTrue
<1>1. ASSUME IngressInvariant
      PROVE  IngressOutcomesAreTrue
  BY <1>1 DEF IngressInvariant, NothingLeft, RowsAreAllocations, RemovedIsGone, OneInForce,
              IngressOutcomesAreTrue
<1> QED
  BY <1>1, FirstIngress, StepKeepsIngress, PTL DEF IngressSpec

-----------------------------------------------------------------------------
(* Pages.                                                                  *)

\* The collection shows row i before row j.
RowBefore(i, j) ==
    IF collection = "gateway-probes" THEN Less(Position(j), Position(i))
                                     ELSE Less(Position(i), Position(j))

\* The rows of a set after the cursor of a request, and the place of each of them.
AfterCursor(q, rows) ==
    {i \in rows : q.cursor = NoCursor \/ Precedes(q, q.cursor.position, Position(i))}
RankIn(S, i) == 1 + Cardinality({j \in S : RowBefore(j, i)})
FirstRows(S, n) == {i \in S : RankIn(S, i) <= n}
InOrder(S, n) == [k \in 1..Cardinality(FirstRows(S, n)) |->
                     CHOOSE i \in FirstRows(S, n) : RankIn(S, i) = k]

\* Positions are comparable.
PositionsComparable == \A i \in RowIds : table[i].at \in Nat

\* The row shown last.
LastSeen == reader.seen[Len(reader.seen)]

\* Finitely many commands have begun a row.
FinitelyBegun == IsFiniteSet({i \in RowIds : table[i].state # "absent"})

\* The ordinals of a parent's rows are the numbers up to how many there are.
OrdinalsDense ==
    Cursor = "ordinal" =>
        \A s \in PageScopes \cup {NoScope} :
           /\ \A i \in Rows(s) : table[i].at \in 1..Cardinality(Rows(s))
           /\ \A i, j \in Rows(s) : table[i].at = table[j].at => i = j

\* A traversal goes on after the row it has shown last.
CursorHeld ==
    /\ reader.phase = "begin" =>
          Len(reader.seen) = 0 /\ reader.cursor = NoCursor /\ reader.throughout = {}
    /\ reader.phase = "reading" =>
          /\ Len(reader.seen) # 0
          /\ reader.cursor = [collection |-> collection, scope |-> reader.scope,
                              position |-> Position(LastSeen)]
    /\ reader.phase # "begin" => reader.scope \in PageScopes

\* The rows shown are in order and, where a row never goes, rows of the parent.
SeenInOrder ==
    /\ \A k, m \in 1..Len(reader.seen) :
          k < m => RowBefore(reader.seen[k], reader.seen[m])
    /\ \A k \in 1..Len(reader.seen) :
          /\ collection \notin Reused => reader.seen[k] \in Rows(reader.scope)
          /\ Cursor = "ordinal" => table[reader.seen[k]].at = k

\* A row that matched since the first page was shown or comes after the cursor.
MatchedShown ==
    \A i \in reader.throughout :
       /\ i \in Rows(reader.scope) /\ table[i].on
       /\ \/ \E k \in 1..Len(reader.seen) : reader.seen[k] = i
          \/ reader.phase = "reading" /\ RowBefore(LastSeen, i)

\* The inductive invariant.
PageInvariant ==
    /\ PageTypeOK
    /\ FinitelyBegun /\ OrdinalsDense
    /\ CursorHeld /\ SeenInOrder /\ MatchedShown

-----------------------------------------------------------------------------
(* The order of the rows.                                                  *)

\* Rows of one collection are strictly and totally ordered.
LEMMA RowsOrdered ==
  ASSUME PositionsComparable, NEW i \in RowIds, NEW j \in RowIds, NEW k \in RowIds
  PROVE  /\ ~RowBefore(i, i)
         /\ i # j => RowBefore(i, j) \/ RowBefore(j, i)
         /\ RowBefore(i, j) /\ RowBefore(j, k) => RowBefore(i, k)
<1> DEFINE at(x) == IF Cursor \in {"identity", "delegation-key"} THEN 0 ELSE table[x].at
<1>1. \A x \in RowIds : at(x) \in Nat /\ x \in Nat
  BY PageAssumption DEF PositionsComparable
<1>2. \A x \in RowIds : Position(x)[1] = at(x) /\ Position(x)[2] = x
  BY DEF Position
<1> HIDE DEF at
<1>3. \A x, y \in RowIds : Less(Position(x), Position(y)) <=>
                              at(x) < at(y) \/ (at(x) = at(y) /\ x < y)
  BY <1>2 DEF Less
<1> QED
  BY <1>1, <1>3 DEF RowBefore

-----------------------------------------------------------------------------
(* Ranks.                                                                  *)

\* In a finite set of rows every rank up to its size is taken, by one row.
LEMMA RanksCount ==
  ASSUME PositionsComparable, NEW S \in SUBSET RowIds, IsFiniteSet(S)
  PROVE  /\ Cardinality(S) \in Nat
         /\ \A i \in S : RankIn(S, i) \in 1..Cardinality(S)
         /\ \A i, j \in S : RowBefore(i, j) => RankIn(S, i) < RankIn(S, j)
         /\ \A i, j \in S : RankIn(S, i) = RankIn(S, j) => i = j
         /\ \A n \in 1..Cardinality(S) : \E i \in S : RankIn(S, i) = n
<1> DEFINE below(i) == {j \in S : RowBefore(j, i)}
<1>1. Cardinality(S) \in Nat
  BY FS_CardinalityType
<1>2. ASSUME NEW i \in S
      PROVE  /\ IsFiniteSet(below(i)) /\ Cardinality(below(i)) \in Nat
             /\ Cardinality(below(i)) <= Cardinality(S) - 1
  <2>1. IsFiniteSet(S \ {i}) /\ Cardinality(S \ {i}) = Cardinality(S) - 1
    BY FS_RemoveElement
  <2>2. below(i) \in SUBSET (S \ {i})
    BY RowsOrdered
  <2>3. IsFiniteSet(below(i)) /\ Cardinality(below(i)) <= Cardinality(S \ {i})
    BY <2>1, <2>2, FS_Subset
  <2> QED
    BY <2>1, <2>3, FS_CardinalityType
<1>3. \A i \in S : RankIn(S, i) = 1 + Cardinality(below(i))
  BY DEF RankIn
<1> HIDE DEF below
<1>4. \A i \in S : RankIn(S, i) \in 1..Cardinality(S)
  BY <1>1, <1>2, <1>3
<1>5. ASSUME NEW i \in S, NEW j \in S, RowBefore(i, j)
      PROVE  RankIn(S, i) < RankIn(S, j)
  <2>1. i \in below(j)
    BY <1>5 DEF below
  <2>2. IsFiniteSet(below(j) \ {i}) /\ Cardinality(below(j) \ {i}) = Cardinality(below(j)) - 1
    BY <1>2, <2>1, FS_RemoveElement
  <2>3. below(i) \in SUBSET (below(j) \ {i})
    BY <1>5, RowsOrdered DEF below
  <2>4. Cardinality(below(i)) <= Cardinality(below(j) \ {i})
    BY <2>2, <2>3, FS_Subset
  <2> QED
    BY <1>2, <1>3, <2>2, <2>4
<1>6. \A i, j \in S : RankIn(S, i) = RankIn(S, j) => i = j
  <2> SUFFICES ASSUME NEW i \in S, NEW j \in S, RankIn(S, i) = RankIn(S, j), i # j
               PROVE  FALSE
    OBVIOUS
  <2>1. RowBefore(i, j) \/ RowBefore(j, i)
    BY RowsOrdered
  <2> QED
    BY <1>4, <1>5, <2>1
<1>7. \A n \in 1..Cardinality(S) : \E i \in S : RankIn(S, i) = n
  <2> DEFINE f == [i \in S |-> RankIn(S, i)]
             T == 1..Cardinality(S)
  <2>1. IsFiniteSet(T) /\ Cardinality(T) = Cardinality(S)
    BY <1>1, FS_Interval
  <2>2. f \in Injection(S, T)
    BY <1>4, <1>6 DEF Injection, IsInjective
  <2> HIDE DEF T
  <2>3. f \in Surjection(S, T)
    BY <2>1, <2>2, FS_Injection
  <2> QED
    BY <2>3 DEF Surjection, T
<1> QED
  BY <1>1, <1>4, <1>5, <1>6, <1>7

\* The first n rows of a finite set, in order: no row is left out before the last of
\* them, and none at all where they are fewer than n.
LEMMA FirstRowsInOrder ==
  ASSUME PositionsComparable, NEW S \in SUBSET RowIds, IsFiniteSet(S), NEW n \in Nat
  PROVE  LET L == InOrder(S, n)
         IN  /\ L \in Seq(S) /\ Len(L) <= n /\ Len(L) <= Cardinality(S)
             /\ \A k \in 1..Len(L) : RankIn(S, L[k]) = k
             /\ \A k, m \in 1..Len(L) : k < m => RowBefore(L[k], L[m])
             /\ \A k \in 1..Len(L) : \A j \in S :
                   (\E m \in 1..k : L[m] = j) \/ RowBefore(L[k], j)
             /\ Len(L) # n => \A j \in S : \E m \in 1..Len(L) : L[m] = j
<1> DEFINE F == FirstRows(S, n)
           L == InOrder(S, n)
           size == IF Cardinality(S) <= n THEN Cardinality(S) ELSE n
<1>1. /\ Cardinality(S) \in Nat
      /\ \A i \in S : RankIn(S, i) \in 1..Cardinality(S)
      /\ \A i, j \in S : RowBefore(i, j) => RankIn(S, i) < RankIn(S, j)
      /\ \A i, j \in S : RankIn(S, i) = RankIn(S, j) => i = j
      /\ \A k \in 1..Cardinality(S) : \E i \in S : RankIn(S, i) = k
  BY RanksCount
<1>2. size \in Nat /\ size <= n /\ size <= Cardinality(S)
  BY <1>1
<1>3. F \subseteq S /\ \A i \in S : i \in F <=> RankIn(S, i) \in 1..size
  BY <1>1 DEF FirstRows
<1>4. IsFiniteSet(F) /\ Cardinality(F) = size
  <2> DEFINE f == [i \in F |-> RankIn(S, i)]
             T == 1..size
  <2>1. IsFiniteSet(F)
    BY <1>3, FS_Subset
  <2>2. Cardinality(T) = size
    BY <1>2, FS_Interval
  <2>3. f \in Injection(F, T)
    BY <1>1, <1>3 DEF Injection, IsInjective
  <2>4. f \in Surjection(F, T)
    <3>1. \A k \in T : \E i \in F : f[i] = k
      BY <1>1, <1>2, <1>3
    <3> QED
      BY <1>3, <3>1 DEF Surjection
  <2> HIDE DEF T, f
  <2> QED
    BY <2>1, <2>2, <2>3, <2>4, FS_Surjection
<1>5. Len(L) = size /\ DOMAIN L = 1..size
      /\ \A k \in 1..size : L[k] = CHOOSE i \in F : RankIn(S, i) = k
  BY <1>2, <1>4 DEF InOrder
<1>6. \A k \in 1..size : L[k] \in F /\ RankIn(S, L[k]) = k
  <2> SUFFICES ASSUME NEW k \in 1..size PROVE L[k] \in F /\ RankIn(S, L[k]) = k
    OBVIOUS
  <2>1. \E i \in F : RankIn(S, i) = k
    BY <1>1, <1>2, <1>3
  <2>2. L[k] = CHOOSE i \in F : RankIn(S, i) = k
    BY <1>5
  <2> HIDE DEF L, F
  <2> QED
    BY <2>1, <2>2
<1>7. L \in Seq(S)
  <2>1. L = [k \in 1..size |-> L[k]]
    BY <1>4 DEF InOrder
  <2>2. \A k \in 1..size : L[k] \in S
    BY <1>3, <1>6
  <2> HIDE DEF L, size
  <2> QED
    BY <1>2, <2>1, <2>2, SeqDef
<1> HIDE DEF L, F, size
<1>8. \A k, m \in 1..size : k < m => RowBefore(L[k], L[m])
  <2> SUFFICES ASSUME NEW k \in 1..size, NEW m \in 1..size, k < m
               PROVE  RowBefore(L[k], L[m])
    OBVIOUS
  <2>1. L[k] \in S /\ L[m] \in S /\ RankIn(S, L[k]) = k /\ RankIn(S, L[m]) = m
    BY <1>3, <1>6
  <2>2. L[k] # L[m]
    BY <1>2, <2>1
  <2>3. RowBefore(L[k], L[m]) \/ RowBefore(L[m], L[k])
    BY <2>1, <2>2, RowsOrdered
  <2>4. ~RowBefore(L[m], L[k])
    BY <1>1, <1>2, <2>1
  <2> QED
    BY <2>3, <2>4
<1>9. ASSUME NEW k \in 1..size, NEW j \in S
      PROVE  (\E m \in 1..k : L[m] = j) \/ RowBefore(L[k], j)
  <2>1. L[k] \in S /\ RankIn(S, L[k]) = k
    BY <1>3, <1>6
  <2>2. CASE RankIn(S, j) <= k
    <3>1. RankIn(S, j) \in 1..k /\ RankIn(S, j) \in 1..size
      BY <1>1, <1>2, <2>2
    <3>2. L[RankIn(S, j)] = j
      BY <1>1, <1>3, <1>6, <3>1
    <3> QED
      BY <3>1, <3>2
  <2>3. CASE ~(RankIn(S, j) <= k)
    <3>1. j # L[k] /\ ~RowBefore(j, L[k])
      BY <1>1, <1>2, <2>1, <2>3
    <3> QED
      BY <2>1, <3>1, RowsOrdered
  <2> QED
    BY <2>2, <2>3
<1>10. ASSUME size # n, NEW j \in S
       PROVE  \E m \in 1..size : L[m] = j
  <2>1. RankIn(S, j) \in 1..size
    BY <1>1, <1>10 DEF size
  <2> QED
    BY <1>1, <1>3, <1>6, <2>1
<1> QED
  BY <1>2, <1>5, <1>6, <1>7, <1>8, <1>9, <1>10 DEF L

-----------------------------------------------------------------------------
(* What a page holds.                                                      *)

\* Seek answers with the first rows after the cursor, one more than the limit.
LEMMA SeekInOrder ==
  ASSUME NEW q, q.collection = collection, NEW rows
  PROVE  Seek(q, rows) = InOrder(AfterCursor(q, rows), q.limit + 1)
<1> DEFINE S == AfterCursor(q, rows)
           rank(i) == 1 + Cardinality({j \in S : Precedes(q, Position(j), Position(i))})
           first == {i \in S : rank(i) <= q.limit + 1}
<1>1. Seek(q, rows) = [n \in 1..Cardinality(first) |-> CHOOSE i \in first : rank(i) = n]
  BY DEF Seek, AfterCursor
<1>2. \A i, j : Precedes(q, Position(j), Position(i)) <=> RowBefore(j, i)
  BY DEF Precedes, RowBefore
<1>3. \A i : rank(i) = RankIn(S, i)
  <2> SUFFICES ASSUME NEW i PROVE rank(i) = RankIn(S, i)
    OBVIOUS
  <2>1. {j \in S : Precedes(q, Position(j), Position(i))} = {j \in S : RowBefore(j, i)}
    BY <1>2
  <2> QED
    BY <2>1 DEF RankIn
<1> HIDE DEF S, rank
<1>4. first = FirstRows(S, q.limit + 1)
  BY <1>3 DEF FirstRows
<1>5. \A n : (CHOOSE i \in first : rank(i) = n) = (CHOOSE i \in first : RankIn(S, i) = n)
  BY <1>3
<1>6. InOrder(S, q.limit + 1)
        = [n \in 1..Cardinality(first) |-> CHOOSE i \in first : RankIn(S, i) = n]
  <2> DEFINE F == FirstRows(S, q.limit + 1)
  <2>1. InOrder(S, q.limit + 1)
          = [n \in 1..Cardinality(F) |-> CHOOSE i \in F : RankIn(S, i) = n]
    BY DEF InOrder
  <2>2. first = F
    BY <1>4
  <2> HIDE DEF F, first
  <2> QED
    BY <2>1, <2>2
<1> HIDE DEF first
<1>7. [n \in 1..Cardinality(first) |-> CHOOSE i \in first : rank(i) = n]
        = [n \in 1..Cardinality(first) |-> CHOOSE i \in first : RankIn(S, i) = n]
  BY <1>5
<1> QED
  BY <1>1, <1>6, <1>7 DEF S

\* Every collection's candidates are rows of the parent, all of them that match, in
\* order after the cursor.
LEMMA CandidatesInOrder ==
  ASSUME collection \in DOMAIN CollectionSpec,
         NEW s, NEW n \in Nat, NEW cursor,
         NEW q, q = [collection |-> collection, scope |-> s, limit |-> n, cursor |-> cursor]
  PROVE  \E rows \in SUBSET Rows(s) :
            /\ {i \in Rows(s) : table[i].on} \subseteq rows
            /\ collection \notin Filtered => rows = Rows(s)
            /\ PageCandidates(q) = InOrder(AfterCursor(q, rows), n + 1)
<1> DEFINE on == {i \in Rows(s) : table[i].on}
           fits(rows) == /\ rows \in SUBSET Rows(s)
                         /\ on \subseteq rows
                         /\ collection \notin Filtered => rows = Rows(s)
<1>1. q.collection = collection /\ q.scope = s /\ q.limit = n
  OBVIOUS
<1>2. \A rows : Seek(q, rows) = InOrder(AfterCursor(q, rows), n + 1)
  BY <1>1, SeekInOrder
<1>3. \E rows : fits(rows) /\ PageCandidates(q) = Seek(q, rows)
  <2>1. fits(Rows(s))
    OBVIOUS
  <2>2. collection \in Filtered => fits(on)
    OBVIOUS
  <2> HIDE DEF fits, on
  <2>3. CASE collection \in {"activity-sessions", "session-actions", "session-plans",
                             "session-approvals", "plan-runs", "run-events",
                             "latest-observations", "delegation-signing-keys",
                             "gateway-probes"}
    <3>1. PageCandidates(q) = Seek(q, Rows(s))
      BY <1>1, <2>3 DEF PageCandidates, HistoryCandidates, SessionPage, ActionPage,
         PlanPage, ApprovalPage, RunPage, EventPage, LatestPage, DelegationKeyPage,
         GatewayProbePage
    <3> QED
      BY <2>1, <3>1
  <2>4. CASE collection \in Filtered
    <3>1. PageCandidates(q) = Seek(q, on)
      BY <1>1, <2>4 DEF Filtered, PageCandidates, HistoryCandidates, SessionPage,
         ApprovalPage, RuntimeAuthorityPage, DeliveryPage, IngressAuthorityPage,
         SecretProviderPage, SecretReferencePage, on
    <3> QED
      BY <2>2, <2>4, <3>1
  <2> QED
    BY <2>3, <2>4 DEF CollectionSpec, Filtered
<1> QED
  BY <1>2, <1>3

-----------------------------------------------------------------------------
(* The invariant holds at first and gives the property.                    *)

\* What the collections' cursors and filters have to do with each other.
LEMMA CollectionFacts ==
  ASSUME collection \in DOMAIN CollectionSpec
  PROVE  /\ collection \in Reused => Cursor = "identity" /\ collection \in Filtered
         /\ Cursor = "ordinal" => collection \notin Filtered
         /\ Cursor = "epoch" <=> collection = "gateway-probes"
         /\ Cursor \in {"temporal", "ordinal", "identity", "delegation-key", "epoch"}
BY DEF CollectionSpec, Cursor, Reused, Filtered

\* A first state of any collection satisfies the invariant.
LEMMA FirstPages ==
  ASSUME NEW c \in PagedCollections, PageInitOf(c)
  PROVE  PageInvariant
<1> DEFINE none == <<>>
<1>1. /\ collection = c /\ table = [i \in RowIds |-> Blank] /\ instant = 1
      /\ reader = [phase |-> "begin", scope |-> NoScope, cursor |-> NoCursor, seen |-> none,
                   throughout |-> {}]
  BY DEF PageInitOf
<1>2. none \in Seq(RowIds) /\ Len(none) = 0
  BY EmptySeq
<1> HIDE DEF none
<1>3. /\ reader.phase = "begin" /\ reader.cursor = NoCursor /\ reader.throughout = {}
      /\ reader.seen \in Seq(RowIds) /\ Len(reader.seen) = 0
  BY <1>1, <1>2
<1>4. PageTypeOK
  BY <1>1, <1>3, PageAssumption, CollectionsAssumption DEF PageTypeOK, Blank
<1>5. FinitelyBegun
  <2>1. {i \in RowIds : table[i].state # "absent"} = {}
    BY <1>1 DEF Blank
  <2> QED
    BY <2>1, FS_EmptySet DEF FinitelyBegun
<1>6. OrdinalsDense
  <2>1. \A s : Rows(s) = {}
    BY <1>1 DEF Rows, Blank
  <2> QED
    BY <2>1 DEF OrdinalsDense
<1>7. CursorHeld /\ SeenInOrder /\ MatchedShown
  BY <1>3 DEF CursorHeld, SeenInOrder, MatchedShown
<1> QED
  BY <1>4, <1>5, <1>6, <1>7 DEF PageInvariant

\* The invariant gives the property.
LEMMA InvariantCoversOnce ==
  ASSUME PageInvariant
  PROVE  PagesCoverOnce
<1> USE DEF PageInvariant
<1> DEFINE seen == reader.seen
           n == Len(reader.seen)
<1>1. seen \in Seq(RowIds) /\ n \in Nat /\ DOMAIN seen = 1..n
  BY DEF PageTypeOK
<1>2. PositionsComparable /\ collection \in DOMAIN CollectionSpec
  BY DEF PageTypeOK, PositionsComparable
<1>3. \A k, m \in 1..n : k < m => RowBefore(seen[k], seen[m])
  BY DEF SeenInOrder
<1>4. IsInjective(seen)
  <2> SUFFICES ASSUME NEW k \in 1..n, NEW m \in 1..n, seen[k] = seen[m], k # m
               PROVE  FALSE
    BY <1>1 DEF IsInjective
  <2>1. RowBefore(seen[k], seen[k])
    BY <1>1, <1>3
  <2> QED
    BY <1>1, <1>2, <2>1, RowsOrdered
<1>5. reader.phase = "ended" => reader.throughout \subseteq Range(seen)
  BY <1>1 DEF MatchedShown, Range
<1>6. ASSUME collection \notin Reused, NEW k \in 1..n
      PROVE  /\ table[seen[k]].scope = reader.scope
             /\ k < n => IF Cursor = "epoch"
                         THEN Less(Position(seen[k + 1]), Position(seen[k]))
                         ELSE Less(Position(seen[k]), Position(seen[k + 1]))
  <2>1. table[seen[k]].scope = reader.scope
    BY <1>6 DEF SeenInOrder, Rows
  <2>2. k < n => RowBefore(seen[k], seen[k + 1])
    BY <1>1, <1>3
  <2> QED
    BY <1>2, <2>1, <2>2, CollectionFacts DEF RowBefore
<1>7. Cursor = "ordinal" => \A k \in 1..n : table[seen[k]].at = k
  BY DEF SeenInOrder
<1> QED
  BY <1>4, <1>5, <1>6, <1>7 DEF PagesCoverOnce

-----------------------------------------------------------------------------
(* Commands move rows while a traversal is under way.                      *)

\* Rows of a parent stay where they are, but for those that may be used again and did
\* not match throughout.
Stays(i) == table'[i].state = table[i].state /\ table'[i].scope = table[i].scope
            /\ table'[i].at = table[i].at

\* A traversal between two pages is left as it is by steps that move other rows.
LEMMA TraversalHolds ==
  ASSUME PageInvariant, UNCHANGED collection,
         reader'.phase = reader.phase, reader'.scope = reader.scope,
         reader'.cursor = reader.cursor, reader'.seen = reader.seen,
         reader'.throughout \subseteq reader.throughout,
         \A s : \A i \in Rows(s) :
            collection \notin Reused \/ i \in reader'.throughout => Stays(i),
         \A i \in reader'.throughout : table'[i].on
  PROVE  CursorHeld' /\ SeenInOrder' /\ MatchedShown'
<1> USE DEF PageInvariant
<1> DEFINE seen == reader.seen
           n == Len(reader.seen)
<1>1. seen \in Seq(RowIds) /\ n \in Nat /\ \A k \in 1..n : seen[k] \in RowIds
  BY DEF PageTypeOK
<1>2. Cursor' = Cursor /\ collection \in DOMAIN CollectionSpec
  BY DEF Cursor, PageTypeOK
<1>3. \A k \in 1..n : collection \notin Reused =>
         seen[k] \in Rows(reader.scope) /\ Stays(seen[k])
  BY DEF SeenInOrder
<1>4. \A i \in reader'.throughout : i \in Rows(reader.scope) /\ Stays(i)
  BY DEF MatchedShown
<1>5. \A i : Stays(i) => Position(i)' = Position(i)
  BY <1>2 DEF Stays, Position
<1>6. collection \in Reused => \A i : Position(i)' = Position(i)
  BY <1>2, CollectionFacts DEF Position
<1>7. \A k \in 1..n : Position(seen[k])' = Position(seen[k])
  BY <1>3, <1>5, <1>6
<1>8. \A i \in reader'.throughout : Position(i)' = Position(i)
  BY <1>4, <1>5
<1>9. CursorHeld'
  <2>1. reader.phase = "reading" => n \in 1..n
    BY <1>1 DEF CursorHeld
  <2>2. reader.phase = "reading" => Position(LastSeen)' = Position(LastSeen)
    BY <1>7, <2>1 DEF LastSeen
  <2>3. reader.phase = "begin" => reader'.throughout = {}
    BY DEF CursorHeld
  <2> QED
    BY <2>2, <2>3 DEF CursorHeld
<1>10. SeenInOrder'
  <2>1. \A k, m \in 1..n : k < m => RowBefore(seen[k], seen[m])'
    BY <1>7 DEF SeenInOrder, RowBefore
  <2>2. \A k \in 1..n : collection \notin Reused => (seen[k] \in Rows(reader.scope))'
    BY <1>1, <1>3 DEF Stays, Rows
  <2>3. \A k \in 1..n : Cursor = "ordinal" => table'[seen[k]].at = k
    BY <1>2, <1>3, CollectionFacts DEF SeenInOrder, Stays
  <2> QED
    BY <1>2, <2>1, <2>2, <2>3 DEF SeenInOrder
<1>11. MatchedShown'
  <2>1. \A i \in reader'.throughout : (i \in Rows(reader.scope))' /\ table'[i].on
    BY <1>4 DEF Stays, Rows
  <2>2. ASSUME NEW i \in reader'.throughout, reader.phase = "reading", RowBefore(LastSeen, i)
        PROVE  RowBefore(LastSeen, i)'
    <3>1. n \in 1..n
      BY <1>1, <2>2 DEF CursorHeld
    <3>2. Position(LastSeen)' = Position(LastSeen)
      BY <1>7, <3>1 DEF LastSeen
    <3> QED
      BY <1>8, <2>2, <3>2 DEF RowBefore
  <2> QED
    BY <2>1, <2>2 DEF MatchedShown
<1> QED
  BY <1>9, <1>10, <1>11

\* Where one row moves the rows begun stay finitely many.
LEMMA OneRowMoves ==
  ASSUME FinitelyBegun, NEW i \in RowIds, \A j \in RowIds \ {i} : table'[j] = table[j]
  PROVE  FinitelyBegun'
<1> DEFINE begun == {j \in RowIds : table[j].state # "absent"}
<1>1. IsFiniteSet(begun \cup {i})
  BY FS_AddElement DEF FinitelyBegun
<1>2. begun' \in SUBSET (begun \cup {i})
  OBVIOUS
<1>3. IsFiniteSet(begun')
  BY <1>1, <1>2, FS_Subset
<1> QED
  BY <1>3 DEF FinitelyBegun

\* The fields a row has.
LEMMA RowTypes ==
  ASSUME PageInvariant, NEW i \in RowIds
  PROVE  /\ table[i].state \in {"absent", "begun", "committed"}
         /\ table[i].scope \in PageScopes \cup {NoScope}
         /\ table[i].at \in Nat
         /\ table[i] = [state |-> table[i].state, scope |-> table[i].scope,
                        at |-> table[i].at, on |-> table[i].on]
         /\ table[i].on \in BOOLEAN
         /\ DOMAIN table = RowIds
BY DEF PageInvariant, PageTypeOK

\* A step that moves one row which is in no page: before it is committed.
LEMMA UncommittedMoves ==
  ASSUME PageInvariant, UNCHANGED <<collection, reader>>, NEW i \in RowIds,
         table[i].state # "committed", table'[i].state # "committed",
         \A j \in RowIds \ {i} : table'[j] = table[j]
  PROVE  FinitelyBegun' /\ OrdinalsDense' /\ CursorHeld' /\ SeenInOrder' /\ MatchedShown'
<1>1. FinitelyBegun'
  BY OneRowMoves DEF PageInvariant
<1>2. \A s : Rows(s)' = Rows(s) /\ \A j \in Rows(s) : Stays(j) /\ table'[j] = table[j]
  BY DEF Rows, Stays
<1>3. OrdinalsDense'
  <2>1. Cursor' = Cursor
    BY DEF Cursor
  <2> QED
    BY <1>2, <2>1 DEF PageInvariant, OrdinalsDense, Stays
<1>4. \A j \in reader.throughout : table'[j].on
  BY <1>2 DEF PageInvariant, MatchedShown
<1> QED
  BY <1>1, <1>2, <1>3, <1>4, TraversalHolds

\* A command begins a row.
LEMMA BeginningKeeps ==
  ASSUME PageInvariant, NEW i \in RowIds, NEW s \in PageScopes, BeginRow(i, s)
  PROVE  PageInvariant'
<1>1. table[i].state = "absent" /\ UNCHANGED <<collection, instant, reader>>
      /\ table' = [table EXCEPT ![i] = [state |-> "begun", scope |-> s, at |-> instant,
                                        on |-> TRUE]]
  BY DEF BeginRow
<1>2. PageTypeOK'
  BY <1>1 DEF PageInvariant, PageTypeOK
<1>3. table'[i].state # "committed" /\ \A j \in RowIds \ {i} : table'[j] = table[j]
  BY <1>1, RowTypes
<1> QED
  BY <1>1, <1>2, <1>3, UncommittedMoves DEF PageInvariant

\* A command rolls its row back.
LEMMA AbandoningKeeps ==
  ASSUME PageInvariant, NEW i \in RowIds, AbandonRow(i)
  PROVE  PageInvariant'
<1>1. table[i].state = "begun" /\ UNCHANGED <<collection, instant, reader>>
      /\ table' = [table EXCEPT ![i] = Blank]
  BY DEF AbandonRow
<1>2. PageTypeOK'
  BY <1>1 DEF PageInvariant, PageTypeOK, Blank
<1>3. table'[i].state # "committed" /\ \A j \in RowIds \ {i} : table'[j] = table[j]
  BY <1>1, RowTypes DEF Blank
<1> QED
  BY <1>1, <1>2, <1>3, UncommittedMoves DEF PageInvariant

\* A row commits: an ordinal is one past the last of its parent.
LEMMA CommittingKeeps ==
  ASSUME PageInvariant, NEW i \in RowIds, CommitRow(i)
  PROVE  PageInvariant'
<1> DEFINE s == table[i].scope
           at == IF Cursor = "ordinal" THEN NextOrdinal(s) ELSE table[i].at
<1>1. table[i].state = "begun" /\ UNCHANGED <<collection, instant, reader>>
      /\ table' = [table EXCEPT ![i] = [state |-> "committed", scope |-> s, at |-> at,
                                        on |-> table[i].on]]
  BY DEF CommitRow
<1>2. IsFiniteSet(Rows(s)) /\ Cardinality(Rows(s)) \in Nat
  <2>1. Rows(s) \in SUBSET {j \in RowIds : table[j].state # "absent"}
    BY DEF Rows
  <2>2. IsFiniteSet(Rows(s))
    BY <2>1, FS_Subset DEF PageInvariant, FinitelyBegun
  <2> QED
    BY <2>2, FS_CardinalityType
<1>3. at \in Nat
  <2>1. table[i].at \in Nat
    BY RowTypes
  <2>2. NextOrdinal(s) \in Nat
    BY <1>2 DEF NextOrdinal
  <2> QED
    BY <2>1, <2>2
<1>4. PageTypeOK'
  <2> HIDE DEF at
  <2>1. [state |-> "committed", scope |-> s, at |-> at, on |-> table[i].on]
           \in [state : {"absent", "begun", "committed"}, scope : PageScopes \cup {NoScope},
                at : Nat, on : BOOLEAN]
    BY <1>3, RowTypes
  <2> QED
    BY <1>1, <2>1 DEF PageInvariant, PageTypeOK
<1>5. FinitelyBegun'
  BY <1>1, OneRowMoves DEF PageInvariant, PageTypeOK
<1>6. \A t : \A j \in Rows(t) : j \in RowIds /\ j # i /\ table'[j] = table[j]
  BY <1>1, RowTypes DEF Rows
<1>7. CursorHeld' /\ SeenInOrder' /\ MatchedShown'
  <2>1. \A t : \A j \in Rows(t) : Stays(j)
    BY <1>6 DEF Stays
  <2>2. \A j \in reader.throughout : table'[j].on
    BY <1>6 DEF PageInvariant, MatchedShown
  <2> QED
    BY <1>1, <2>1, <2>2, TraversalHolds
<1>8. OrdinalsDense'
  <2> SUFFICES ASSUME Cursor = "ordinal", NEW t \in PageScopes \cup {NoScope}
               PROVE  /\ \A j \in Rows(t)' : table'[j].at \in 1..Cardinality(Rows(t)')
                      /\ \A j, k \in Rows(t)' : table'[j].at = table'[k].at => j = k
    BY <1>1 DEF OrdinalsDense, Cursor
  <2>1. /\ \A j \in Rows(t) : table[j].at \in 1..Cardinality(Rows(t))
        /\ \A j, k \in Rows(t) : table[j].at = table[k].at => j = k
    BY DEF PageInvariant, OrdinalsDense
  <2>2. CASE t = s
    <3>1. Rows(t)' = Rows(s) \cup {i}
      BY <1>1, <1>6, <2>2, RowTypes DEF Rows
    <3>2. i \notin Rows(s)
      BY <1>6
    <3>3. Cardinality(Rows(t)') = Cardinality(Rows(s)) + 1
      BY <1>2, <3>1, <3>2, FS_AddElement
    <3>4. table'[i].at = 1 + Cardinality(Rows(s))
      BY <1>1, RowTypes DEF NextOrdinal
    <3> QED
      BY <1>2, <1>6, <2>1, <2>2, <3>1, <3>3, <3>4
  <2>3. CASE t # s
    <3>1. Rows(t)' = Rows(t)
      BY <1>1, <1>6, <2>3, RowTypes DEF Rows
    <3> QED
      BY <1>6, <2>1, <3>1
  <2> QED
    BY <2>2, <2>3
<1> QED
  BY <1>4, <1>5, <1>7, <1>8 DEF PageInvariant

\* A row stops matching, and where its reference may be used again it goes.
LEMMA WithdrawingKeeps ==
  ASSUME PageInvariant, NEW i \in RowIds, WithdrawRow(i)
  PROVE  PageInvariant'
<1> DEFINE row == IF collection \in Reused THEN Blank ELSE [table[i] EXCEPT !.on = FALSE]
<1>1. /\ collection \in Filtered /\ table[i].state = "committed"
      /\ table' = [table EXCEPT ![i] = row]
      /\ reader' = [reader EXCEPT !.throughout = reader.throughout \ {i}]
      /\ UNCHANGED <<collection, instant>>
  BY DEF WithdrawRow
<1>2. row \in [state : {"absent", "begun", "committed"}, scope : PageScopes \cup {NoScope},
               at : Nat, on : BOOLEAN]
  BY RowTypes DEF Blank, PageInvariant, PageTypeOK
<1>3. /\ reader'.phase = reader.phase /\ reader'.scope = reader.scope
      /\ reader'.cursor = reader.cursor /\ reader'.seen = reader.seen
  BY <1>1
<1>4. reader'.throughout \subseteq reader.throughout \ {i}
  BY <1>1
<1>5. PageTypeOK'
  <2> HIDE DEF row
  <2> QED
    BY <1>1, <1>2, <1>3, <1>4 DEF PageInvariant, PageTypeOK
<1>6. \A j \in RowIds \ {i} : table'[j] = table[j]
  BY <1>1, RowTypes
<1>7. FinitelyBegun'
  BY <1>6, OneRowMoves DEF PageInvariant
<1>8. OrdinalsDense'
  <2>1. Cursor' # "ordinal"
    BY <1>1, CollectionFacts DEF Cursor, PageInvariant, PageTypeOK
  <2> QED
    BY <2>1 DEF OrdinalsDense
<1>9. \A s : \A j \in Rows(s) : collection \notin Reused \/ j \in reader'.throughout => Stays(j)
  <2>1. collection \notin Reused => Stays(i)
    BY <1>1, RowTypes DEF Stays
  <2> QED
    BY <1>4, <1>6, <2>1 DEF Rows, Stays
<1>10. \A j \in reader'.throughout : table'[j].on
  BY <1>4, <1>6 DEF PageInvariant, MatchedShown, Rows
<1>11. reader'.throughout \subseteq reader.throughout
  BY <1>4
<1>12. CursorHeld' /\ SeenInOrder' /\ MatchedShown'
  BY <1>1, <1>3, <1>9, <1>10, <1>11, TraversalHolds
<1> QED
  BY <1>5, <1>7, <1>8, <1>12 DEF PageInvariant

-----------------------------------------------------------------------------
(* A page is read.                                                         *)

\* A parent has finitely many rows.
LEMMA RowsFinite ==
  ASSUME FinitelyBegun, NEW s
  PROVE  IsFiniteSet(Rows(s)) /\ Cardinality(Rows(s)) \in Nat
<1>1. Rows(s) \in SUBSET {j \in RowIds : table[j].state # "absent"}
  BY DEF Rows
<1>2. IsFiniteSet(Rows(s))
  BY <1>1, FS_Subset DEF FinitelyBegun
<1> QED
  BY <1>2, FS_CardinalityType

\* Past the first m ordinals of a parent the place of a row is its ordinal less m.
LEMMA OrdinalsConsecutive ==
  ASSUME PageInvariant, Cursor = "ordinal", NEW s \in PageScopes, NEW m \in Nat,
         NEW S, S = {j \in Rows(s) : table[j].at > m}, NEW i \in S
  PROVE  RankIn(S, i) = table[i].at - m
<1> DEFINE size == Cardinality(Rows(s))
           at(j) == table[j].at
           below == {j \in S : RowBefore(j, i)}
           T == (m + 1)..(at(i) - 1)
<1>1. size \in Nat /\ IsFiniteSet(1..size) /\ Cardinality(1..size) = size
  BY RowsFinite, FS_Interval DEF PageInvariant
<1>2. /\ \A j \in Rows(s) : at(j) \in 1..size
      /\ \A j, k \in Rows(s) : at(j) = at(k) => j = k
  BY DEF PageInvariant, OrdinalsDense
<1>3. \A k \in 1..size : \E j \in Rows(s) : at(j) = k
  <2> DEFINE f == [j \in Rows(s) |-> at(j)]
             all == 1..size
  <2>1. f \in Injection(Rows(s), all)
    BY <1>2 DEF Injection, IsInjective
  <2>2. IsFiniteSet(all) /\ Cardinality(Rows(s)) = Cardinality(all)
    BY <1>1
  <2> HIDE DEF all
  <2>3. f \in Surjection(Rows(s), all)
    BY <2>1, <2>2, FS_Injection
  <2> QED
    BY <2>3 DEF Surjection, all
<1>4. PositionsComparable
  BY DEF PageInvariant, PageTypeOK, PositionsComparable
<1>5. \A j \in S : RowBefore(j, i) <=> at(j) < at(i)
  <2>1. collection # "gateway-probes"
    BY CollectionFacts DEF PageInvariant, PageTypeOK
  <2>2. \A j \in S : j \in Rows(s) /\ j \in RowIds /\ i \in Rows(s) /\ i \in RowIds
    BY DEF Rows
  <2>3. \A j \in S : RowBefore(j, i) <=> at(j) < at(i) \/ (at(j) = at(i) /\ j < i)
    BY <2>1 DEF RowBefore, Less, Position
  <2>4. \A j \in S : at(j) = at(i) => j = i
    BY <1>2, <2>2
  <2>5. i \in Nat
    <3>1. i \in RowIds /\ RowIds \subseteq Nat
      BY <2>2, PageAssumption
    <3> QED
      BY <3>1
  <2> HIDE DEF at
  <2>6. ASSUME NEW j \in S PROVE ~(at(j) = at(i) /\ j < i)
    BY <2>4, <2>5
  <2> QED
    BY <2>3, <2>6
<1>6. at(i) \in Nat /\ at(i) > m
  BY <1>1, <1>2
<1>7. IsFiniteSet(T) /\ Cardinality(T) = at(i) - 1 - m
  <2> DEFINE a == m + 1
             b == at(i) - 1
  <2>1. a \in Int /\ b \in Int /\ a <= b + 1 /\ b - a + 1 = at(i) - 1 - m
    BY <1>6
  <2> HIDE DEF a, b
  <2>2. IsFiniteSet(a..b) /\ Cardinality(a..b) = IF a > b THEN 0 ELSE b - a + 1
    BY <2>1, FS_Interval
  <2>3. Cardinality(a..b) = b - a + 1
    BY <2>1, <2>2
  <2> QED
    BY <2>1, <2>2, <2>3 DEF a, b
<1>8. \A j \in S : j \in Rows(s) /\ at(j) \in 1..size /\ at(j) > m
  BY <1>2
<1>9. \A k \in T : \E j \in below : at(j) = k
  <2> SUFFICES ASSUME NEW k \in T PROVE \E j \in below : at(j) = k
    OBVIOUS
  <2>1. k \in 1..size /\ k > m /\ k < at(i)
    BY <1>1, <1>6, <1>8
  <2>2. PICK j \in Rows(s) : at(j) = k
    BY <1>3, <2>1
  <2>3. j \in S /\ at(j) < at(i)
    BY <2>1, <2>2
  <2>4. j \in below
    BY <1>5, <2>3
  <2> QED
    BY <2>2, <2>4
<1>10. Cardinality(below) = Cardinality(T)
  <2> DEFINE g == [j \in below |-> at(j)]
  <2>1. \A j \in below : at(j) \in T
    BY <1>1, <1>5, <1>6, <1>8
  <2>2. \A j, k \in below : at(j) = at(k) => j = k
    BY <1>2, <1>8
  <2> HIDE DEF at, T, below
  <2>3. g \in Injection(below, T) /\ g \in Surjection(below, T)
    BY <1>9, <2>1, <2>2 DEF Injection, IsInjective, Surjection
  <2> QED
    BY <1>7, <2>3, FS_Injection
<1>11. RankIn(S, i) = 1 + Cardinality(below)
  BY DEF RankIn
<1> QED
  BY <1>6, <1>7, <1>10, <1>11

\* A cursor is not the absence of one.
LEMMA CursorsDiffer ==
  ASSUME NEW c, NEW s, NEW p
  PROVE  [collection |-> c, scope |-> s, position |-> p] # NoCursor
<1> DEFINE r == [collection |-> c, scope |-> s, position |-> p]
<1>1. "scope" \in DOMAIN r
  OBVIOUS
<1>2. DOMAIN NoCursor = {}
  BY DEF NoCursor
<1> QED
  BY <1>1, <1>2

\* Sequences that go on with another one.
LEMMA GoingOn ==
  ASSUME NEW old \in Seq(RowIds), NEW items \in Seq(RowIds),
         NEW new, new = old \o items
  PROVE  /\ new \in Seq(RowIds) /\ Len(new) = Len(old) + Len(items)
         /\ Len(old) \in Nat /\ Len(items) \in Nat
         /\ \A k \in 1..Len(old) : new[k] = old[k]
         /\ \A k \in 1..Len(items) : new[Len(old) + k] = items[k]
         /\ \A k \in 1..Len(new) : k <= Len(old) \/ k - Len(old) \in 1..Len(items)
OBVIOUS

\* What a request does: the rows it shows are the first ones after the row shown
\* last, and the traversal goes on after them or has shown all.
PageShown(s, n, rows, items) ==
    LET S == {i \in rows : Len(reader.seen) = 0 \/ RowBefore(LastSeen, i)}
    IN  /\ items \in Seq(S)
        /\ \A k, m \in 1..Len(items) : k < m => RowBefore(items[k], items[m])
        /\ \A k \in 1..Len(items) : RankIn(S, items[k]) = k
        /\ reader' = [phase |-> reader'.phase, scope |-> s, cursor |-> reader'.cursor,
                      seen |-> reader.seen \o items, throughout |-> reader'.throughout]
        /\ \/ /\ reader'.phase = "ended" /\ reader'.cursor = NoCursor
              /\ \A j \in S : \E k \in 1..Len(items) : items[k] = j
           \/ /\ reader'.phase = "reading" /\ Len(items) # 0
              /\ reader'.cursor = [collection |-> collection, scope |-> s,
                                   position |-> Position(items[Len(items)])]
              /\ \A j \in S : \/ \E k \in 1..Len(items) : items[k] = j
                              \/ RowBefore(items[Len(items)], j)

\* Every request shows a page as PageShown says, of rows of the parent the traversal is of.
LEMMA PagesShown ==
  ASSUME PageInvariant, NEW s \in PageScopes, NEW n \in PageLimits, ReadPage(s, n)
  PROVE  /\ reader.phase = "reading" => s = reader.scope
         /\ \E rows \in SUBSET Rows(s), items \in Seq(RowIds) :
               /\ {i \in Rows(s) : table[i].on} \subseteq rows
               /\ collection \notin Filtered => rows = Rows(s)
               /\ PageShown(s, n, rows, items)
<1> DEFINE q == [collection |-> collection, scope |-> s, limit |-> n, cursor |-> reader.cursor]
           candidates == PageCandidates(q)
           page == FromCandidates(q, candidates)
<1>1. /\ reader.phase # "ended" /\ Congruent(q)
      /\ reader' = [phase |-> IF page.next = NoCursor THEN "ended" ELSE "reading",
                    scope |-> s, cursor |-> page.next, seen |-> reader.seen \o page.items,
                    throughout |-> IF reader.phase = "begin"
                                   THEN {i \in Rows(s) : table[i].on} ELSE reader.throughout]
  BY DEF ReadPage
<1>2. n \in Nat /\ n >= 1
  BY PageAssumption
<1>3. /\ collection \in DOMAIN CollectionSpec /\ reader.phase \in {"begin", "reading"}
      /\ reader.seen \in Seq(RowIds) /\ PositionsComparable
      /\ FinitelyBegun /\ CursorHeld
  BY <1>1 DEF PageInvariant, PageTypeOK, PositionsComparable
<1>4. reader.phase = "reading" => s = reader.scope
  <2> SUFFICES ASSUME reader.phase = "reading" PROVE s = reader.scope
    OBVIOUS
  <2>1. reader.cursor = [collection |-> collection, scope |-> reader.scope,
                         position |-> Position(LastSeen)]
    BY <1>3 DEF CursorHeld
  <2>2. reader.cursor # NoCursor
    BY <2>1, CursorsDiffer
  <2>3. q.cursor.scope = q.scope
    BY <1>1, <2>2 DEF Congruent
  <2> QED
    BY <2>1, <2>3
<1>5. PICK rows \in SUBSET Rows(s) :
         /\ {i \in Rows(s) : table[i].on} \subseteq rows
         /\ collection \notin Filtered => rows = Rows(s)
         /\ candidates = InOrder(AfterCursor(q, rows), n + 1)
  BY <1>2, <1>3, CandidatesInOrder
<1> DEFINE S == {i \in rows : Len(reader.seen) = 0 \/ RowBefore(LastSeen, i)}
           L == InOrder(S, n + 1)
<1>6. AfterCursor(q, rows) = S
  <2>1. CASE reader.phase = "begin"
    BY <1>3, <2>1 DEF CursorHeld, AfterCursor
  <2>2. CASE reader.phase = "reading"
    <3>1. Len(reader.seen) # 0
          /\ reader.cursor = [collection |-> collection, scope |-> reader.scope,
                              position |-> Position(LastSeen)]
      BY <1>3, <2>2 DEF CursorHeld
    <3>2. q.cursor # NoCursor /\ q.cursor.position = Position(LastSeen)
      BY <3>1, CursorsDiffer
    <3>3. \A i : Precedes(q, q.cursor.position, Position(i)) <=> RowBefore(LastSeen, i)
      BY <3>2 DEF Precedes, RowBefore
    <3> QED
      BY <3>1, <3>2, <3>3 DEF AfterCursor
  <2> QED
    BY <1>3, <2>1, <2>2
<1>7. candidates = L
  BY <1>5, <1>6
<1>8. S \in SUBSET RowIds /\ IsFiniteSet(S)
  <2>1. S \in SUBSET Rows(s)
    OBVIOUS
  <2> QED
    BY <1>3, <2>1, RowsFinite, FS_Subset DEF Rows
<1> HIDE DEF S, candidates
<1>9. /\ L \in Seq(S) /\ Len(L) <= n + 1
      /\ \A k \in 1..Len(L) : RankIn(S, L[k]) = k
      /\ \A k, m \in 1..Len(L) : k < m => RowBefore(L[k], L[m])
      /\ \A k \in 1..Len(L) : \A j \in S :
            (\E m \in 1..k : L[m] = j) \/ RowBefore(L[k], j)
      /\ Len(L) # n + 1 => \A j \in S : \E m \in 1..Len(L) : L[m] = j
  <2>1. n + 1 \in Nat
    BY <1>2
  <2> QED
    BY <1>3, <1>8, <2>1, FirstRowsInOrder
<1> HIDE DEF L
<1> DEFINE items == page.items
<1>10. CASE Len(L) = n + 1
  <2>1. /\ items = SubSeq(L, 1, n)
        /\ page.next = [collection |-> collection, scope |-> s, position |-> Position(L[n])]
    BY <1>7, <1>10 DEF FromCandidates
  <2>2. items \in Seq(S) /\ Len(items) = n /\ \A k \in 1..n : items[k] = L[k]
    <3>1. \A k \in 1..n : L[k] \in S
      BY <1>2, <1>9, <1>10
    <3>2. 1 \in Int /\ n \in Int /\ n - 1 + 1 = n /\ 1 <= n
          /\ \A k \in 1..n : 1 + k - 1 = k
      BY <1>2
    <3>3. /\ SubSeq(L, 1, n) \in Seq(S) /\ Len(SubSeq(L, 1, n)) = n
          /\ \A k \in 1..n : SubSeq(L, 1, n)[k] = L[k]
      BY <3>1, <3>2, SubSeqProperties
    <3> QED
      BY <2>1, <3>3
  <2>3. page.next # NoCursor
    BY <2>1, CursorsDiffer
  <2> HIDE DEF page, items, q
  <2>4. PageShown(s, n, rows, items)
    <3>1. n \in 1..Len(L) /\ Len(items) # 0 /\ 1..n \subseteq 1..Len(L)
      BY <1>2, <1>10, <2>2
    <3>2. \A j \in S : (\E k \in 1..Len(items) : items[k] = j)
                       \/ RowBefore(items[Len(items)], j)
      BY <1>2, <1>9, <2>2, <3>1
    <3>3. ASSUME NEW k \in 1..Len(items), NEW m \in 1..Len(items), k < m
          PROVE  RowBefore(items[k], items[m])
      <4>1. k \in 1..Len(L) /\ m \in 1..Len(L) /\ items[k] = L[k] /\ items[m] = L[m]
        BY <2>2, <3>1
      <4> QED
        BY <1>9, <3>3, <4>1
    <3>4. \A k \in 1..Len(items) : RankIn(S, items[k]) = k
      BY <1>9, <2>2, <3>1
    <3>5. /\ reader'.phase = "reading" /\ reader'.cursor = page.next
          /\ reader' = [phase |-> reader'.phase, scope |-> s, cursor |-> reader'.cursor,
                        seen |-> reader.seen \o items, throughout |-> reader'.throughout]
      BY <1>1, <2>3 DEF items
    <3>6. items[Len(items)] = L[n]
      BY <1>2, <2>2
    <3> QED
      BY <2>1, <2>2, <3>1, <3>2, <3>3, <3>4, <3>5, <3>6 DEF PageShown, S
  <2>5. items \in Seq(RowIds)
    BY <1>8, <2>2
  <2> QED
    BY <1>4, <1>5, <2>4, <2>5
<1>11. CASE Len(L) # n + 1
  <2>1. items = L /\ page.next = NoCursor
    BY <1>7, <1>11 DEF FromCandidates
  <2> HIDE DEF page, items, q
  <2>2. PageShown(s, n, rows, items)
    <3>1. /\ reader'.phase = "ended" /\ reader'.cursor = NoCursor
          /\ reader' = [phase |-> reader'.phase, scope |-> s, cursor |-> reader'.cursor,
                        seen |-> reader.seen \o items, throughout |-> reader'.throughout]
      BY <1>1, <2>1 DEF items
    <3> QED
      BY <1>9, <1>11, <2>1, <3>1 DEF PageShown, S
  <2>3. items \in Seq(RowIds)
    BY <1>8, <1>9, <2>1
  <2> QED
    BY <1>4, <1>5, <2>2, <2>3
<1> QED
  BY <1>10, <1>11

\* Reading a page keeps the invariant.
LEMMA ReadingKeeps ==
  ASSUME PageInvariant, NEW s \in PageScopes, NEW n \in PageLimits, ReadPage(s, n)
  PROVE  PageInvariant'
<1>1. /\ reader.phase \in {"begin", "reading"} /\ UNCHANGED <<collection, table, instant>>
      /\ reader'.throughout = IF reader.phase = "begin"
                              THEN {i \in Rows(s) : table[i].on} ELSE reader.throughout
  BY DEF ReadPage, PageInvariant, PageTypeOK
<1>2. /\ collection \in DOMAIN CollectionSpec
      /\ reader.seen \in Seq(RowIds) /\ PositionsComparable
      /\ reader.throughout \subseteq RowIds
      /\ FinitelyBegun /\ OrdinalsDense /\ CursorHeld /\ SeenInOrder /\ MatchedShown
  BY DEF PageInvariant, PageTypeOK, PositionsComparable
<1>3. reader.phase = "reading" => s = reader.scope
  BY PagesShown
<1>4. PICK rows \in SUBSET Rows(s), items \in Seq(RowIds) :
         /\ {i \in Rows(s) : table[i].on} \subseteq rows
         /\ collection \notin Filtered => rows = Rows(s)
         /\ PageShown(s, n, rows, items)
  BY PagesShown
<1> DEFINE old == reader.seen
           new == reader'.seen
           L == Len(old)
           k == Len(items)
           S == {i \in rows : L = 0 \/ RowBefore(LastSeen, i)}
<1>5. /\ items \in Seq(S)
      /\ \A x, y \in 1..k : x < y => RowBefore(items[x], items[y])
      /\ \A x \in 1..k : RankIn(S, items[x]) = x
      /\ \/ /\ reader'.phase = "ended" /\ reader'.cursor = NoCursor
            /\ \A j \in S : \E x \in 1..k : items[x] = j
         \/ /\ reader'.phase = "reading" /\ k # 0
            /\ reader'.cursor = [collection |-> collection, scope |-> s,
                                 position |-> Position(items[k])]
            /\ \A j \in S : \/ \E x \in 1..k : items[x] = j
                            \/ RowBefore(items[k], j)
  BY <1>4 DEF PageShown
<1>6. reader'.scope = s /\ new = old \o items
  <2>1. reader' = [phase |-> reader'.phase, scope |-> s, cursor |-> reader'.cursor,
                   seen |-> reader.seen \o items, throughout |-> reader'.throughout]
    BY <1>4 DEF PageShown
  <2> QED
    BY <2>1
<1>7. /\ new \in Seq(RowIds) /\ Len(new) = L + k /\ L \in Nat /\ k \in Nat
      /\ \A x \in 1..L : new[x] = old[x] /\ old[x] \in RowIds
      /\ \A x \in 1..k : new[L + x] = items[x] /\ items[x] \in S
      /\ \A x \in 1..Len(new) : x \in 1..L \/ (x - L \in 1..k /\ L + (x - L) = x)
  <2>1. /\ new \in Seq(RowIds) /\ Len(new) = L + k /\ L \in Nat /\ k \in Nat
        /\ \A x \in 1..L : new[x] = old[x]
        /\ \A x \in 1..k : new[L + x] = items[x]
        /\ \A x \in 1..Len(new) : x <= L \/ x - L \in 1..k
    BY <1>2, <1>4, <1>6, GoingOn
  <2>2. \A x \in 1..L : old[x] \in RowIds
    BY <1>2
  <2>3. \A x \in 1..k : items[x] \in S
    BY <1>5
  <2> HIDE DEF old, new, L, k, S
  <2> QED
    BY <2>1, <2>2, <2>3
<1>8. S \subseteq Rows(s) /\ S \subseteq RowIds
  BY DEF Rows
<1>9. \A i : RowBefore(i, LastSeen) \/ i = LastSeen =>
         \A j \in S : L # 0 /\ i \in RowIds /\ LastSeen \in RowIds => RowBefore(i, j)
  BY <1>2, <1>8, RowsOrdered
<1>10. \A i, j : RowBefore(i, j)' <=> RowBefore(i, j)
  BY <1>1 DEF RowBefore, Position, Cursor
<1>11. \A i : Position(i)' = Position(i)
  BY <1>1 DEF Position, Cursor
<1>12. \A t : Rows(t)' = Rows(t)
  BY <1>1 DEF Rows
<1>13. L # 0 => LastSeen = old[L] /\ L \in 1..L /\ LastSeen \in RowIds
  BY <1>7 DEF LastSeen
<1>14. \A x \in 1..L : \A j \in S : RowBefore(old[x], j)
  <2> SUFFICES ASSUME NEW x \in 1..L, NEW j \in S PROVE RowBefore(old[x], j)
    OBVIOUS
  <2>1. L # 0 /\ (x = L \/ x < L) /\ L \in 1..L /\ old[x] \in RowIds
    BY <1>7
  <2>2. old[x] = LastSeen \/ RowBefore(old[x], LastSeen)
    BY <1>2, <1>13, <2>1 DEF SeenInOrder
  <2> QED
    BY <1>9, <1>13, <2>1, <2>2
<1>15. L # 0 => reader.phase = "reading" /\ reader.scope = s
  BY <1>1, <1>2, <1>3 DEF CursorHeld
<1>16. ASSUME NEW x \in 1..Len(new), NEW y \in 1..Len(new), x < y
       PROVE  RowBefore(new[x], new[y])
  <2>1. CASE y \in 1..L
    <3>1. x \in 1..L /\ RowBefore(old[x], old[y])
      BY <1>2, <1>7, <1>16, <2>1 DEF SeenInOrder
    <3> QED
      BY <1>7, <2>1, <3>1
  <2>2. CASE y \notin 1..L
    <3>1. y - L \in 1..k /\ new[y] = items[y - L] /\ new[y] \in S
      BY <1>7, <2>2
    <3>2. CASE x \in 1..L
      BY <1>7, <1>14, <3>1, <3>2
    <3>3. CASE x \notin 1..L
      <4> HIDE DEF L, k, S, new, old
      <4>1. x - L \in 1..k /\ L + (x - L) = x
        BY <1>7, <3>3
      <4>2. new[x] = items[x - L]
        BY <1>7, <4>1
      <4>3. x - L < y - L
        BY <1>7, <1>16
      <4> QED
        BY <1>5, <3>1, <4>1, <4>2, <4>3 DEF k, S
    <3> QED
      BY <3>2, <3>3
  <2> QED
    BY <2>1, <2>2
<1>17. ASSUME collection \notin Reused, NEW x \in 1..Len(new)
       PROVE  new[x] \in Rows(s)
  <2>1. CASE x \in 1..L
    <3>1. L # 0 /\ new[x] = old[x]
      BY <1>7, <2>1
    <3> QED
      BY <1>2, <1>15, <1>17, <2>1, <3>1 DEF SeenInOrder
  <2>2. CASE x \notin 1..L
    BY <1>7, <1>8, <2>2
  <2> QED
    BY <2>1, <2>2
<1>18. ASSUME Cursor = "ordinal", NEW x \in 1..Len(new)
       PROVE  table[new[x]].at = x
  <2>1. CASE x \in 1..L
    BY <1>2, <1>7, <1>18, <2>1 DEF SeenInOrder
  <2>2. CASE x \notin 1..L
    <3>1. /\ x - L \in 1..k /\ new[x] = items[x - L] /\ new[x] \in S
          /\ RankIn(S, new[x]) = x - L
      <4> HIDE DEF L, k, S, new, old
      <4>1. x - L \in 1..k /\ L + (x - L) = x
        BY <1>7, <2>2
      <4>2. new[x] = items[x - L] /\ new[x] \in S
        BY <1>7, <4>1
      <4> QED
        BY <1>5, <4>1, <4>2 DEF k, S
    <3>2. rows = Rows(s) /\ collection \notin Reused /\ collection # "gateway-probes"
      BY <1>2, <1>4, <1>18, CollectionFacts
    <3>3. /\ \A j \in Rows(s) : table[j].at \in Nat /\ table[j].at >= 1 /\ j \in RowIds
          /\ \A i, j \in Rows(s) : table[i].at = table[j].at => i = j
      <4>1. Cardinality(Rows(s)) \in Nat
        BY <1>2, RowsFinite
      <4>2. /\ \A j \in Rows(s) : table[j].at \in 1..Cardinality(Rows(s))
            /\ \A i, j \in Rows(s) : table[i].at = table[j].at => i = j
        BY <1>2, <1>18 DEF OrdinalsDense
      <4>3. \A j \in Rows(s) : j \in RowIds
        BY DEF Rows
      <4> QED
        BY <4>1, <4>2, <4>3
    <3>4. S = {j \in Rows(s) : table[j].at > L}
      <4>1. CASE L = 0
        BY <3>2, <3>3, <4>1
      <4>2. CASE L # 0
        <5>1. LastSeen \in Rows(s) /\ table[LastSeen].at = L
          BY <1>2, <1>13, <1>15, <1>18, <3>2, <4>2 DEF SeenInOrder
        <5>2. ASSUME NEW j \in Rows(s)
              PROVE  RowBefore(LastSeen, j) <=> table[j].at > L
          <6>1. RowBefore(LastSeen, j) <=>
                   L < table[j].at \/ (L = table[j].at /\ LastSeen < j)
            BY <1>18, <3>2, <5>1 DEF RowBefore, Less, Position
          <6>2. L = table[j].at => LastSeen = j
            BY <3>3, <5>1
          <6>3. ~(j < j)
            <7>1. j \in RowIds /\ RowIds \subseteq Nat
              BY <3>3, PageAssumption
            <7>2. j \in Nat
              BY <7>1
            <7> QED
              BY <7>2
          <6>4. table[j].at \in Nat
            BY <3>3
          <6> QED
            BY <1>7, <6>1, <6>2, <6>3, <6>4
        <5> QED
          BY <3>2, <4>2, <5>2
      <4> QED
        BY <4>1, <4>2
    <3> HIDE DEF S, L
    <3>5. L \in Nat
      BY <1>7
    <3>6. RankIn(S, new[x]) = table[new[x]].at - L
      BY <1>18, <3>1, <3>4, <3>5, OrdinalsConsecutive
    <3>7. table[new[x]].at \in Nat
      BY <3>1, <3>3, <3>4
    <3> QED
      BY <3>1, <3>5, <3>6, <3>7
  <2> QED
    BY <2>1, <2>2
<1>19. SeenInOrder'
  <2>1. Cursor' = Cursor
    BY <1>1 DEF Cursor
  <2> HIDE DEF new
  <2>2. SeenInOrder' <=>
          /\ \A x, y \in 1..Len(new) : x < y => RowBefore(new[x], new[y])
          /\ \A x \in 1..Len(new) :
                /\ collection \notin Reused => new[x] \in Rows(s)
                /\ Cursor = "ordinal" => table[new[x]].at = x
    BY <1>1, <1>6, <1>12, <2>1 DEF SeenInOrder, RowBefore, Position, new
  <2> QED
    BY <1>16, <1>17, <1>18, <2>2
<1>20. k # 0 => LastSeen' = items[k] /\ items[k] \in RowIds
  <2>1. LastSeen' = new[Len(new)]
    BY DEF LastSeen
  <2> HIDE DEF new, L, k
  <2>2. k # 0 => k \in 1..k
    BY <1>7
  <2> QED
    BY <1>7, <1>8, <2>1, <2>2
<1>21. CursorHeld'
  <2>1. reader'.phase = "reading" => Len(new) # 0
    BY <1>5, <1>7
  <2>2. reader'.phase = "reading" =>
          reader'.cursor = [collection |-> collection', scope |-> reader'.scope,
                            position |-> Position(LastSeen)']
    BY <1>1, <1>5, <1>6, <1>11, <1>20
  <2>3. reader'.phase # "begin" /\ reader'.scope \in PageScopes
    BY <1>5, <1>6
  <2> QED
    BY <2>1, <2>2, <2>3 DEF CursorHeld
<1>22. MatchedShown'
  <2> SUFFICES ASSUME NEW i \in reader'.throughout
               PROVE  /\ i \in Rows(s) /\ table[i].on
                      /\ \/ \E x \in 1..Len(new) : new[x] = i
                         \/ reader'.phase = "reading" /\ RowBefore(LastSeen', i)
    BY <1>1, <1>6, <1>12 DEF MatchedShown, RowBefore, Position, Cursor
  <2>1. i \in Rows(s) /\ table[i].on
    <3>1. CASE reader.phase = "begin"
      BY <1>1, <3>1
    <3>2. CASE reader.phase = "reading"
      BY <1>1, <1>2, <1>3, <3>2 DEF MatchedShown
    <3> QED
      BY <1>1, <3>1, <3>2
  <2>2. i \in rows
    BY <1>4, <2>1
  <2>3. CASE i \in S
    <3>1. CASE \E x \in 1..k : items[x] = i
      <4>1. PICK x \in 1..k : items[x] = i
        BY <3>1
      <4>2. L + x \in 1..Len(new) /\ new[L + x] = i
        BY <1>7, <4>1
      <4> QED
        BY <2>1, <4>2
    <3>2. CASE reader'.phase = "reading" /\ k # 0 /\ RowBefore(items[k], i)
      BY <1>20, <2>1, <3>2
    <3> QED
      BY <1>5, <2>3, <3>1, <3>2
  <2>4. CASE i \notin S
    <3>1. L # 0 /\ ~RowBefore(LastSeen, i)
      BY <2>2, <2>4
    <3>2. i \in reader.throughout
      BY <1>1, <1>15, <3>1
    <3>3. PICK x \in 1..L : old[x] = i
      BY <1>2, <3>1, <3>2 DEF MatchedShown
    <3>4. x \in 1..Len(new) /\ new[x] = i
      BY <1>7, <3>3
    <3> QED
      BY <2>1, <3>4
  <2> QED
    BY <2>3, <2>4
<1>23. PageTypeOK'
  <2>1. reader'.throughout \subseteq RowIds
    BY <1>1, <1>2 DEF Rows
  <2>2. reader'.cursor # NoCursor =>
          reader'.phase = "reading" /\ reader'.cursor.scope = reader'.scope
    BY <1>5, <1>6
  <2>3. reader'.phase \in {"reading", "ended"}
    BY <1>5
  <2> HIDE DEF new
  <2>4. reader'.seen \in Seq(RowIds)
    BY <1>7 DEF new
  <2> QED
    BY <1>1, <2>1, <2>2, <2>3, <2>4 DEF PageInvariant, PageTypeOK
<1>24. FinitelyBegun' /\ OrdinalsDense'
  <2>1. \A t : Rows(t)' = Rows(t)
    BY <1>12
  <2> QED
    BY <1>1, <1>2, <2>1 DEF FinitelyBegun, OrdinalsDense, Cursor
<1> QED
  BY <1>19, <1>21, <1>22, <1>23, <1>24 DEF PageInvariant

-----------------------------------------------------------------------------
(* The theorem.                                                            *)

\* The invariant is inductive.
LEMMA StepKeepsPages == PageInvariant /\ [PageNext]_pvars => PageInvariant'
<1> SUFFICES ASSUME PageInvariant, [PageNext]_pvars PROVE PageInvariant'
  OBVIOUS
<1>1. ASSUME NEW i \in RowIds, NEW s \in PageScopes, BeginRow(i, s) PROVE PageInvariant'
  BY <1>1, BeginningKeeps
<1>2. ASSUME NEW i \in RowIds, CommitRow(i) PROVE PageInvariant'
  BY <1>2, CommittingKeeps
<1>3. ASSUME NEW i \in RowIds, AbandonRow(i) PROVE PageInvariant'
  BY <1>3, AbandoningKeeps
<1>4. ASSUME NEW i \in RowIds, WithdrawRow(i) PROVE PageInvariant'
  BY <1>4, WithdrawingKeeps
<1>5. ASSUME NEW s \in PageScopes, NEW n \in PageLimits, ReadPage(s, n)
      PROVE  PageInvariant'
  BY <1>5, ReadingKeeps
<1>6. CASE UNCHANGED <<collection, table, reader>> /\ instant' \in 1..MaxInstant
  <2>1. PageTypeOK'
    BY <1>6 DEF PageInvariant, PageTypeOK
  <2>2. FinitelyBegun' /\ OrdinalsDense' /\ CursorHeld' /\ SeenInOrder' /\ MatchedShown'
    BY <1>6 DEF PageInvariant, FinitelyBegun, OrdinalsDense, CursorHeld, SeenInOrder,
       MatchedShown, Rows, Cursor, Position, RowBefore, LastSeen
  <2> QED
    BY <2>1, <2>2 DEF PageInvariant
<1>7. ClockTick \/ UNCHANGED pvars =>
         UNCHANGED <<collection, table, reader>> /\ instant' \in 1..MaxInstant
  <2>1. instant \in 1..MaxInstant
    BY DEF PageInvariant, PageTypeOK
  <2> QED
    BY <2>1, PageAssumption DEF ClockTick, pvars
<1> QED
  BY <1>1, <1>2, <1>3, <1>4, <1>5, <1>6, <1>7 DEF PageNext

\* A traversal shows a row at most once, in order, and all that matched throughout,
\* for any tables, scopes and limits (read_pages.py and the stores' page queries).
THEOREM PagesCover == PageSpec => []PagesCoverOnce
<1>1. PageInit => PageInvariant
  BY FirstPages DEF PageInit
<1>2. PageInvariant => PagesCoverOnce
  BY InvariantCoversOnce
<1> QED
  BY <1>1, <1>2, StepKeepsPages, PTL DEF PageSpec

-----------------------------------------------------------------------------
(* Types.                                                                  *)

\* Ids of reference registrations, and what a record of one is about.
IsReferenceId(id) ==
    /\ \E n \in 1..MaxChain : DOMAIN id = 1..n /\ Len(id) = n
    /\ \A n \in DOMAIN id : IsReferenceContent(id[n])

\* A registration is read, granted or received before it is inserted: what is
\* under way has the shape of what will be recorded.
SecretsTyped ==
    /\ SecretTypeOK
    /\ \A id \in DOMAIN references \cup reading : IsReferenceId(id)
    /\ \A x \in custody :
         /\ x.grant.provider \in DOMAIN providers
         /\ x.grant.reference \in SecretRefs /\ x.grant.intent \in Intents
         /\ x.received \in BOOLEAN
         /\ x = [grant |-> x.grant, received |-> x.received]

\* A candidate is one registration longer than the one it supersedes.
LEMMA CandidateIs ==
    ASSUME NEW ledger, NEW contents, NEW id \in Candidates(ledger, contents)
    PROVE  \/ \E c \in contents : id = <<c>>
           \/ \E c \in contents, i \in DOMAIN ledger :
                 Len(i) < MaxChain /\ id = Superseding(c, i)
BY SMT DEF Candidates

LEMMA NewerProvider ==
    ASSUME SecretsTyped, NEW id \in Candidates(providers, ProviderContents)
    PROVE  id \in ProviderIds
<1>1. CASE \E c \in ProviderContents : id = <<c>>
  <2>1. id \in [1..1 -> ProviderContents] /\ 1 \in 1..MaxChain
    BY <1>1, SecretAssumption
  <2> QED
    BY <2>1 DEF ProviderIds
<1>2. ASSUME NEW c \in ProviderContents, NEW i \in DOMAIN providers, Len(i) < MaxChain,
             id = Superseding(c, i)
      PROVE  id \in ProviderIds
  <2>1. PICK n \in 1..MaxChain : i \in [1..n -> ProviderContents]
    BY DEF SecretsTyped, SecretTypeOK, ProviderIds
  <2>2. i \in Seq(ProviderContents) /\ Len(i) = n
    BY <2>1, SecretAssumption
  <2>3. n + 1 \in 1..MaxChain
    BY <1>2, <2>2, SecretAssumption
  <2>4. id \in Seq(ProviderContents) /\ Len(id) = n + 1
    BY <1>2, <2>2 DEF Superseding
  <2>5. id \in [1..(n + 1) -> ProviderContents]
    BY <2>4
  <2> QED
    BY <2>3, <2>5 DEF ProviderIds
<1> QED
  <2>1. \/ \E c \in ProviderContents : id = <<c>>
        \/ \E c \in ProviderContents, i \in DOMAIN providers :
              Len(i) < MaxChain /\ id = Superseding(c, i)
    BY CandidateIs
  <2> QED
    BY <1>1, <1>2, <2>1, Zenon

LEMMA NewerReference ==
    ASSUME SecretsTyped, NEW id \in Candidates(references, ReferenceContents)
    PROVE  IsReferenceId(id)
<1>1. \A c \in ReferenceContents : IsReferenceContent(c)
  BY SecretAssumption DEF ReferenceContents, IsReferenceContent, SecretsTyped, SecretTypeOK
<1>2. CASE \E c \in ReferenceContents : id = <<c>>
  <2>1. PICK c \in ReferenceContents : id = <<c>>
    BY <1>2
  <2>2. DOMAIN id = 1..1 /\ Len(id) = 1 /\ id[1] = c
    BY <2>1
  <2> QED
    BY <1>1, <2>2, SecretAssumption DEF IsReferenceId
<1>3. ASSUME NEW c \in ReferenceContents, NEW i \in DOMAIN references, Len(i) < MaxChain,
             id = Superseding(c, i)
      PROVE  IsReferenceId(id)
  <2>1. IsReferenceId(i)
    BY DEF SecretsTyped
  <2>2. PICK n \in 1..MaxChain : DOMAIN i = 1..n /\ Len(i) = n
    BY <2>1 DEF IsReferenceId
  <2>3. n \in Nat /\ n < MaxChain /\ n + 1 \in 1..MaxChain
    BY <1>3, <2>2, SecretAssumption
  <2>4. Len(id) = n + 1 /\ DOMAIN id = 1..(n + 1)
    BY <1>3, <2>2, <2>3 DEF Superseding
  <2>5. \A m \in 1..(n + 1) : id[m] = IF m = 1 THEN c ELSE i[m - 1]
    BY <1>3, <2>2, <2>3 DEF Superseding
  <2>6. ASSUME NEW m \in 1..(n + 1) PROVE IsReferenceContent(id[m])
    <3>1. CASE m = 1
      BY <1>1, <2>5, <3>1
    <3>2. CASE m # 1
      <4>1. m - 1 \in DOMAIN i
        BY <2>2, <2>3, <3>2
      <4> QED
        BY <2>1, <2>5, <3>2, <4>1 DEF IsReferenceId
    <3> QED
      BY <3>1, <3>2
  <2> QED
    BY <2>3, <2>4, <2>6 DEF IsReferenceId
<1> QED
  <2>1. \/ \E c \in ReferenceContents : id = <<c>>
        \/ \E c \in ReferenceContents, i \in DOMAIN references :
              Len(i) < MaxChain /\ id = Superseding(c, i)
    BY CandidateIs
  <2> QED
    BY <1>2, <1>3, <2>1, Zenon

\* Rows keep their ids and have one of the three statuses.
LEMMA RowTyped ==
    ASSUME NEW ledger, NEW id, \A i \in DOMAIN ledger : ledger[i] \in RegistrationStatuses
    PROVE  /\ DOMAIN RegisteredRow(ledger, id) = DOMAIN ledger \cup {id}
           /\ DOMAIN RevokedRow(ledger, id) = DOMAIN ledger
           /\ \A i \in DOMAIN RegisteredRow(ledger, id) :
                RegisteredRow(ledger, id)[i] \in RegistrationStatuses
           /\ \A i \in DOMAIN RevokedRow(ledger, id) :
                RevokedRow(ledger, id)[i] \in RegistrationStatuses
<1>1. CASE id \in DOMAIN ledger
  BY <1>1 DEF RegisteredRow, RevokedRow, RegistrationStatuses
<1>2. CASE id \notin DOMAIN ledger
  BY <1>2 DEF RegisteredRow, RevokedRow, RegistrationStatuses
<1> QED
  BY <1>1, <1>2

LEMMA FirstSecrets == SecretInit => SecretsTyped
BY SecretAssumption DEF SecretInit, SecretsTyped, SecretTypeOK

\* A step that adds rows at most.
LEMMA MoreRowsTyped ==
    ASSUME SecretsTyped,
           DOMAIN providers \subseteq DOMAIN providers',
           DOMAIN providers' \subseteq ProviderIds,
           \A id \in DOMAIN providers' : providers'[id] \in RegistrationStatuses,
           DOMAIN references \subseteq DOMAIN references',
           \A id \in DOMAIN references' :
               references'[id] \in RegistrationStatuses /\ IsReferenceId(id),
           \A id \in reading' : IsReferenceId(id),
           UNCHANGED <<custody, kept, uses, released>>
    PROVE  SecretsTyped'
<1>1. UseRecords \subseteq UseRecords'
  BY DEF UseRecords
<1>2. uses' \in [Correlations -> (UseRecords \cup {NoUse})']
  BY <1>1 DEF SecretsTyped, SecretTypeOK
<1>3. \A id \in DOMAIN references' :
        Len(id) <= MaxChain /\ \A n \in DOMAIN id : IsReferenceContent(id[n])
  BY SecretAssumption DEF IsReferenceId
<1> QED
  BY <1>2, <1>3 DEF SecretsTyped, SecretTypeOK

LEMMA StepKeepsSecrets == SecretsTyped /\ [SecretNext]_svars => SecretsTyped'
<1> SUFFICES ASSUME SecretsTyped, [SecretNext]_svars PROVE SecretsTyped'
  OBVIOUS
<1>0. /\ \A id \in DOMAIN providers : providers[id] \in RegistrationStatuses
      /\ \A id \in DOMAIN references :
           references[id] \in RegistrationStatuses /\ IsReferenceId(id)
      /\ \A id \in reading : IsReferenceId(id)
      /\ DOMAIN providers \subseteq ProviderIds
  BY DEF SecretsTyped, SecretTypeOK
<1>1. ASSUME NEW id \in Candidates(providers, ProviderContents), RegisterProvider(id)
      PROVE  SecretsTyped'
  <2>1. id \in ProviderIds
    BY NewerProvider
  <2>2. /\ providers' = RegisteredRow(providers, id)
        /\ UNCHANGED <<references, reading, custody, kept, uses, released>>
    BY <1>1 DEF RegisterProvider
  <2>3. /\ DOMAIN providers' = DOMAIN providers \cup {id}
        /\ \A i \in DOMAIN providers' : providers'[i] \in RegistrationStatuses
    BY <1>0, <2>2, RowTyped
  <2> QED
    BY <1>0, <2>1, <2>2, <2>3, MoreRowsTyped
<1>2. ASSUME NEW p \in SecretProviders, RevokeProvider(p)
      PROVE  SecretsTyped'
  BY <1>0, <1>2, RowTyped, MoreRowsTyped DEF RevokeProvider
<1>3. ASSUME NEW id \in Candidates(references, ReferenceContents), ReadProvider(id)
      PROVE  SecretsTyped'
  BY <1>0, <1>3, NewerReference, MoreRowsTyped DEF ReadProvider
<1>4. ASSUME NEW id \in reading, CommitReference(id)
      PROVE  SecretsTyped'
  <2>1. /\ reading' \subseteq reading
        /\ UNCHANGED <<providers, custody, kept, uses, released>>
    BY <1>4 DEF CommitReference
  <2>2. references' = references \/ references' = RegisteredRow(references, id)
    BY <1>4 DEF CommitReference
  <2>3. /\ DOMAIN references \subseteq DOMAIN references'
        /\ DOMAIN references' \subseteq DOMAIN references \cup {id}
        /\ \A i \in DOMAIN references' : references'[i] \in RegistrationStatuses
    <3>1. CASE references' = references
      BY <1>0, <3>1
    <3>2. CASE references' = RegisteredRow(references, id)
      BY <1>0, <3>2, RowTyped
    <3> QED
      BY <2>2, <3>1, <3>2
  <2>4. \A i \in DOMAIN references' : IsReferenceId(i)
    BY <1>0, <2>3
  <2>5. \A i \in reading' : IsReferenceId(i)
    BY <1>0, <2>1
  <2> QED
    BY <1>0, <2>1, <2>3, <2>4, <2>5, MoreRowsTyped
<1>5. ASSUME NEW id \in DOMAIN references, RevokeReference(id)
      PROVE  SecretsTyped'
  BY <1>0, <1>5, RowTyped, MoreRowsTyped DEF RevokeReference
<1>6. ASSUME NEW id \in DOMAIN providers, NEW r \in SecretRefs, NEW i \in GeneratedIntents,
             GrantCustody(id, r, i)
      PROVE  SecretsTyped'
  BY <1>6, SecretAssumption
     DEF GrantCustody, CustodyGrant, SecretsTyped, SecretTypeOK, UseRecords
<1>7. ASSUME NEW x \in custody, KeepGenerated(x)
      PROVE  SecretsTyped'
  <2>1. x.grant.reference \in SecretRefs
    BY DEF SecretsTyped
  <2>2. kept' \in SUBSET SecretRefs
    BY <1>7, <2>1 DEF KeepGenerated, SecretsTyped, SecretTypeOK
  <2>3. \A y \in custody' : y = [grant |-> x.grant, received |-> TRUE]
    BY <1>7 DEF KeepGenerated, SecretsTyped
  <2> QED
    BY <1>7, <2>2, <2>3 DEF KeepGenerated, SecretsTyped, SecretTypeOK, UseRecords
<1>8. ASSUME NEW x \in custody, ReadForGenerated(x)
      PROVE  SecretsTyped'
  <2> DEFINE id == GeneratedCandidate(x.grant)
  <2>1. id = <<id[1]>> /\ IsReferenceContent(id[1])
    BY DEF GeneratedCandidate, IsReferenceContent, SecretsTyped, SecretTypeOK
  <2>2. DOMAIN id = 1..1 /\ Len(id) = 1 /\ 1 \in 1..MaxChain
    BY SecretAssumption DEF GeneratedCandidate
  <2> HIDE DEF id
  <2>3. IsReferenceId(id)
    BY <2>1, <2>2 DEF IsReferenceId
  <2>4. reading' \subseteq {id}
    BY <1>8 DEF ReadForGenerated, id
  <2> QED
    BY <1>8, <2>3, <2>4 DEF ReadForGenerated, SecretsTyped, SecretTypeOK, UseRecords
<1>9. ASSUME NEW c \in Correlations, NEW id \in DOMAIN references, NEW i \in Intents,
             AuthorizeUse(c, id, i)
      PROVE  SecretsTyped'
  <2>1. IsReferenceContent(id[1]) /\ id[1].provider \in DOMAIN providers
    <3>1. 1 \in DOMAIN id /\ IsReferenceId(id)
      BY SecretAssumption DEF SecretsTyped, IsReferenceId
    <3> QED
      BY <1>9, <3>1 DEF IsReferenceId, AuthorizeUse, MayUse, IsActive
  <2>2. UseOf(id, i) \in UseRecords
    BY <2>1 DEF UseOf, UseRecords, Subject, IsReferenceContent
  <2>3. uses' \in [Correlations -> UseRecords \cup {NoUse}]
    BY <1>9, <2>2 DEF AuthorizeUse, SecretsTyped, SecretTypeOK
  <2>4. released \subseteq {x \in Correlations : uses'[x] # NoUse}
    BY <1>9 DEF AuthorizeUse, SecretsTyped, SecretTypeOK
  <2>5. UNCHANGED <<providers, references, reading, custody, kept, released>>
    BY <1>9 DEF AuthorizeUse
  <2> QED
    BY <2>3, <2>4, <2>5 DEF SecretsTyped, SecretTypeOK, UseRecords
<1>10. ASSUME NEW c \in Correlations, ReleaseSecret(c)
       PROVE  SecretsTyped'
  BY <1>10 DEF ReleaseSecret, SecretsTyped, SecretTypeOK, UseRecords
<1>11. CASE UNCHANGED svars
  BY <1>11 DEF svars, SecretsTyped, SecretTypeOK, UseRecords
<1> QED
  BY <1>1, <1>2, <1>3, <1>4, <1>5, <1>6, <1>7, <1>8, <1>9, <1>10, <1>11 DEF SecretNext

\* The registry: rows are admitted and inserted one by one, and a coordinator
\* owns one attempt.
RegistryTyped == RegistryTypeOK /\ IsFiniteSet(admitting)

LEMMA NoRowsAtFirst == RegistryInit => RegistryTyped
<1>1. IsFiniteSet({}) /\ Cardinality({}) = 0
  BY FS_EmptySet
<1>2. 0 <= MaxAdmissions /\ 0 <= 1
  BY RegistryAssumption
<1>3. DOMAIN << >> = {}
  OBVIOUS
<1> QED
  BY <1>1, <1>2, <1>3 DEF RegistryInit, RegistryTyped, RegistryTypeOK

LEMMA StepKeepsRows == RegistryTyped /\ [RegistryNext]_regvars => RegistryTyped'
<1> SUFFICES ASSUME RegistryTyped, [RegistryNext]_regvars PROVE RegistryTyped'
  OBVIOUS
<1> USE DEF RegistryTyped, RegistryTypeOK
<1>1. ASSUME NEW row \in RegistryRows, CheckRow(row)
      PROVE  RegistryTyped'
  <2>1. Cardinality(admitting) \in Nat /\ Cardinality(admitting) < MaxAdmissions
    BY <1>1, FS_CardinalityType DEF CheckRow
  <2>2. /\ IsFiniteSet(admitting')
        /\ Cardinality(admitting') \in {Cardinality(admitting), Cardinality(admitting) + 1}
    BY <1>1, FS_AddElement DEF CheckRow
  <2> QED
    BY <1>1, <2>1, <2>2, RegistryAssumption DEF CheckRow
<1>2. ASSUME NEW row \in RegistryRows, InsertRow(row)
      PROVE  RegistryTyped'
  <2>1. IsFiniteSet(admitting') /\ Cardinality(admitting') = Cardinality(admitting) - 1
    BY <1>2, FS_RemoveElement DEF InsertRow
  <2>2. Cardinality(admitting) \in Nat
    BY FS_CardinalityType
  <2>3. Cardinality(admitting') <= MaxAdmissions
    BY <2>1, <2>2, RegistryAssumption
  <2> QED
    BY <1>2, <2>1, <2>3 DEF InsertRow, WithRow
<1>3. ASSUME NEW row \in RegistryRows, RevokeRow(row)
      PROVE  RegistryTyped'
  BY <1>3 DEF RevokeRow
<1>4. CASE LoadContext \/ Abandon
  BY <1>4, FS_EmptySet DEF LoadContext, Abandon
<1>5. ASSUME NEW x \in Assignments, StartAttempt(x) \/ Dispatch(x) \/ ContinueAttempt(x)
      PROVE  RegistryTyped'
  <2>1. Cardinality({}) = 0 /\ Cardinality({x}) = 1
    BY FS_EmptySet, FS_Singleton
  <2> QED
    BY <1>5, <2>1 DEF StartAttempt, Dispatch, ContinueAttempt
<1>6. CASE UNCHANGED regvars
  BY <1>6 DEF regvars
<1> QED
  BY <1>1, <1>2, <1>3, <1>4, <1>5, <1>6 DEF RegistryNext

\* Node control: a registration of a key's reference counts its changes.
ControlTyped ==
    /\ NodeControlTypeOK
    /\ \A r \in References : held[r].registration <= changes + 1

LEMMA FirstControl == ControlInit => ControlTyped
BY ControlAssumption DEF ControlInit, ControlTyped, NodeControlTypeOK

LEMMA StepKeepsControl ==
    NodeControlInvariant /\ NodeControlInvariant' /\ ControlTyped /\ [ControlNext]_cvars
      => ControlTyped'
<1> SUFFICES ASSUME NodeControlInvariant, NodeControlInvariant', ControlTyped,
                    [ControlNext]_cvars
             PROVE  ControlTyped'
  OBVIOUS
<1>1. commands' \subseteq {attempts'[id] : id \in DOMAIN attempts'}
  BY DEF NodeControlInvariant, Registered
<1>2. \A id \in DOMAIN attempts' :
        attempts'[id].request.id = id /\ IsRequest(attempts'[id].request)
  <2>1. \A id \in DOMAIN attempts' : attempts'[id].request.id = id
    BY DEF NodeControlInvariant, AttemptsRecorded
  <2>2. ASSUME NEW c \in ControlCommands, Prepare(c)
        PROVE  \A id \in DOMAIN attempts' : IsRequest(attempts'[id].request)
    BY <2>2, RequestAssumption DEF Prepare, Added, ControlTyped, NodeControlTypeOK
  <2>3. CASE UNCHANGED attempts
    BY <2>3 DEF ControlTyped, NodeControlTypeOK
  <2> QED
    BY <2>1, <2>2, <2>3 DEF ControlNext, cvars, Replay, Reload, Sign, Arrive, MoveOn,
       ActivateSigner, RevokeSigner, ReplaceHeld, RevokeHeld, ControlTick
<1>3. /\ lineage' \in Revisions
      /\ signing' \in [ControlKeys -> {"active", "verify-only", "revoked"}]
  <2>1. ASSUME NEW k \in ControlKeys, ActivateSigner(k) \/ RevokeSigner(k)
        PROVE  signing' \in [ControlKeys -> {"active", "verify-only", "revoked"}]
    BY <2>1 DEF ActivateSigner, RevokeSigner, ControlTyped, NodeControlTypeOK
  <2>2. ASSUME NEW l \in Revisions, MoveOn(l) PROVE <1>3
    BY <2>2 DEF MoveOn, ControlTyped, NodeControlTypeOK
  <2>3. CASE UNCHANGED <<lineage, signing>>
    BY <2>3 DEF ControlTyped, NodeControlTypeOK
  <2>4. \/ \E k \in ControlKeys : ActivateSigner(k) \/ RevokeSigner(k)
        \/ \E l \in Revisions : MoveOn(l)
        \/ UNCHANGED <<lineage, signing>>
    BY DEF ControlNext, cvars, Replay, Prepare, Reload, Sign, Arrive, ReplaceHeld, RevokeHeld,
           ControlTick
  <2>5. (\E k \in ControlKeys : ActivateSigner(k) \/ RevokeSigner(k)) => UNCHANGED lineage
    BY DEF ActivateSigner, RevokeSigner
  <2>6. lineage \in Revisions
    BY DEF ControlTyped, NodeControlTypeOK
  <2>7. CASE \E k \in ControlKeys : ActivateSigner(k) \/ RevokeSigner(k)
    BY <2>1, <2>5, <2>6, <2>7
  <2>8. CASE \E l \in Revisions : MoveOn(l)
    BY <2>2, <2>8
  <2> QED
    BY <2>3, <2>4, <2>7, <2>8
<1>4. time' \in 0..MaxControlTime /\ changes' \in 0..MaxChanges /\ changes' >= changes
  <2>1. time \in 0..MaxControlTime /\ changes \in 0..MaxChanges
    BY DEF ControlTyped, NodeControlTypeOK
  <2>2. CASE ControlTick
    BY <2>1, <2>2, ControlAssumption DEF ControlTick
  <2>3. CASE Changed /\ UNCHANGED time
    BY <2>1, <2>3, ControlAssumption DEF Changed
  <2>4. CASE UNCHANGED <<time, changes>>
    BY <2>1, <2>4, ControlAssumption
  <2> QED
    BY <2>2, <2>3, <2>4 DEF ControlNext, cvars, Replay, Prepare, Reload, Sign, Arrive, MoveOn,
       ActivateSigner, RevokeSigner, ReplaceHeld, RevokeHeld
<1>5. /\ held' \in [References -> [registration : 1..(MaxChanges + 1), active : BOOLEAN]]
      /\ \A r \in References : held'[r].registration <= changes' + 1
  <2>1. ASSUME NEW r \in References, ReplaceHeld(r) \/ RevokeHeld(r)
        PROVE  <1>5
    <3>1. /\ held \in [References -> [registration : 1..(MaxChanges + 1), active : BOOLEAN]]
          /\ \A x \in References : held[x].registration <= changes + 1
          /\ changes \in Nat /\ changes < MaxChanges /\ changes' = changes + 1
      BY <2>1 DEF ReplaceHeld, RevokeHeld, Changed, ControlTyped, NodeControlTypeOK
    <3>2. CASE ReplaceHeld(r)
      <4> DEFINE new == [registration |-> held[r].registration + 1, active |-> TRUE]
      <4>1. held' = [held EXCEPT ![r] = new]
        BY <3>2 DEF ReplaceHeld
      <4>2. /\ new \in [registration : 1..(MaxChanges + 1), active : BOOLEAN]
            /\ new.registration <= changes + 2
        BY <3>1, ControlAssumption
      <4> HIDE DEF new
      <4> QED
        BY <3>1, <4>1, <4>2, ControlAssumption
    <3>3. CASE RevokeHeld(r)
      <4> DEFINE new == [held[r] EXCEPT !.active = FALSE]
      <4>1. held' = [held EXCEPT ![r] = new]
        BY <3>3 DEF RevokeHeld
      <4>2. /\ new \in [registration : 1..(MaxChanges + 1), active : BOOLEAN]
            /\ new.registration = held[r].registration
        BY <3>1
      <4>3. held[r].registration \in Nat
        BY <3>1
      <4> HIDE DEF new
      <4> QED
        BY <3>1, <4>1, <4>2, <4>3, ControlAssumption
    <3> QED
      BY <2>1, <3>2, <3>3
  <2>2. CASE UNCHANGED held
    BY <1>4, <2>2, ControlAssumption DEF ControlTyped, NodeControlTypeOK
  <2> QED
    BY <2>1, <2>2 DEF ControlNext, cvars, Replay, Prepare, Reload, Sign, Arrive, MoveOn,
       ActivateSigner, RevokeSigner, ControlTick
<1> QED
  BY <1>1, <1>2, <1>3, <1>4, <1>5 DEF ControlTyped, NodeControlTypeOK

\* The plan and the world of a rollout.
LEMMA RolloutTyped == RolloutInvariant => RolloutTypeOK
<1> SUFFICES ASSUME RolloutInvariant PROVE RolloutTypeOK
  OBVIOUS
<1>1. /\ done \subseteq rollout.plan.activities
      /\ direction \in {"forward", "backward"}
      /\ rollout.outcome \in {"failed", "invalid", "review", "executable"}
  BY DEF RolloutInvariant, PlanFollowed, PlanOutcome
<1>2. DOMAIN world.nodes \subseteq DOMAIN rollout.base.nodes \cup DOMAIN rollout.desired.nodes
  <2>1. Having("start-node", done) \subseteq DOMAIN rollout.desired.nodes
    BY DoneFits DEF RolloutInvariant, PlanFollowed, Having, SubjectFits
  <2> QED
    BY <2>1 DEF RolloutInvariant, WorldFollows, NodesAfter, Blend
<1> QED
  BY <1>1, <1>2 DEF RolloutTypeOK

-----------------------------------------------------------------------------
(* The composition.                                                        *)

\* The composition moves one part at a time, so each part keeps its promises in
\* it: secret uses, recorded requests, ingresses, node-control commands, replies, pages,
\* the evidence of effects, and rollouts, with the exceptions each of them names.
THEOREM PlaneKeepsPromises ==
    PlaneSpec => /\ UsesRestOnActive
                 /\ []AttemptsKeepTheirRequest
                 /\ []IngressOutcomesAreTrue
                 /\ []ControlCommandsAreExact
                 /\ []RepliesAreTheCommandsOwn
                 /\ []PagesCoverOnce
                 /\ []EvidenceReadsBack
                 /\ [](RolloutIsSafe /\ RolloutEndsInAGraph /\ RequestsMaterialize)
<1>1. PlaneInit => /\ SecretInit /\ RegistryInit /\ IngressInit /\ ControlInit /\ ReplayInit
                   /\ EvidenceInit
  BY DEF PlaneInit
<1>2. [PlaneNext]_controlVars => [SecretNext]_svars
  BY DEF PlaneNext, controlVars
<1>3. [PlaneNext]_controlVars => [RegistryNext]_regvars
  BY DEF PlaneNext, controlVars
<1>4. [PlaneNext]_controlVars => [IngressNext]_ivars
  BY DEF PlaneNext, controlVars
<1>5. [PlaneNext]_controlVars => [ControlNext]_cvars
  BY DEF PlaneNext, controlVars
<1>6. [PlaneNext]_controlVars => [ReplayNext]_mvars
  BY DEF PlaneNext, controlVars
<1>7. [PlaneNext]_controlVars => [PageNext]_pvars
  BY DEF PlaneNext, controlVars
<1>8. PlaneInit => PageInit
  <2>1. First(PagedCollections) \in PagedCollections
    BY CollectionsAssumption DEF First
  <2> QED
    BY <2>1 DEF PlaneInit, PageInit
<1>9. [PlaneNext]_controlVars => [EvidenceNext]_evars
  BY DEF PlaneNext, controlVars
<1>10. PlaneSpec => /\ SecretSpec /\ RegistrySpec /\ IngressSpec
                    /\ NodeControlSpec /\ ReplaySpec /\ PageSpec /\ EvidenceSpec
  BY <1>1, <1>2, <1>3, <1>4, <1>5, <1>6, <1>7, <1>8, <1>9, PTL
     DEF PlaneSpec, SecretSpec, RegistrySpec, IngressSpec, NodeControlSpec, ReplaySpec,
         PageSpec, EvidenceSpec
<1>11. PlaneInit => RolloutInvariant
  <2>1. RolloutInitOf(EmptyGraph, EmptyGraph) => RolloutInvariant
    BY FirstRollout, EmptySound
  <2> QED
    BY <2>1, FirstRolloutOf DEF PlaneInit
<1>12. [PlaneNext]_controlVars => [RolloutNext]_rvars
  BY DEF PlaneNext, controlVars
<1>13. PlaneSpec => [](RolloutIsSafe /\ RolloutEndsInAGraph /\ RequestsMaterialize)
  BY <1>11, <1>12, StepKeepsRollout, InvariantIsSafe, InvariantEnds, InvariantMaterializes, PTL
     DEF PlaneSpec
<1> QED
  BY <1>10, <1>13, UsesRest, RequestsAreKept, OutcomesAreTrue, CommandsExact, RepliesOwn,
     PagesCover, EvidenceAlwaysReadsBack

\* In every state of the composition every part's rows and records have the
\* shape their tables and constructors give them, a value was released only
\* for a correlation whose use is recorded, and what is signed is the attempt
\* of the table.
THEOREM PlaneTypes == PlaneSpec => []ControlTypeOK
<1>1. PlaneInit => /\ SecretsTyped /\ RegistryTyped /\ IngressInvariant
                   /\ NodeControlInvariant /\ ControlTyped /\ EvidenceInvariant
  BY FirstSecrets, NoRowsAtFirst, FirstIngress, FirstCommands, FirstControl, EvidenceStarts
     DEF PlaneInit
<1>2. PlaneInit => PageInvariant
  <2>1. First(PagedCollections) \in PagedCollections
    BY CollectionsAssumption DEF First
  <2> QED
    BY <2>1, FirstPages DEF PlaneInit, PageInit
<1>3. PlaneInit => RolloutInvariant
  <2>1. RolloutInitOf(EmptyGraph, EmptyGraph) => RolloutInvariant
    BY FirstRollout, EmptySound
  <2> QED
    BY <2>1, FirstRolloutOf DEF PlaneInit
<1>4. [PlaneNext]_controlVars =>
         /\ [SecretNext]_svars /\ [RegistryNext]_regvars /\ [RolloutNext]_rvars
         /\ [IngressNext]_ivars /\ [ControlNext]_cvars /\ [PageNext]_pvars
         /\ [EvidenceNext]_evars
  BY DEF PlaneNext, controlVars
<1>5. /\ SecretsTyped => SecretTypeOK
      /\ RegistryTyped => RegistryTypeOK
      /\ RolloutInvariant => RolloutTypeOK
      /\ IngressInvariant => IngressTypeOK
      /\ ControlTyped => NodeControlTypeOK
      /\ PageInvariant => PageTypeOK
      /\ EvidenceInvariant => EvidenceTypeOK
  BY RolloutTyped DEF SecretsTyped, RegistryTyped, IngressInvariant, ControlTyped,
     PageInvariant, EvidenceInvariant
<1>6. PlaneSpec => [](SecretsTyped /\ RegistryTyped /\ RolloutInvariant)
  BY <1>1, <1>3, <1>4, StepKeepsSecrets, StepKeepsRows, StepKeepsRollout, PTL DEF PlaneSpec
<1>7. PlaneSpec => [](IngressInvariant /\ PageInvariant /\ EvidenceInvariant)
  BY <1>1, <1>2, <1>4, StepKeepsIngress, StepKeepsPages, EvidenceSteps, PTL DEF PlaneSpec
<1>8. PlaneSpec => [](NodeControlInvariant /\ ControlTyped)
  BY <1>1, <1>4, StepKeepsCommands, StepKeepsControl, PTL DEF PlaneSpec
<1>9. SecretsTyped /\ RegistryTyped /\ RolloutInvariant /\ IngressInvariant /\ PageInvariant
         /\ EvidenceInvariant /\ ControlTyped => ControlTypeOK
  BY <1>5 DEF ControlTypeOK
<1> QED
  BY <1>6, <1>7, <1>8, <1>9, PTL

=============================================================================
