------------------------------ MODULE Products -------------------------------
(***************************************************************************)
(* External products (core products.py): the laws of a product's runtime   *)
(* contract, catalogues, the configuration of one instance, and its        *)
(* instantiation as a block of a topology.                                 *)
(*                                                                         *)
(* A product is [identity, image, contract].  A digest stands for the      *)
(* product whose canonical document it is the digest of.  A secret         *)
(* delivery is [target, intent, reference], a configuration artifact       *)
(* [id, path, content], a verification check [id, socket, kind, password]. *)
(***************************************************************************)
EXTENDS Topology

CONSTANT Descriptor    \* the products, by the digest of their documents

(***************************************************************************)
(* Contracts.                                                              *)
(***************************************************************************)
\* ProviderRuntimePort, _validate_provider_ports.
PortsValid(c) ==
    /\ DOMAIN c.ports \subseteq DOMAIN c.providers
    /\ \A s \in DOMAIN c.ports : c.ports[s] \in 1..65535

\* ResourceLifecycle, RetainedDataMount, _validate_lifecycle_distinctions: only
\* an owned product has data, mounts are of it, and it is not an artifact.
MountsValid(c) ==
    /\ c.lifecycle.ownership # "owned" => c.data = {}
    /\ c.data \cap {x.id : x \in c.artifacts} = {}
    /\ \A m \in c.mounts : m.resource \in c.data
    /\ \A m, n \in c.mounts : m.resource = n.resource \/ m.path = n.path => m = n

ExpectedProtocols(check) ==
    CASE check.kind = "dns-resolve" -> {"dns-tcp", "dns-udp"}
      [] check.kind = "broker-round-trip" -> {"nats", "amqp", "kafka"}
      [] check.kind = "object-storage-round-trip" -> {"s3"}
      [] check.kind = "smtp-acceptance" -> {"smtp"}
      [] OTHER -> {check.kind}

ChecksValid(c) ==
    \A k \in c.verification :
        k.socket \in DOMAIN c.providers /\ c.providers[k.socket] \in ExpectedProtocols(k)

\* A product is node-controllable when it has control surfaces, over http.
SurfacesValid(c) ==
    /\ "node-controllable" \in c.capabilities <=> c.surfaces # {}
    /\ \A s \in c.surfaces : s \in DOMAIN c.providers /\ c.providers[s] = "http"

ArtifactsValid(c) ==
    \A x, y \in c.artifacts : x.id = y.id \/ x.path = y.path => x = y

IsContract(c) ==
    /\ c.lifecycle \in Lifecycles
    /\ PortsValid(c) /\ MountsValid(c) /\ ChecksValid(c)
    /\ SurfacesValid(c) /\ ArtifactsValid(c)

ASSUME ProductAssumption == \A d \in DOMAIN Descriptor : IsContract(Descriptor[d].contract)

(***************************************************************************)
(* Catalogues: sets of digests.                                            *)
(***************************************************************************)
IsCatalogue(digests) ==
    \A d, e \in digests : Descriptor[d].identity = Descriptor[e].identity => d = e

\* lookup; without the identity there is no such product.
Lookup(digests, identity) == CHOOSE d \in digests : Descriptor[d].identity = identity

(***************************************************************************)
(* Instances.                                                              *)
(***************************************************************************)
\* A configuration is [environment, artifacts, deliveries, required]: values
\* for what the contract names, required holding the deliveries of every
\* requirement socket.  from_contract takes everything as it is.
FromContract(c) ==
    [environment |-> c.environment, artifacts |-> c.artifacts,
     deliveries |-> c.deliveries,
     required |-> [r \in DOMAIN c.requirements |-> c.requirements[r].deliveries]]

\* _secret_delivery_contract_key, _configuration_artifact_keys.
DeliveryKey(d) == <<d.target, d.intent>>
ArtifactKey(x) == <<x.id, x.path>>

\* _require_same_keys: the same keys, each as often.
SameKeys(S, T, Key(_)) ==
    \A k \in {Key(x) : x \in S \cup T} :
        Cardinality({x \in S : Key(x) = k}) = Cardinality({x \in T : Key(x) = k})

\* _validate_instance_configuration: an instance may choose the values, the
\* contents and the references, not what there is to choose.
ConfigurationFits(c, config) ==
    /\ DOMAIN config.environment = DOMAIN c.environment
    /\ SameKeys(c.artifacts, config.artifacts, ArtifactKey)
    /\ SameKeys(c.deliveries, config.deliveries, DeliveryKey)
    /\ DOMAIN config.required = DOMAIN c.requirements
    /\ \A r \in DOMAIN c.requirements :
         SameKeys(c.requirements[r].deliveries, config.required[r], DeliveryKey)

ConfiguredRequirements(c, config) ==
    [r \in DOMAIN c.requirements |->
        [c.requirements[r] EXCEPT !.deliveries = config.required[r]]]

\* _private_endpoint.
PrivateEndpoint(role, socket, c) ==
    [url |-> IF socket \in DOMAIN c.ports
             THEN [host |-> <<role>>, port |-> c.ports[socket]]
             ELSE [host |-> <<role, socket>>, port |-> 0],
     protocol |-> c.providers[socket]]

\* _instantiate_document, and what materialize makes of it in any runtime.
Instance(digest, role, config) ==
    LET product == Descriptor[digest]
        c == product.contract
    IN [id |-> role, family |-> "application", kind |-> "oci-container",
        providers |-> c.providers,
        requirements |-> ConfiguredRequirements(c, config),
        endpoints |-> [s \in DOMAIN c.providers |-> PrivateEndpoint(role, s, c)],
        lifecycle |-> c.lifecycle,
        deliveries |-> config.deliveries,
        fields |->
            "block-specification" :> [capabilities |-> c.capabilities,
                                      surfaces |-> c.surfaces,
                                      verification |-> c.verification]
            @@ "public-environment" :> config.environment
            @@ "node-metadata" :> [identity |-> product.identity, digest |-> digest]
            @@ "configuration-artifacts" :> config.artifacts
            @@ "delegation-verifier-projection" :> "none"]

\* instantiate_catalog_product: one block, or none when it is refused.
Instantiations(digests, identity, role, config) ==
    {Instance(d, role, config) : d \in {d \in digests :
        /\ IsCatalogue(digests)
        /\ Descriptor[d].identity = identity
        /\ ConfigurationFits(Descriptor[d].contract, config)}}

=============================================================================
