----------------------------- MODULE AssetTrust -----------------------------
(***************************************************************************)
(* The pure decision of asset-trust.ts: which manifests and policies parse *)
(* and which manifest a policy accepts.  A manifest is a local assertion   *)
(* about one asset on one rail; a policy names what its owner tolerates.   *)
(* DisclosedBoolean is "true", "false" or "unknown"; an asset identifier   *)
(* is a record that carries its CAIP-2 chain; arrays whose order and       *)
(* repetition parsing refuses to matter are sets.                          *)
(***************************************************************************)
EXTENDS Integers, Sequences, FiniteSets

Disclosed == {"true", "false", "unknown"}

SettlementModels ==
    {"layer-1-proof-of-work", "layer-1-proof-of-stake", "optimistic-rollup",
     "zk-rollup", "federated-consensus", "regulated-ledger", "other", "unknown"}

FinalityModels ==
    {"probabilistic", "economic", "deterministic", "provider-attested", "unknown"}

ProviderRoles == {"none", "issuer", "settlement", "custody", "multiple", "unknown"}

IssuerControls == {"mint", "freeze", "denylist", "pause", "upgrade"}

BridgeDependencies == {"none", "canonical", "third-party", "multiple", "unknown"}

IdentityRequirements ==
    {"none", "issuance-redemption", "provider-account", "transaction", "unknown"}

CustodyModels ==
    {"self-custody-capable", "provider-custody-required", "mixed", "unknown"}

EgressCategories ==
    {"none", "public-ledger", "peer-network", "sequencer-operator",
     "third-party-infrastructure", "regulated-provider", "unknown"}

Known(values) == values \ {"unknown"}

MaxEvidence == 16

-----------------------------------------------------------------------------
(* Parsing. *)

(* A disclosed provider role agrees with whether a provider is required. *)
ProviderConsistent(m) ==
    /\ m.provider_required = "false" => m.provider_role = "none"
    /\ m.provider_required = "true" => m.provider_role \notin {"none", "unknown"}
    /\ m.provider_required = "unknown" => m.provider_role = "unknown"
    /\ m.settlement_model = "regulated-ledger" => m.provider_required = "true"

(* "none" stands alone, and something is always disclosed. *)
EgressConsistent(m) ==
    /\ m.egress # {}
    /\ "none" \in m.egress => m.egress = {"none"}

(* Evidence is bounded and cites each digest once. *)
EvidenceConsistent(m) ==
    /\ Len(m.evidence) <= MaxEvidence
    /\ \A i, j \in DOMAIN m.evidence :
           m.evidence[i].sha256 = m.evidence[j].sha256 => i = j
    /\ \A i \in DOMAIN m.evidence :
           m.evidence[i].url \in {"absent", "https"}

ValidManifest(m) ==
    /\ m.chain_id = m.asset_id.chain
    /\ m.settlement_model \in SettlementModels
    /\ m.finality \in FinalityModels
    /\ m.provider_role \in ProviderRoles
    /\ {m.single_sequencer, m.provider_required, m.self_hostable_read,
        m.self_hostable_broadcast} \subseteq Disclosed
    /\ m.issuer_controls \in [IssuerControls -> Disclosed]
    /\ m.bridge \in BridgeDependencies
    /\ m.identity \in IdentityRequirements
    /\ m.custody \in CustodyModels
    /\ m.egress \subseteq EgressCategories
    /\ ProviderConsistent(m)
    /\ EgressConsistent(m)
    /\ EvidenceConsistent(m)

FailClosed ==
    [policy_id |-> "cashloom-local-fail-closed/v2",
     settlement_models |-> {"layer-1-proof-of-work", "layer-1-proof-of-stake"},
     finality_models |-> {"probabilistic", "economic", "deterministic"},
     rejects |-> {"single_sequencer", "provider", "identity", "unknown",
                  "unhostable_read", "unhostable_broadcast"},
     denied_controls |-> IssuerControls,
     bridges |-> {"none"},
     custody |-> {"self-custody-capable"},
     egress |-> {"none", "public-ledger", "peer-network"}]

(* A policy lists only known values, and its reserved name has one content. *)
ValidPolicy(p) ==
    /\ p.settlement_models \subseteq Known(SettlementModels)
    /\ p.finality_models \subseteq Known(FinalityModels)
    /\ p.rejects \subseteq FailClosed.rejects
    /\ p.denied_controls \subseteq IssuerControls
    /\ p.bridges \subseteq Known(BridgeDependencies)
    /\ p.custody \subseteq Known(CustodyModels)
    /\ p.egress \subseteq Known(EgressCategories)
    /\ p.policy_id = FailClosed.policy_id => p = FailClosed

(* The content identity of a policy: equal exactly for equal policies. *)
PolicyHash(p) == <<"sha256", p>>

-----------------------------------------------------------------------------
(* Evaluation. *)

(* The paths at which a manifest discloses nothing. *)
Undisclosed(m) ==
    {f \in {"settlement_model", "finality", "single_sequencer",
            "provider_required", "provider_role", "bridge", "identity",
            "custody", "self_hostable_read", "self_hostable_broadcast"} :
        m[f] = "unknown"}
      \cup {c \in IssuerControls : m.issuer_controls[c] = "unknown"}
      \cup {e \in m.egress : e = "unknown"}

(* One finding per rule the manifest breaks; an "unknown" breaks only the *)
(* rule about unknowns, and only under a policy that has it.              *)
Findings(m, p) ==
    {f \in {"settlement-model", "finality-model", "single-sequencer",
            "regulated-provider", "issuer-control", "identity-required",
            "non-self-hostable-read", "non-self-hostable-broadcast",
            "bridge-dependency", "custody-model", "data-egress", "unknown"} :
       \/ /\ f = "settlement-model"
          /\ m.settlement_model \notin p.settlement_models \cup {"unknown"}
       \/ /\ f = "finality-model"
          /\ m.finality \notin p.finality_models \cup {"unknown"}
       \/ /\ f = "single-sequencer"
          /\ m.single_sequencer = "true" /\ "single_sequencer" \in p.rejects
       \/ /\ f = "regulated-provider"
          /\ m.provider_required = "true" /\ "provider" \in p.rejects
       \/ /\ f = "issuer-control"
          /\ \E c \in p.denied_controls : m.issuer_controls[c] = "true"
       \/ /\ f = "identity-required"
          /\ m.identity \notin {"none", "unknown"} /\ "identity" \in p.rejects
       \/ /\ f = "non-self-hostable-read"
          /\ m.self_hostable_read = "false" /\ "unhostable_read" \in p.rejects
       \/ /\ f = "non-self-hostable-broadcast"
          /\ m.self_hostable_broadcast = "false"
          /\ "unhostable_broadcast" \in p.rejects
       \/ /\ f = "bridge-dependency"
          /\ m.bridge \notin p.bridges \cup {"unknown"}
       \/ /\ f = "custody-model"
          /\ m.custody \notin p.custody \cup {"unknown"}
       \/ /\ f = "data-egress"
          /\ m.egress \ (p.egress \cup {"unknown"}) # {}
       \/ /\ f = "unknown"
          /\ Undisclosed(m) # {} /\ "unknown" \in p.rejects}

(* evaluateAssetTrust parses both inputs again before it decides. *)
Accepted(m, p) ==
    /\ ValidManifest(m)
    /\ ValidPolicy(p)
    /\ Findings(m, p) = {}

=============================================================================
