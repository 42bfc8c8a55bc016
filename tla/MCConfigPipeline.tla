-------------------------- MODULE MCConfigPipeline --------------------------
(* A small instance of ConfigPipeline: every branch of the transformers and  *)
(* of the injector has an input.                                             *)
EXTENDS ConfigPipeline, TLC

\* The ids of service overrides are numbers, their sections sorted as text.
MCSectionNames == <<"Global", "1", "10", "2">>

MCPlatforms ==
  {[type |-> "AWS", cloudName |-> ""], [type |-> "OpenStack", cloudName |-> ""]} \cup
  {[type |-> "Azure", cloudName |-> c] :
     c \in {"nil", "", "AzureUSGovernmentCloud", "AzureStackCloud", "bogus"}}

Ini(global, overrides) == [form |-> "ini", global |-> global, overrides |-> overrides]
Override == [Service |-> "ec2"]
Probe == "ClusterServiceLoadBalancerHealthProbeMode"

MCAWSSources ==
  {[form |-> "empty"], [form |-> "unparsable"],
   Ini(Probe :> "", [i \in {"1", "2", "10"} |-> Override]),
   Ini(Probe :> "ServiceNodePort" @@ "NLBSecurityGroupMode" :> "Other"
         @@ "DisableSecurityGroupIngress" :> "true"
         @@ "NodeIPFamilies" :> <<"ipv6", "ipv4", "ipv6">>, << >>)}

Json(keys) == [form |-> "json", keys |-> keys]

MCAzureSources ==
  {[form |-> "empty"], Json(<< >>),
   Json("cloud" :> "AZUREPUBLICCLOUD" @@ "vmType" :> "vmss" @@ "unknown" :> "x"),
   Json("cloud" :> "AzureUSGovernmentCloud" @@ "vmType" :> ""
          @@ "aadClientSecret" :> "own" @@ "useManagedIdentityExtension" :> TRUE)}

Sections(s) == [form |-> "ini", sections |-> s]
LegacyGlobal == "secret-name" :> "openstack-credentials" @@ "secret-namespace" :> "kube-system"

MCOpenStackSources ==
  {[form |-> "empty"], [form |-> "unparsable"],
   Sections("Global" :> ("secret-name" :> "mine" @@ "secret-namespace" :> "kube-system")),
   Sections("Global" :> CloudsKeys @@ "LoadBalancer" :> createLoadBalancerSection),
   Sections("Global" :> (LegacyGlobal @@ "region" :> "r") @@ "BlockStorage" :> ("a" :> "b")
              @@ "LoadBalancer" :> ("use-octavia" :> "true" @@ "max-shared-lb" :> "5")
              @@ "Networking" :> ("n" :> "m"))}

MCSourcesOf(p) ==
  CASE p.type = "AWS"   -> MCAWSSources
    [] p.type = "Azure" -> MCAzureSources
    [] OTHER            -> MCOpenStackSources

\* What the injector does depends on Azure Stack Hub alone, not on the cloud.
MCSecretsOf(p) ==
  CASE p.type = "AWS"       -> {<< >>}
    [] p.type = "OpenStack" -> {"clouds.yaml" :> c : c \in {"a", "b"}}
    [] p.cloudName \in {"nil", "bogus", "AzureUSGovernmentCloud"} ->
       {"azure_client_id" :> i @@ "azure_client_secret" :> "s" : i \in {"i", "j"}}
    [] OTHER ->
       {"azure_client_id" :> "i" @@ "azure_client_secret" :> "s",
        "azure_client_id" :> "i" @@ "azure_tenant_id" :> "t" @@ "azure_federated_token_file" :> "f",
        "azure_client_id" :> "j" @@ "azure_federated_token_file" :> "f",
        "azure_client_id" :> "i" @@ "azure_tenant_id" :> "t" @@ "azure_federated_token_file" :> "",
        "azure_client_secret" :> "s"}

\* A bundle is a list of certificates.
MCFirstBundle == <<"ca1">>
MCBundles == {MCFirstBundle, <<"ca1", "ca2">>}

MCFeatureSets == {{}, {"AWSServiceLBNetworkSecurityGroup"}}
=============================================================================
