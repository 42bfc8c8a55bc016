------------------------- MODULE CredentialsInjector -------------------------
(***************************************************************************)
(* azure-config-credentials-injector, the init container of the Azure      *)
(* pods: it reads the keys of the credentials Secret, each a file, one     *)
(* after the other, and writes cloud.conf with the credentials in it.  The *)
(* kubelet may replace the mounted files between two reads.                *)
(***************************************************************************)
EXTENDS CloudTransformers

\* The files, in the order in which they are read.
CredentialFiles == <<"azure_client_id", "azure_client_secret",
                     "azure_federated_token_file", "azure_tenant_id">>

\* Mutant of Complete: workload identity does not need a tenant.
CompleteTenantless(files) ==
  /\ "azure_client_id" \in DOMAIN files
  /\ IF "azure_federated_token_file" \in DOMAIN files
     THEN "azure_client_secret" \notin DOMAIN files
     ELSE "azure_client_secret" \in DOMAIN files

\* mergeCloudConfig goes on with these files: a client id, and a federated token
\* with a tenant or else a client secret, never both.
Complete(files) ==
  /\ "azure_client_id" \in DOMAIN files
  /\ IF "azure_federated_token_file" \in DOMAIN files
     THEN "azure_client_secret" \notin DOMAIN files /\ "azure_tenant_id" \in DOMAIN files
     ELSE "azure_client_secret" \in DOMAIN files

\* prepareCloudConfig; the identity extension is switched off where the
\* Deployment passes --disable-identity-extension-auth.
prepareCloudConfig(conf, files, disableIdentityExtensionAuth) ==
  LET id == files["azure_client_id"]
      key == "useManagedIdentityExtension"
      base == IF key \in DOMAIN conf /\ disableIdentityExtensionAuth
              THEN [conf EXCEPT ![key] = FALSE] ELSE conf
      token == Get(files, "azure_federated_token_file")
      tenant == Get(files, "azure_tenant_id")
  IN  IF tenant # "" /\ token # ""
      THEN Over([aadClientId |-> id, tenantId |-> tenant, aadFederatedTokenFile |-> token,
                 useFederatedWorkloadIdentityExtension |-> TRUE], base)
      ELSE Over([aadClientId |-> id, aadClientSecret |-> Get(files, "azure_client_secret")], base)
=============================================================================
