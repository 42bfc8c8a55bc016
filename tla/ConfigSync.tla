----------------------------- MODULE ConfigSync -----------------------------
(***************************************************************************)
(* The data path of the config-sync process.                               *)
(*                                                                         *)
(*   CloudConfigReconciler     Infrastructure, Network and a source        *)
(*                             ConfigMap   ->  cloud-conf                  *)
(*   TrustedCABundleReconciler Proxy, its CA ConfigMap, the CA in          *)
(*                             cloud-conf  ->  ccm-trusted-ca              *)
(*                                                                         *)
(* Both read from informer caches that lag, each object on its own, and    *)
(* react to events; the output of the first is an input of the second.     *)
(* The conditions they report are the business of StatusSync.              *)
(***************************************************************************)
EXTENDS Integers, Sequences

CONSTANTS
    Infras,         \* what the Infrastructure may say, see Infra
    Sources,        \* contents a source ConfigMap may have
    CAs,            \* contents the proxy's CA ConfigMap may have
    Starts,         \* the inputs there may be when the process starts
    FaultKinds,     \* "change", "gate", "edit", "delete", "read", "write", "crash"
    MaxFaults       \* bound on what others and failures do

Missing == << >>      \* no such key in a ConfigMap
NoCA == "noCA"        \* no CA key in a ConfigMap
System == "system"    \* the system trust bundle

(* A ConfigMap of the cloud config.  conf is the value under cloud.conf,   *)
(* keyed the one under "config"; both are sequences: a configuration, and  *)
(* what it has been transformed with.  imm is the immutable flag.          *)
NotFound == [exists |-> FALSE, conf |-> Missing, keyed |-> Missing, ca |-> NoCA, imm |-> FALSE]

(* The Infrastructure: whether its platform needs a cloud config, looks in *)
(* kube-cloud-config first (AWS, Azure) and has a transformer; whether     *)
(* spec.cloudConfig.name is set, and spec.cloudConfig.key to "config".     *)
Infra == [sync : BOOLEAN, managed : BOOLEAN, transforms : BOOLEAN,
          named : BOOLEAN, keyed : BOOLEAN]

ASSUME InfrasAssumption == Infras \subseteq Infra

ASSUME BoundsAssumption == MaxFaults \in Nat

ASSUME SourcesAssumption == \A s \in Sources : s.exists /\ DOMAIN s = DOMAIN NotFound

Network == {"net1", "net2"}

(* The inputs that change: kube-cloud-config, the ConfigMap the            *)
(* Infrastructure names, the Network, the Proxy's trustedCA, the ConfigMap *)
(* of that name, and the feature gates.                                    *)
Input == {"managed", "user", "network", "proxy", "userCA", "features"}

ValueOf(i) ==
    CASE i \in {"managed", "user"} -> Sources \cup {NotFound}
      [] i = "network" -> Network
      [] i = "proxy"   -> {"absent", "unset", "userCA"}
      [] i = "userCA"  -> CAs \cup {"absent"}
      [] i = "features" -> {"gateOff", "gateOn"}

ASSUME StartsAssumption ==
    \A s \in Starts : DOMAIN s = Input /\ \A i \in Input : s[i] \in ValueOf(i)

VARIABLES
    infra,        \* the Infrastructure, fixed
    input,        \* the inputs in the API server
    inputSeen,    \* the informers' copies
    cloudConf,    \* cloud-conf in the API server
    cloudConfSeen,
    bundle,       \* ccm-trusted-ca: a sequence of CAs, empty when absent
    bundleSeen,
    version,      \* the resourceVersion of cloud-conf
    versionSeen,  \* that of the informer's copy
    pc,           \* per reconciler: where Reconcile stands
    queue,        \* per reconciler: pending requests
    job,          \* per reconciler: what the running Reconcile holds
    report,       \* per reconciler: the condition it last set
    news,         \* the objects with an event that is still to be delivered
    missed,       \* history: a failure or change that no request follows
    faults

inputVars == <<input, inputSeen>>
confVars == <<cloudConf, version>>
confSeenVars == <<cloudConfSeen, versionSeen>>
bundleVars == <<bundle, bundleSeen>>
vars == <<infra, inputVars, confVars, confSeenVars, bundleVars, pc, queue, job, report,
          news, missed, faults>>

Reconciler == {"CloudConfig", "TrustedCA"}
CC == "CloudConfig"
CA == "TrustedCA"

(* Requests: the name of a ConfigMap in openshift-config, or "own" for     *)
(* everything else.  CloudConfigReconciler does not look at them.          *)
Request == {"user", "userCA", "own"}

NoJob == << >>

TypeOK ==
    /\ infra \in Infras
    /\ DOMAIN input = Input /\ DOMAIN inputSeen = Input
    /\ \A i \in Input : input[i] \in ValueOf(i) /\ inputSeen[i] \in ValueOf(i)
    /\ DOMAIN cloudConf = DOMAIN NotFound /\ DOMAIN cloudConfSeen = DOMAIN NotFound
    /\ version \in Nat /\ versionSeen \in 0..version
    /\ pc \in [Reconciler -> {"idle", "target", "merge", "write"}]
    /\ pc[CC] # "merge" /\ pc[CA] # "target"
    /\ queue \in [Reconciler -> SUBSET Request]
    /\ DOMAIN job = Reconciler
    /\ \A q \in Reconciler :
          IF pc[q] = "idle" THEN job[q] = NoJob
          ELSE job[q] # NoJob /\ job[q].request \in Request
    /\ report \in [Reconciler -> {"none", "Available", "Degraded"}]
    /\ news \subseteq Input \cup {"cloudConf", "bundle"} /\ missed \in BOOLEAN
    /\ faults \in 0..MaxFaults

(* The requests made of given objects, when informers list them.           *)
Listed(in, conf, ccmCA) ==
    [r \in Reconciler |->
       IF r = CC THEN {"own"}
       ELSE {k \in Request :
               \/ k = "user" /\ in["user"].exists
               \/ k = "userCA" /\ in["userCA"] # "absent"
               \/ k = "own" /\ (in["proxy"] # "absent" \/ conf.exists \/ ccmCA # << >>)}]

Init ==
    /\ infra \in Infras
    /\ input \in Starts
    /\ inputSeen = input
    /\ cloudConf = NotFound /\ cloudConfSeen = NotFound
    /\ bundle = << >> /\ bundleSeen = << >>
    /\ version = 0 /\ versionSeen = 0
    /\ pc = [r \in Reconciler |-> "idle"]
    /\ queue = Listed(input, cloudConf, bundle)
    /\ job = [r \in Reconciler |-> NoJob]
    /\ news = {} /\ missed = FALSE
    /\ report = [r \in Reconciler |-> "none"]
    /\ faults = 0

Fault(kind) ==
    /\ kind \in FaultKinds /\ faults < MaxFaults
    /\ faults' = faults + 1

-----------------------------------------------------------------------------
(* Reconcilers return with a condition set; an error requeues the request. *)

Return(r, condition) ==
    /\ pc' = [pc EXCEPT ![r] = "idle"]
    /\ job' = [job EXCEPT ![r] = NoJob]
    /\ report' = [report EXCEPT ![r] = condition]

ReturnAvailable(r) == Return(r, "Available") /\ UNCHANGED queue

ReturnError(r) ==
    /\ Return(r, "Degraded")
    /\ queue' = [queue EXCEPT ![r] = @ \cup {job[r].request}]

Goto(r, label, held) ==
    /\ pc' = [pc EXCEPT ![r] = label]
    /\ job' = [job EXCEPT ![r] = held]
    /\ UNCHANGED report

(* The reading of the inputs or of cloud-conf fails, or the system's trust *)
(* bundle is unreadable.                                                   *)
ReadFails(r) ==
    /\ Fault("read")
    /\ \/ pc[r] = "idle" /\ queue[r] # {} /\ Return(r, "Degraded") /\ UNCHANGED queue
       \/ pc[r] = "target" /\ ReturnError(r)
    /\ UNCHANGED <<infra, inputVars, confVars, confSeenVars, bundleVars, news, missed>>

-----------------------------------------------------------------------------
(* CloudConfigReconciler                                                   *)

(* Where the configuration comes from: the managed ConfigMap, else the one *)
(* the Infrastructure names, else nothing, which reads as an empty one.    *)
SourceConfigMap(in) ==
    CASE infra.managed /\ in["managed"].exists -> in["managed"]
      [] infra.named /\ ~(infra.managed /\ in["managed"].exists) -> in["user"]
      [] OTHER -> NotFound

(* A ConfigMap with cloud.conf is taken as it is; otherwise the value      *)
(* under the Infrastructure's key is moved there; without a key it is "".  *)
prepareSourceConfigMap(cm) ==
    IF cm.conf # Missing THEN cm
    ELSE IF infra.keyed THEN [cm EXCEPT !.conf = cm.keyed, !.keyed = Missing]
    ELSE [cm EXCEPT !.conf = <<"">>]

PrepareFails(cm) == cm.conf = Missing /\ infra.keyed /\ cm.keyed = Missing

(* The transformer makes a configuration from the one given, the Network   *)
(* and the feature gates, and refuses one it cannot parse.                 *)
Transform(cm, network, features) ==
    [cm EXCEPT !.conf = IF infra.transforms THEN cm.conf \o <<network, features>> ELSE cm.conf]

TransformFails(cm) == infra.transforms /\ cm.conf = <<"broken">>

ConfigFails(in) ==
    LET cm == SourceConfigMap(in) IN
    PrepareFails(cm) \/ TransformFails(prepareSourceConfigMap(cm))

(* What cloud-conf should be, from given inputs.                           *)
Config(in) ==
    [Transform(prepareSourceConfigMap(SourceConfigMap(in)), in["network"], in["features"])
       EXCEPT !.exists = TRUE]

(* The immutable flags are compared as pointers: equal only when both nil. *)
isCloudConfigEqual(source, target) == ~source.imm /\ ~target.imm /\ source = target

CloudConfigReconcile ==
    /\ pc[CC] = "idle" /\ queue[CC] # {}
    /\ \/ /\ ~infra.sync
          /\ Return(CC, "Available")
          /\ queue' = [queue EXCEPT ![CC] = {}]
       \/ /\ infra.sync /\ ConfigFails(inputSeen)
          /\ Return(CC, "Degraded")
          /\ UNCHANGED queue
       \/ /\ infra.sync /\ ~ConfigFails(inputSeen)
          /\ Goto(CC, "target", [request |-> "own", conf |-> Config(inputSeen)])
          /\ queue' = [queue EXCEPT ![CC] = {}]
    /\ UNCHANGED <<infra, inputVars, confVars, confSeenVars, bundleVars, news, missed, faults>>

(* The job then holds the copy of cloud-conf that is to be written over.   *)
GetTarget ==
    /\ pc[CC] = "target"
    /\ \/ /\ isCloudConfigEqual(job[CC].conf, cloudConfSeen)
          /\ ReturnAvailable(CC)
       \/ /\ ~isCloudConfigEqual(job[CC].conf, cloudConfSeen)
          /\ Goto(CC, "write", [request |-> job[CC].request, conf |-> job[CC].conf,
                                old |-> cloudConfSeen, version |-> versionSeen])
          /\ UNCHANGED queue
    /\ UNCHANGED <<infra, inputVars, confVars, confSeenVars, bundleVars, news, missed, faults>>

StoreConf(c) ==
    /\ cloudConf' = c
    /\ version' = IF c = cloudConf THEN version ELSE version + 1
    /\ news' = IF c = cloudConf THEN news ELSE news \cup {"cloudConf"}

StoreBundle(b) ==
    /\ bundle' = b
    /\ news' = IF b = bundle THEN news ELSE news \cup {"bundle"}

(* The answer of the API server.  Which call it is depends on a second Get *)
(* of cloud-conf; the object sent carries the version of the first.        *)
SyncAccepted ==
    IF cloudConfSeen.exists
    THEN /\ cloudConf.exists
         /\ job[CC].old.exists => job[CC].version = version
         /\ cloudConf.imm => job[CC].conf = cloudConf
    ELSE ~job[CC].old.exists /\ ~cloudConf.exists

syncCloudConfigData ==
    /\ pc[CC] = "write"
    /\ \/ SyncAccepted /\ StoreConf(job[CC].conf) /\ ReturnAvailable(CC)
       \/ ~SyncAccepted /\ ReturnError(CC) /\ UNCHANGED <<confVars, news>>
    /\ UNCHANGED <<infra, inputVars, confSeenVars, bundleVars, missed, faults>>

(* The write fails and changes nothing.                                    *)
WriteFails(r) ==
    /\ pc[r] = "write"
    /\ Fault("write")
    /\ ReturnError(r)
    /\ UNCHANGED <<infra, inputVars, confVars, confSeenVars, bundleVars, news, missed>>

-----------------------------------------------------------------------------
(* TrustedCABundleReconciler                                               *)

Valid(ca) == ca \notin {NoCA, "absent", "bad"}

(* The bug of taking every ConfigMap of openshift-config for unrelated.    *)
UnrelatedAll(k) == k # "own"

(* The request is for a ConfigMap of openshift-config that is not the      *)
(* proxy's trusted CA.                                                     *)
Unrelated(k) == k # "own" /\ k # inputSeen["proxy"]

(* The Proxy is read once: the copy that decides is the one merged for.    *)
TrustedCAReconcile(k) ==
    /\ pc[CA] = "idle" /\ k \in queue[CA]
    /\ queue' = [queue EXCEPT ![CA] = @ \ {k}]
    /\ LET skipped == inputSeen["proxy"] = "absent" \/ Unrelated(k) IN
       \/ skipped /\ Return(CA, "Available")
       \/ ~skipped /\ Goto(CA, "merge", [request |-> k, proxy |-> inputSeen["proxy"]])
    /\ UNCHANGED <<infra, inputVars, confVars, confSeenVars, bundleVars, news, missed, faults>>

(* The bug of writing the additional CAs to a buffer of their own.         *)
mergeCABundlesReplaces(additional, system) == <<additional>>

mergeCABundles(additional, system) == <<additional>> \o system

(* The proxy's CA, when one is named and can be read and parsed.           *)
addProxyCABundle(proxy, ca, original) ==
    IF proxy = "userCA" /\ Valid(ca) THEN mergeCABundles(ca, original) ELSE original

(* The CA of cloud-conf, when there is one that differs from the proxy's.  *)
addCloudConfigCABundle(proxyCA, cm, original) ==
    IF cm.exists /\ Valid(cm.ca) /\ cm.ca # proxyCA
    THEN mergeCABundles(cm.ca, original) ELSE original

(* What the bundle should be, from a proxy, its CA and a cloud-conf.       *)
Bundle(proxy, ca, cm) ==
    LET withProxy == addProxyCABundle(proxy, ca, <<System>>)
        proxyCA == IF Len(withProxy) > 1 THEN ca ELSE NoCA IN
    addCloudConfigCABundle(proxyCA, cm, withProxy)

(* Reads of the CA ConfigMap and of cloud-conf, for the Proxy read before. *)
(* A failed one is taken for a missing object.                             *)
MergeBundles ==
    /\ pc[CA] = "merge"
    /\ \E ca \in {inputSeen["userCA"], "absent"}, cm \in {cloudConfSeen, NotFound} :
          /\ Goto(CA, "write",
                  [request |-> job[CA].request, bundle |-> Bundle(job[CA].proxy, ca, cm)])
          /\ \/ ca = inputSeen["userCA"] /\ cm = cloudConfSeen /\ UNCHANGED <<missed, faults>>
             \/ Fault("read") /\ missed' = TRUE
    /\ UNCHANGED <<infra, inputVars, confVars, confSeenVars, bundleVars, queue, news>>

(* Create when the cache has no bundle, otherwise an update that carries   *)
(* no version.                                                             *)
BundleAccepted == (bundleSeen = << >>) = (bundle = << >>)

createOrUpdateConfigMap ==
    /\ pc[CA] = "write"
    /\ \/ BundleAccepted /\ StoreBundle(job[CA].bundle) /\ ReturnAvailable(CA)
       \/ ~BundleAccepted /\ ReturnError(CA) /\ UNCHANGED <<bundle, news>>
    /\ UNCHANGED <<infra, inputVars, confVars, confSeenVars, bundleSeen, missed, faults>>

(* The API server makes the write of either reconciler, but the answer     *)
(* does not arrive.                                                        *)
AnswerLost(r) ==
    /\ pc[r] = "write"
    /\ \/ r = CC /\ SyncAccepted /\ StoreConf(job[r].conf) /\ UNCHANGED bundle
       \/ r = CA /\ BundleAccepted /\ StoreBundle(job[r].bundle) /\ UNCHANGED confVars
    /\ Fault("write")
    /\ ReturnError(r)
    /\ UNCHANGED <<infra, inputVars, confSeenVars, bundleSeen, missed>>

-----------------------------------------------------------------------------
(* Informers, other clients, and the process.                              *)

Enqueue(cc, ca) ==
    queue' = [queue EXCEPT ![CC] = @ \cup cc, ![CA] = @ \cup ca]

(* The bug of a Network that is read and not watched.                      *)
RequestsOfUnwatched(i) ==
    CASE i = "managed" -> Enqueue({"own"}, {})
      [] i = "user"    -> Enqueue({"own"}, {"user"})
      [] i = "userCA"  -> Enqueue({"own"}, {"userCA"})
      [] i = "proxy"   -> Enqueue({}, {"own"})
      [] i \in {"network", "features"} -> UNCHANGED queue

(* The requests an event makes, by the predicates of the watches.  There   *)
(* is none for feature gates: their change handler does nothing.           *)
RequestsOf(i) ==
    CASE i \in {"managed", "network"} -> Enqueue({"own"}, {})
      [] i = "user"                   -> Enqueue({"own"}, {"user"})
      [] i = "userCA"                 -> Enqueue({"own"}, {"userCA"})
      [] i = "proxy"                  -> Enqueue({}, {"own"})
      [] i = "features"               -> UNCHANGED queue

(* The informer of x takes notice of x.                                    *)
Deliver(x) ==
    /\ x \in news
    /\ news' = news \ {x}
    /\ UNCHANGED <<infra, input, confVars, bundle, pc, job, report, missed, faults>>

DeliverInput(i) ==
    /\ Deliver(i)
    /\ inputSeen' = [inputSeen EXCEPT ![i] = input[i]]
    /\ RequestsOf(i)
    /\ UNCHANGED <<confSeenVars, bundleSeen>>

(* The bug of a watch without deletions.                                   *)
DeliverCloudConfUnwatched ==
    /\ Deliver("cloudConf")
    /\ cloudConfSeen' = cloudConf /\ versionSeen' = version
    /\ IF cloudConf.exists THEN Enqueue({"own"}, {"own"}) ELSE UNCHANGED queue
    /\ UNCHANGED <<inputSeen, bundleSeen>>

DeliverCloudConf ==
    /\ Deliver("cloudConf")
    /\ cloudConfSeen' = cloudConf /\ versionSeen' = version
    /\ Enqueue({"own"}, {"own"})
    /\ UNCHANGED <<inputSeen, bundleSeen>>

(* The bug of not watching the bundle.                                     *)
DeliverBundleUnwatched ==
    /\ Deliver("bundle")
    /\ bundleSeen' = bundle
    /\ UNCHANGED <<queue, inputSeen, confSeenVars>>

DeliverBundle ==
    /\ Deliver("bundle")
    /\ bundleSeen' = bundle
    /\ Enqueue({}, {"own"})
    /\ UNCHANGED <<inputSeen, confSeenVars>>

(* The administrator, the installer or another operator.                   *)
OthersChange ==
    /\ \E i \in Input : \E v \in ValueOf(i) \ {input[i]} :
          /\ Fault(IF i = "features" THEN "gate" ELSE "change")
          /\ input' = [input EXCEPT ![i] = v] /\ news' = news \cup {i}
          /\ missed' = (missed \/ i = "features")
    /\ UNCHANGED <<infra, inputSeen, confVars, confSeenVars, bundleVars, pc, queue, job, report>>

(* Someone edits or deletes what the reconcilers write.                    *)
OthersTamper ==
    /\ \/ /\ Fault("edit") /\ cloudConf.exists /\ ~cloudConf.imm
          /\ StoreConf([cloudConf EXCEPT !.conf = <<"edited">>]) /\ UNCHANGED bundle
       \/ /\ Fault("edit") /\ bundle # << >>
          /\ StoreBundle(<<System>>) /\ UNCHANGED confVars
       \/ /\ Fault("delete") /\ cloudConf.exists
          /\ StoreConf(NotFound) /\ UNCHANGED bundle
       \/ /\ Fault("delete") /\ bundle # << >>
          /\ StoreBundle(<< >>) /\ UNCHANGED confVars
    /\ UNCHANGED <<infra, inputVars, confSeenVars, bundleSeen, missed, pc, queue, job, report>>

(* A new process lists everything and reconciles it.                       *)
Crash ==
    /\ Fault("crash")
    /\ inputSeen' = input
    /\ cloudConfSeen' = cloudConf /\ versionSeen' = version
    /\ bundleSeen' = bundle
    /\ pc' = [r \in Reconciler |-> "idle"]
    /\ job' = [r \in Reconciler |-> NoJob]
    /\ queue' = Listed(input, cloudConf, bundle)
    /\ news' = {}
    /\ UNCHANGED <<infra, input, confVars, bundle, missed, report>>

(* The periodic resync of the informers.  One that comes while there is    *)
(* work waits for it: it is modelled as coming when there is none.         *)
Resync(r) ==
    /\ pc[r] = "idle" /\ queue[r] = {}
    /\ queue' = [queue EXCEPT ![r] = Listed(inputSeen, cloudConfSeen, bundleSeen)[r]]
    /\ UNCHANGED <<infra, inputVars, confVars, confSeenVars, bundleVars, pc, job, report, news,
                   missed, faults>>

CloudConfig == CloudConfigReconcile \/ GetTarget \/ syncCloudConfigData

TrustedCA ==
    (\E k \in Request : TrustedCAReconcile(k)) \/ MergeBundles \/ createOrUpdateConfigMap

Next ==
    \/ CloudConfig
    \/ TrustedCA
    \/ \E r \in Reconciler : ReadFails(r) \/ WriteFails(r) \/ AnswerLost(r) \/ Resync(r)
    \/ \E i \in Input : DeliverInput(i)
    \/ DeliverCloudConf
    \/ DeliverBundle
    \/ OthersChange
    \/ OthersTamper
    \/ Crash

Spec == Init /\ [][Next]_vars

(* The work queues are first in, first out: no request waits for ever.     *)
Fairness ==
    /\ WF_vars(CloudConfig) /\ WF_vars(TrustedCA)
    /\ SF_vars(TrustedCAReconcile("own"))
    /\ \A i \in Input : WF_vars(DeliverInput(i))
    /\ WF_vars(DeliverCloudConf) /\ WF_vars(DeliverBundle)

FairSpec == Spec /\ Fairness

-----------------------------------------------------------------------------
(* Requests come from events alone, unless something has happened that is *)
(* followed by none: then the 10-minute resync (cmd/.../main.go) recurs.   *)
Told == <>missed => \A r \in Reconciler : WF_vars(Resync(r))

(* Once changes and failures stop, cloud-conf is what the current inputs   *)
(* make of it, or its reconciler says that they make nothing: whichever    *)
(* of them changed last, and in whatever order the informers told.         *)
ConfSynced ==
    Told =>
      <>[](infra.sync =>
             IF ConfigFails(input) THEN report[CC] = "Degraded"
             ELSE cloudConf = Config(input) /\ report[CC] = "Available")

Trusted(b) == {b[i] : i \in 1..Len(b)}

(* The bundle holds the system CAs, the proxy's CA if it is valid, and     *)
(* that of cloud-conf if valid, and none of the latter two twice.          *)
BundleExact ==
    /\ Trusted(bundle) =
         {System}
           \cup {ca \in {input["userCA"]} : input["proxy"] = "userCA" /\ Valid(ca)}
           \cup {ca \in {cloudConf.ca} : Valid(ca)}
    /\ \A i, j \in 1..Len(bundle) : bundle[i] = bundle[j] => i = j \/ bundle[i] = System

(* A bundle that is fit for use: the system CAs, and nothing unparsable.   *)
Sound(b) == System \in Trusted(b) /\ \A ca \in Trusted(b) : Valid(ca)

(* At any time, from whatever copies and failed reads it was merged, the   *)
(* bundle is fit for use, or is not there: a CA of the proxy or of         *)
(* cloud-conf that cannot be read or parsed leaves the system CAs trusted  *)
(* ("system CA will be used" in addProxyCABundle).                         *)
TrustSound == bundle # << >> => Sound(bundle)

(* Once changes and failures stop, the bundle is exact, and stays so.      *)
BundleSynced == Told => <>[](input["proxy"] # "absent" => BundleExact)

(* Nothing is left to do for a reconciler: the informers have delivered,   *)
(* it has no request, and nothing has happened that no request follows.    *)
AtRest(r) == news = {} /\ ~missed /\ pc[r] = "idle" /\ queue[r] = {}

(* No event, retry or restart is lost on the way to cloud-conf: when its   *)
(* reconciler has nothing left to do, cloud-conf is what the inputs in the *)
(* API server make of it, and is reported as Available.  While the inputs  *)
(* make nothing the reconciler retries, and is never at rest.              *)
ConfAtRest ==
    AtRest(CC) /\ infra.sync =>
      ~ConfigFails(input) /\ cloudConf = Config(input) /\ report[CC] = "Available"

(* Nor on the way to the bundle, though its reconciler drops requests that *)
(* it takes for unrelated, and writes over whatever is there.              *)
BundleAtRest ==
    AtRest(CA) /\ input["proxy"] # "absent" => BundleExact /\ report[CA] = "Available"

=============================================================================
