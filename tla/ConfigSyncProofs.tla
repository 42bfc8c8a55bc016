-------------------------- MODULE ConfigSyncProofs --------------------------
(***************************************************************************)
(* Theorems on ConfigSync, for any platforms, contents of the inputs and   *)
(* number of changes, edits, failures and crashes, in any order with the   *)
(* deliveries of the informers and the steps of the two reconcilers.       *)
(***************************************************************************)
EXTENDS ConfigSync, SequenceTheorems, TLAPS

-----------------------------------------------------------------------------
(* The bundle *)

(* The concatenations the merges make, written out.                        *)
LEMMA PairConcat ==
  ASSUME NEW a, NEW b
  PROVE  <<a>> \o <<b>> = <<a, b>>
<1> DEFINE s == <<a>> \o <<b>>
           t == <<a, b>>
<1>1. s \in Seq({a, b}) /\ t \in Seq({a, b})
  OBVIOUS
<1>2. Len(s) = 2 /\ s[1] = a /\ s[2] = b
  OBVIOUS
<1>3. Len(t) = 2 /\ t[1] = a /\ t[2] = b
  OBVIOUS
<1> HIDE DEF s, t
<1>4. s = t
  <2>1. \A i \in 1 .. Len(s) : s[i] = t[i]
    BY <1>2, <1>3
  <2>2. QED
    BY <1>1, <1>2, <1>3, <2>1, SeqEqual
<1>5. QED
  BY <1>4 DEF s, t

(* The same for three parts.                                               *)
LEMMA TripleConcat ==
  ASSUME NEW a, NEW b, NEW c
  PROVE  <<a>> \o <<b, c>> = <<a, b, c>>
<1> DEFINE s == <<a>> \o <<b, c>>
           t == <<a, b, c>>
<1>1. s \in Seq({a, b, c}) /\ t \in Seq({a, b, c})
  OBVIOUS
<1>2. Len(s) = 3 /\ s[1] = a /\ s[2] = b /\ s[3] = c
  OBVIOUS
<1>3. Len(t) = 3 /\ t[1] = a /\ t[2] = b /\ t[3] = c
  OBVIOUS
<1> HIDE DEF s, t
<1>4. s = t
  <2>1. \A i \in 1 .. Len(s) : s[i] = t[i]
    BY <1>2, <1>3
  <2>2. QED
    BY <1>1, <1>2, <1>3, <2>1, SeqEqual
<1>5. QED
  BY <1>4 DEF s, t

(* The proxy's CA is added, and that of a cloud-conf.                      *)
AddsProxyCA(proxy, ca) == proxy = "userCA" /\ Valid(ca)

AddsConfCA(proxy, ca, cm) ==
  cm.exists /\ Valid(cm.ca) /\ (AddsProxyCA(proxy, ca) => cm.ca # ca)

(* What the merges make: each CA that is added comes first.                *)
LEMMA BundleForms ==
  ASSUME NEW proxy, NEW ca, NEW cm
  PROVE  Bundle(proxy, ca, cm) =
           IF AddsProxyCA(proxy, ca)
           THEN IF AddsConfCA(proxy, ca, cm) THEN <<cm.ca, ca, System>> ELSE <<ca, System>>
           ELSE IF AddsConfCA(proxy, ca, cm) THEN <<cm.ca, System>> ELSE <<System>>
<1> DEFINE withProxy == addProxyCABundle(proxy, ca, <<System>>)
           proxyCA == IF Len(withProxy) > 1 THEN ca ELSE NoCA
<1>1. withProxy = IF AddsProxyCA(proxy, ca) THEN <<ca, System>> ELSE <<System>>
  BY PairConcat DEF addProxyCABundle, mergeCABundles, AddsProxyCA
<1>2. proxyCA = IF AddsProxyCA(proxy, ca) THEN ca ELSE NoCA
  BY <1>1
<1>3. Valid(cm.ca) => cm.ca # NoCA
  BY DEF Valid
<1> HIDE DEF withProxy, proxyCA
<1>4. Bundle(proxy, ca, cm) = IF AddsConfCA(proxy, ca, cm) THEN <<cm.ca>> \o withProxy ELSE withProxy
  BY <1>2, <1>3 DEF Bundle, addCloudConfigCABundle, mergeCABundles, AddsConfCA, withProxy, proxyCA
<1>5. QED
  BY <1>1, <1>4, PairConcat, TripleConcat

(* A bundle that was merged holds the system CAs and the valid ones of the *)
(* user, and none of these twice.                                          *)
LEMMA BundleHolds ==
  ASSUME NEW proxy, NEW ca, NEW cm, cm.exists \/ ~Valid(cm.ca)
  PROVE  LET b == Bundle(proxy, ca, cm) IN
         /\ Trusted(b) = {System} \cup {x \in {ca} : proxy = "userCA" /\ Valid(x)}
                                 \cup {x \in {cm.ca} : Valid(x)}
         /\ \A i, j \in 1..Len(b) : b[i] = b[j] => i = j \/ b[i] = System
<1> DEFINE b == Bundle(proxy, ca, cm)
<1>1. CASE AddsProxyCA(proxy, ca) /\ AddsConfCA(proxy, ca, cm)
  <2>1. b = <<cm.ca, ca, System>>
    BY <1>1, BundleForms
  <2> HIDE DEF b
  <2>2. Len(b) = 3 /\ b[1] = cm.ca /\ b[2] = ca /\ b[3] = System
    BY <2>1
  <2>3. QED
    BY <1>1, <2>2 DEF Trusted, AddsProxyCA, AddsConfCA, b
<1>2. CASE AddsProxyCA(proxy, ca) /\ ~AddsConfCA(proxy, ca, cm)
  <2>1. b = <<ca, System>>
    BY <1>2, BundleForms
  <2> HIDE DEF b
  <2>2. Len(b) = 2 /\ b[1] = ca /\ b[2] = System
    BY <2>1
  <2>3. QED
    BY <1>2, <2>2 DEF Trusted, AddsProxyCA, AddsConfCA, b
<1>3. CASE ~AddsProxyCA(proxy, ca) /\ AddsConfCA(proxy, ca, cm)
  <2>1. b = <<cm.ca, System>>
    BY <1>3, BundleForms
  <2> HIDE DEF b
  <2>2. Len(b) = 2 /\ b[1] = cm.ca /\ b[2] = System
    BY <2>1
  <2>3. QED
    BY <1>3, <2>2 DEF Trusted, AddsProxyCA, AddsConfCA, b
<1>4. CASE ~AddsProxyCA(proxy, ca) /\ ~AddsConfCA(proxy, ca, cm)
  <2>1. b = <<System>>
    BY <1>4, BundleForms
  <2> HIDE DEF b
  <2>2. Len(b) = 1 /\ b[1] = System
    BY <2>1
  <2>3. QED
    BY <1>4, <2>2 DEF Trusted, AddsProxyCA, AddsConfCA, b
<1>5. QED
  BY <1>1, <1>2, <1>3, <1>4

(* A bundle that was merged is fit for use.                                *)
LEMMA BundleSound ==
  ASSUME NEW proxy, NEW ca, NEW cm, cm.exists \/ cm = NotFound
  PROVE  Sound(Bundle(proxy, ca, cm))
<1> DEFINE b == Bundle(proxy, ca, cm)
<1>1. cm.exists \/ ~Valid(cm.ca)
  BY DEF NotFound, Valid
<1>2. Trusted(b) = {System} \cup {x \in {ca} : proxy = "userCA" /\ Valid(x)}
                           \cup {x \in {cm.ca} : Valid(x)}
  BY <1>1, BundleHolds
<1> HIDE DEF b
<1>3. Valid(System)
  BY DEF Valid, System, NoCA
<1>4. Sound(b)
  BY <1>2, <1>3 DEF Sound
<1>5. QED
  BY <1>4 DEF b

(* So is the system bundle alone.                                          *)
LEMMA SystemSound == Sound(<<System>>)
<1>1. Trusted(<<System>>) = {System}
  BY DEF Trusted
<1>2. Valid(System)
  BY DEF Valid, System, NoCA
<1>3. QED
  BY <1>1, <1>2 DEF Sound

-----------------------------------------------------------------------------
(* Types *)

(* TypeOK is not inductive as it stands: a ConfigMap that does not exist   *)
(* has no content, and what a reconciler is about to write has the type of *)
(* what it writes over; a bundle it is about to write is fit for use.      *)
TypeInv ==
  /\ TypeOK
  /\ \A c \in {cloudConf, cloudConfSeen} : c.exists \/ c = NotFound
  /\ pc[CC] # "idle" => DOMAIN job[CC].conf = DOMAIN NotFound /\ job[CC].conf.exists
  /\ pc[CA] = "write" => Sound(job[CA].bundle)
  /\ TrustSound

(* What the inputs make of cloud-conf is a ConfigMap that exists.          *)
LEMMA ConfigTyped ==
  ASSUME NEW in, in["managed"] \in ValueOf("managed"), in["user"] \in ValueOf("user")
  PROVE  DOMAIN Config(in) = DOMAIN NotFound /\ Config(in).exists
<1>1. SourceConfigMap(in) \in Sources \cup {NotFound}
  BY DEF SourceConfigMap, ValueOf
<1>2. DOMAIN SourceConfigMap(in) = DOMAIN NotFound
  BY <1>1, SourcesAssumption
<1>3. DOMAIN prepareSourceConfigMap(SourceConfigMap(in)) = DOMAIN NotFound
  BY <1>2 DEF prepareSourceConfigMap
<1>4. "exists" \in DOMAIN NotFound
  BY DEF NotFound
<1>5. QED
  BY <1>3, <1>4 DEF Config, Transform

(* A process that starts has requests of the right type.                   *)
LEMMA ListedTyped ==
  ASSUME NEW in, NEW conf, NEW ccmCA
  PROVE  Listed(in, conf, ccmCA) \in [Reconciler -> SUBSET Request]
BY DEF Listed, Request

(* An event adds requests of the right type.                               *)
LEMMA RequestsTyped ==
  ASSUME queue \in [Reconciler -> SUBSET Request], NEW i \in Input, RequestsOf(i)
  PROVE  queue' \in [Reconciler -> SUBSET Request]
BY DEF RequestsOf, Enqueue, Request, Input, Reconciler, CC, CA

(* The changes every reconciler has to hear of, it hears of.               *)
LEMMA RequestsMade ==
  ASSUME queue \in [Reconciler -> SUBSET Request], NEW i \in Input, RequestsOf(i)
  PROVE  /\ i \in {"managed", "network", "user"} => "own" \in queue'[CC]
         /\ i = "proxy" => "own" \in queue'[CA]
         /\ i = "userCA" => "userCA" \in queue'[CA]
         /\ queue[CC] \subseteq queue'[CC] /\ queue[CA] \subseteq queue'[CA]
BY DEF RequestsOf, Enqueue, Input, Reconciler, CC, CA

(* The types hold initially.                                               *)
LEMMA InitTyped == Init => TypeInv
<1> SUFFICES ASSUME Init PROVE TypeInv
  OBVIOUS
<1>1. TypeOK
  <2>1. queue \in [Reconciler -> SUBSET Request]
    BY ListedTyped DEF Init
  <2>2. infra \in Infras /\ version \in Nat /\ versionSeen \in 0..version /\ faults \in 0..MaxFaults
    BY BoundsAssumption DEF Init
  <2>3. /\ DOMAIN input = Input /\ DOMAIN inputSeen = Input
        /\ \A i \in Input : input[i] \in ValueOf(i) /\ inputSeen[i] \in ValueOf(i)
    BY StartsAssumption DEF Init
  <2>4. \A q \in Reconciler : pc[q] = "idle" /\ job[q] = NoJob /\ report[q] = "none"
    BY DEF Init
  <2>5. /\ pc \in [Reconciler -> {"idle", "target", "merge", "write"}]
        /\ report \in [Reconciler -> {"none", "Available", "Degraded"}]
        /\ DOMAIN job = Reconciler
    BY DEF Init
  <2>6. QED
    BY <2>1, <2>2, <2>3, <2>4, <2>5 DEF Init, TypeOK, Reconciler, CC, CA
<1>2. QED
  BY <1>1 DEF Init, TypeInv, TrustSound, Reconciler, CC, CA

(* Every step keeps the types.                                             *)
LEMMA StepTyped == TypeInv /\ [Next]_vars => TypeInv'
<1> SUFFICES ASSUME TypeInv, [Next]_vars PROVE TypeInv'
  OBVIOUS
<1> USE BoundsAssumption DEF TypeInv, TypeOK, TrustSound, Reconciler, CC, CA, NoJob, inputVars, confVars, confSeenVars, bundleVars
<1>1. CASE CloudConfigReconcile
  BY <1>1, ConfigTyped DEF CloudConfigReconcile, Return, Goto, Request, Input
<1>2. CASE GetTarget
  BY <1>2 DEF GetTarget, ReturnAvailable, Return, Goto
<1>3. CASE syncCloudConfigData
  BY <1>3 DEF syncCloudConfigData, StoreConf, ReturnAvailable, ReturnError, Return
<1>4. ASSUME NEW k \in Request, TrustedCAReconcile(k) PROVE TypeInv'
  BY <1>4 DEF TrustedCAReconcile, Return, Goto
<1>5. CASE MergeBundles
  <2>1. PICK ca \in {inputSeen["userCA"], "absent"}, cm \in {cloudConfSeen, NotFound} :
          /\ Goto(CA, "write",
                  [request |-> job[CA].request, bundle |-> Bundle(job[CA].proxy, ca, cm)])
          /\ \/ UNCHANGED <<missed, faults>>
             \/ Fault("read") /\ missed' = TRUE
    BY <1>5 DEF MergeBundles
  <2> DEFINE b == Bundle(job[CA].proxy, ca, cm)
  <2>2. Sound(b)
    BY BundleSound
  <2> HIDE DEF b
  <2>3. job[CA].request \in Request /\ job[CA] # NoJob
    BY <1>5 DEF MergeBundles
  <2>4. faults' \in 0..MaxFaults /\ missed' \in BOOLEAN
    <3>1. CASE UNCHANGED <<missed, faults>>
      BY <3>1
    <3>2. CASE Fault("read") /\ missed' = TRUE
      BY <3>2 DEF Fault
    <3>3. QED
      BY <2>1, <3>1, <3>2
  <2>5. UNCHANGED <<infra, inputVars, confVars, confSeenVars, bundleVars, queue, news, report>>
    BY <1>5 DEF MergeBundles, Goto
  <2>6. pc' = [pc EXCEPT ![CA] = "write"] /\ job' = [job EXCEPT ![CA] = [request |-> job[CA].request, bundle |-> b]]
    BY <2>1 DEF Goto, b
  <2>7. job'[CA].request \in Request /\ job'[CA] # NoJob /\ job'[CA].bundle = b
    BY <2>3, <2>6
  <2>8. QED
    BY <2>2, <2>4, <2>5, <2>6, <2>7
<1>6. CASE createOrUpdateConfigMap
  BY <1>6 DEF createOrUpdateConfigMap, StoreBundle, ReturnAvailable, ReturnError, Return
<1>7. ASSUME NEW r \in Reconciler, ReadFails(r) PROVE TypeInv'
  BY <1>7 DEF ReadFails, Fault, ReturnError, Return
<1>8. ASSUME NEW r \in Reconciler, WriteFails(r) PROVE TypeInv'
  BY <1>8 DEF WriteFails, Fault, ReturnError, Return
<1>9. ASSUME NEW r \in Reconciler, Resync(r) PROVE TypeInv'
  BY <1>9, ListedTyped DEF Resync
<1>10. ASSUME NEW i \in Input, DeliverInput(i) PROVE TypeInv'
  BY <1>10, RequestsTyped DEF DeliverInput, Deliver
<1>11. CASE DeliverCloudConf
  BY <1>11 DEF DeliverCloudConf, Deliver, Enqueue, Request
<1>12. CASE DeliverBundle
  BY <1>12 DEF DeliverBundle, Deliver, Enqueue, Request
<1>13. CASE OthersChange
  BY <1>13 DEF OthersChange, Fault
<1>14. CASE OthersTamper
  <2>1. faults' \in 0..MaxFaults /\ news' \subseteq Input \cup {"cloudConf", "bundle"}
    BY <1>14 DEF OthersTamper, Fault, StoreConf, StoreBundle
  <2>2. DOMAIN cloudConf' = DOMAIN NotFound /\ (cloudConf'.exists \/ cloudConf' = NotFound)
    <3>1. \/ cloudConf' = [cloudConf EXCEPT !.conf = <<"edited">>] /\ cloudConf.exists
          \/ cloudConf' = cloudConf
          \/ cloudConf' = NotFound
      BY <1>14 DEF OthersTamper, StoreConf
    <3>2. DOMAIN cloudConf = DOMAIN NotFound
      OBVIOUS
    <3>3. "exists" \in DOMAIN NotFound
      BY DEF NotFound
    <3>4. CASE cloudConf' = [cloudConf EXCEPT !.conf = <<"edited">>] /\ cloudConf.exists
      BY <3>2, <3>3, <3>4
    <3>5. QED
      BY <3>1, <3>2, <3>4
  <2>3. bundle' # << >> => Sound(bundle')
    BY <1>14, SystemSound DEF OthersTamper, StoreBundle
  <2>4. version' \in Nat /\ version' >= version
    BY <1>14 DEF OthersTamper, StoreConf
  <2>5. QED
    BY <1>14, <2>1, <2>2, <2>3, <2>4 DEF OthersTamper
<1>15. CASE Crash
  BY <1>15, ListedTyped DEF Crash, Fault
<1>16. CASE UNCHANGED vars
  BY <1>16 DEF vars
<1>17. ASSUME NEW r \in Reconciler, AnswerLost(r) PROVE TypeInv'
  BY <1>17 DEF AnswerLost, Fault, StoreConf, StoreBundle, ReturnError, Return
<1>18. QED
  BY <1>1, <1>2, <1>3, <1>4, <1>5, <1>6, <1>7, <1>8, <1>9, <1>10, <1>11, <1>12, <1>13, <1>14,
     <1>15, <1>16, <1>17 DEF Next, CloudConfig, TrustedCA

(* The objects, the copies of them and the queues are what the types say.  *)
THEOREM ConfigTypes == Spec => []TypeOK
<1>1. Spec => []TypeInv
  BY InitTyped, StepTyped, PTL DEF Spec
<1>2. TypeInv => TypeOK
  BY DEF TypeInv
<1>3. QED
  BY <1>1, <1>2, PTL

(* For any contents of the inputs, and whatever copies and failed reads it *)
(* was merged from, the bundle trusts the system CAs and no CA that does   *)
(* not parse.                                                              *)
THEOREM TrustAlwaysSound == Spec => []TrustSound
<1>1. Spec => []TypeInv
  BY InitTyped, StepTyped, PTL DEF Spec
<1>2. TypeInv => TrustSound
  BY DEF TypeInv
<1>3. QED
  BY <1>1, <1>2, PTL

-----------------------------------------------------------------------------
(* What the informers know *)

(* A copy is out of date only while an event is still to be delivered, and *)
(* the one event that makes no request is on record.                       *)
SeenInv ==
  /\ \A i \in Input \ news : inputSeen[i] = input[i]
  /\ "cloudConf" \notin news => cloudConfSeen = cloudConf
  /\ "bundle" \notin news => bundleSeen = bundle
  /\ "features" \in news => missed

(* Without requests for CloudConfigReconciler, cloud-conf is what the      *)
(* informers' copies make of it, or is on its way there, or an event of a  *)
(* change to it is.                                                        *)
ConfInv ==
  infra.sync /\ ~missed /\ queue[CC] = {} =>
    /\ ~ConfigFails(inputSeen)
    /\ pc[CC] = "idle" => report[CC] = "Available"
    /\ pc[CC] = "idle" /\ "cloudConf" \notin news => cloudConf = Config(inputSeen)
    /\ pc[CC] # "idle" => job[CC].conf = Config(inputSeen)

(* What the copies make of the bundle.                                     *)
BundleSeen == Bundle(inputSeen["proxy"], inputSeen["userCA"], cloudConfSeen)

(* The same for TrustedCABundleReconciler, whose requests count only if it *)
(* does not take them for unrelated.  What it is at work on counts, unless *)
(* the proxy has changed since; then there is a request for that.          *)
BundleInv ==
  /\ pc[CA] # "idle" => ~Unrelated(job[CA].request) \/ "own" \in queue[CA]
  /\ pc[CA] = "merge" => job[CA].proxy = inputSeen["proxy"] \/ "own" \in queue[CA]
  /\ inputSeen["proxy"] # "absent" /\ pc[CA] = "idle" /\ queue[CA] = {} => report[CA] = "Available"
  /\ ~missed /\ inputSeen["proxy"] # "absent" /\ (\A k \in queue[CA] : Unrelated(k)) =>
       /\ pc[CA] = "idle" /\ "bundle" \notin news => bundle = BundleSeen
       /\ pc[CA] = "write" => job[CA].bundle = BundleSeen

(* Every step keeps a copy current unless an event is on its way.          *)
LEMMA StepSeen == TypeInv /\ SeenInv /\ [Next]_vars => SeenInv'
<1> SUFFICES ASSUME TypeInv, SeenInv, [Next]_vars PROVE SeenInv'
  OBVIOUS
<1> USE DEF TypeInv, TypeOK, SeenInv, Input, inputVars, confVars, confSeenVars, bundleVars
<1>1. CASE CloudConfigReconcile
  BY <1>1 DEF CloudConfigReconcile
<1>2. CASE GetTarget
  BY <1>2 DEF GetTarget
<1>3. CASE syncCloudConfigData
  BY <1>3 DEF syncCloudConfigData, StoreConf
<1>4. ASSUME NEW k \in Request, TrustedCAReconcile(k) PROVE SeenInv'
  BY <1>4 DEF TrustedCAReconcile
<1>5. CASE MergeBundles
  BY <1>5 DEF MergeBundles
<1>6. CASE createOrUpdateConfigMap
  BY <1>6 DEF createOrUpdateConfigMap, StoreBundle
<1>7. ASSUME NEW r \in Reconciler, ReadFails(r) PROVE SeenInv'
  BY <1>7 DEF ReadFails
<1>8. ASSUME NEW r \in Reconciler, WriteFails(r) PROVE SeenInv'
  BY <1>8 DEF WriteFails
<1>9. ASSUME NEW r \in Reconciler, Resync(r) PROVE SeenInv'
  BY <1>9 DEF Resync
<1>10. ASSUME NEW i \in Input, DeliverInput(i) PROVE SeenInv'
  BY <1>10 DEF DeliverInput, Deliver
<1>11. CASE DeliverCloudConf
  BY <1>11 DEF DeliverCloudConf, Deliver
<1>12. CASE DeliverBundle
  BY <1>12 DEF DeliverBundle, Deliver
<1>13. CASE OthersChange
  BY <1>13 DEF OthersChange
<1>14. CASE OthersTamper
  BY <1>14 DEF OthersTamper, StoreConf, StoreBundle
<1>15. CASE Crash
  BY <1>15 DEF Crash
<1>16. CASE UNCHANGED vars
  BY <1>16 DEF vars
<1>17. ASSUME NEW r \in Reconciler, AnswerLost(r) PROVE SeenInv'
  BY <1>17 DEF AnswerLost, StoreConf, StoreBundle
<1>18. QED
  BY <1>1, <1>2, <1>3, <1>4, <1>5, <1>6, <1>7, <1>8, <1>9, <1>10, <1>11, <1>12, <1>13, <1>14,
     <1>15, <1>16, <1>17 DEF Next, CloudConfig, TrustedCA

-----------------------------------------------------------------------------
(* cloud-conf *)

(* The configuration depends on four of the inputs.                        *)
LEMMA ConfigStays ==
  ASSUME infra' = infra,
         \A i \in {"managed", "user", "network", "features"} : inputSeen'[i] = inputSeen[i]
  PROVE  /\ Config(inputSeen)' = Config(inputSeen)
         /\ ConfigFails(inputSeen)' <=> ConfigFails(inputSeen)
<1>1. SourceConfigMap(inputSeen)' = SourceConfigMap(inputSeen)
  BY DEF SourceConfigMap
<1>2. QED
  BY <1>1 DEF Config, ConfigFails, prepareSourceConfigMap, Transform, PrepareFails, TransformFails

(* Every step keeps cloud-conf what the copies make of it.                 *)
LEMMA StepConf == TypeInv /\ SeenInv /\ ConfInv /\ [Next]_vars => ConfInv'
<1> SUFFICES ASSUME TypeInv, SeenInv, ConfInv, [Next]_vars PROVE ConfInv'
  OBVIOUS
<1> USE DEF TypeInv, TypeOK, SeenInv, ConfInv, Reconciler, CC, CA, inputVars, confVars, confSeenVars,
            bundleVars
<1>1. CASE CloudConfigReconcile
  BY <1>1, ConfigStays DEF CloudConfigReconcile, Return, Goto
<1>2. CASE GetTarget
  BY <1>2, ConfigStays DEF GetTarget, ReturnAvailable, Return, Goto, isCloudConfigEqual
<1>3. CASE syncCloudConfigData
  BY <1>3, ConfigStays DEF syncCloudConfigData, StoreConf, ReturnAvailable, ReturnError, Return
<1>4. ASSUME NEW k \in Request, TrustedCAReconcile(k) PROVE ConfInv'
  BY <1>4, ConfigStays DEF TrustedCAReconcile, Return, Goto
<1>5. CASE MergeBundles
  BY <1>5, ConfigStays DEF MergeBundles, Goto
<1>6. CASE createOrUpdateConfigMap
  BY <1>6, ConfigStays DEF createOrUpdateConfigMap, StoreBundle, ReturnAvailable, ReturnError, Return
<1>7. ASSUME NEW r \in Reconciler, ReadFails(r) PROVE ConfInv'
  <2>1. UNCHANGED <<infra, inputSeen, cloudConf, news, missed>>
    BY <1>7 DEF ReadFails
  <2>2. CASE r = CC
    <3>1. queue'[CC] # {}
      <4>1. \/ queue[CC] # {} /\ queue' = queue
            \/ queue' = [queue EXCEPT ![CC] = @ \cup {job[CC].request}]
        BY <1>7, <2>2 DEF ReadFails, ReturnError
      <4>2. CASE queue' = [queue EXCEPT ![CC] = @ \cup {job[CC].request}]
        <5>1. job[CC].request \in queue'[CC]
          BY <4>2
        <5>2. QED
          BY <5>1
      <4>3. QED
        BY <4>1, <4>2
    <3>2. QED
      BY <3>1
  <2>3. CASE r = CA
    <3>1. UNCHANGED <<pc[CC], job[CC], report[CC], queue[CC]>>
      BY <1>7, <2>3 DEF ReadFails, ReturnError, Return
    <3>2. QED
      BY <2>1, <3>1, ConfigStays
  <2>4. QED
    BY <1>7, <2>2, <2>3
<1>8. ASSUME NEW r \in Reconciler, WriteFails(r) PROVE ConfInv'
  BY <1>8, ConfigStays DEF WriteFails, ReturnError, Return
<1>9. ASSUME NEW r \in Reconciler, Resync(r) PROVE ConfInv'
  BY <1>9, ConfigStays DEF Resync, Listed
<1>10. ASSUME NEW i \in Input, DeliverInput(i) PROVE ConfInv'
  <2>1. CASE i \in {"managed", "network", "user"}
    BY <1>10, <2>1, RequestsMade DEF DeliverInput
  <2>2. CASE i = "features"
    BY <1>10, <2>2 DEF DeliverInput, Deliver
  <2>3. CASE i \in {"proxy", "userCA"}
    <3>1. /\ UNCHANGED <<infra, cloudConf, pc, job, report, missed>>
          /\ "cloudConf" \in news' <=> "cloudConf" \in news
          /\ \A x \in {"managed", "user", "network", "features"} : inputSeen'[x] = inputSeen[x]
      BY <1>10, <2>3 DEF DeliverInput, Deliver, Input
    <3>2. queue'[CC] = {} => queue[CC] = {}
      BY <1>10, RequestsMade DEF DeliverInput
    <3>3. QED
      BY <3>1, <3>2, ConfigStays
  <2>4. QED
    BY <1>10, <2>1, <2>2, <2>3 DEF Input
<1>11. CASE DeliverCloudConf
  BY <1>11 DEF DeliverCloudConf, Deliver, Enqueue
<1>12. CASE DeliverBundle
  BY <1>12, ConfigStays DEF DeliverBundle, Deliver, Enqueue
<1>13. CASE OthersChange
  BY <1>13, ConfigStays DEF OthersChange
<1>14. CASE OthersTamper
  BY <1>14, ConfigStays DEF OthersTamper, StoreConf, StoreBundle
<1>15. CASE Crash
  BY <1>15 DEF Crash, Listed
<1>16. CASE UNCHANGED vars
  BY <1>16, ConfigStays DEF vars
<1>17. ASSUME NEW r \in Reconciler, AnswerLost(r) PROVE ConfInv'
  BY <1>17, ConfigStays DEF AnswerLost, StoreConf, StoreBundle, ReturnError, Return
<1>18. QED
  BY <1>1, <1>2, <1>3, <1>4, <1>5, <1>6, <1>7, <1>8, <1>9, <1>10, <1>11, <1>12, <1>13, <1>14,
     <1>15, <1>16, <1>17 DEF Next, CloudConfig, TrustedCA

-----------------------------------------------------------------------------
(* ccm-trusted-ca *)

(* The proxy's CA ConfigMap counts only if the proxy names it.             *)
LEMMA BundleStays ==
  ASSUME cloudConfSeen' = cloudConfSeen, inputSeen'["proxy"] = inputSeen["proxy"],
         inputSeen["proxy"] # "userCA" \/ inputSeen'["userCA"] = inputSeen["userCA"]
  PROVE  BundleSeen' = BundleSeen
BY BundleForms DEF BundleSeen, AddsProxyCA, AddsConfCA

(* The statements of BundleInv, for the steps that leave what it           *)
(* speaks of alone, or only add requests.                                  *)
LEMMA BundleInvStays ==
  ASSUME BundleInv, UNCHANGED <<pc[CA], job[CA], report[CA], missed, bundle>>,
         inputSeen'["proxy"] = inputSeen["proxy"], BundleSeen' = BundleSeen,
         queue[CA] \subseteq queue'[CA], "bundle" \in news => "bundle" \in news'
  PROVE  BundleInv'
BY DEF BundleInv, Unrelated

(* Every step keeps the bundle what the copies make of it.                 *)
LEMMA StepBundle == TypeInv /\ SeenInv /\ BundleInv /\ [Next]_vars => BundleInv'
<1> SUFFICES ASSUME TypeInv, SeenInv, BundleInv, [Next]_vars PROVE BundleInv'
  OBVIOUS
<1> USE DEF TypeInv, TypeOK, SeenInv, BundleInv, Reconciler, CC, CA, inputVars, confVars, confSeenVars,
            bundleVars, Unrelated
<1>1. CASE CloudConfigReconcile
  BY <1>1, BundleStays DEF CloudConfigReconcile, Return, Goto
<1>2. CASE GetTarget
  BY <1>2, BundleStays DEF GetTarget, ReturnAvailable, Return, Goto
<1>3. CASE syncCloudConfigData
  BY <1>3, BundleStays DEF syncCloudConfigData, StoreConf, ReturnAvailable, ReturnError, Return
<1>4. ASSUME NEW k \in Request, TrustedCAReconcile(k) PROVE BundleInv'
  BY <1>4, BundleStays DEF TrustedCAReconcile, Return, Goto
<1>5. CASE MergeBundles
  <2>1. UNCHANGED <<inputSeen, cloudConfSeen, queue, report>> /\ pc[CA] = "merge" /\ pc'[CA] = "write"
    BY <1>5 DEF MergeBundles, Goto
  <2>2. job'[CA].request = job[CA].request
    BY <1>5 DEF MergeBundles, Goto
  <2>3. missed' \/ job'[CA].bundle = BundleSeen \/ "own" \in queue'[CA]
    BY <1>5 DEF MergeBundles, Goto, BundleSeen
  <2>4. BundleSeen' = BundleSeen
    BY <2>1, BundleStays
  <2>5. QED
    BY <2>1, <2>2, <2>3, <2>4
<1>6. CASE createOrUpdateConfigMap
  <2>1. UNCHANGED <<inputSeen, cloudConfSeen, missed>> /\ pc[CA] = "write" /\ pc'[CA] = "idle"
    BY <1>6 DEF createOrUpdateConfigMap, ReturnAvailable, ReturnError, Return
  <2>2. BundleSeen' = BundleSeen
    BY <2>1, BundleStays
  <2>3. CASE StoreBundle(job[CA].bundle) /\ ReturnAvailable(CA)
    BY <2>1, <2>2, <2>3 DEF StoreBundle, ReturnAvailable, Return
  <2>4. CASE ReturnError(CA)
    <3>1. job[CA].request \in queue'[CA] /\ queue[CA] \subseteq queue'[CA]
      BY <2>4 DEF ReturnError
    <3>2. QED
      BY <2>1, <3>1
  <2>5. QED
    BY <1>6, <2>3, <2>4 DEF createOrUpdateConfigMap
<1>7. ASSUME NEW r \in Reconciler, ReadFails(r) PROVE BundleInv'
  BY <1>7, BundleStays DEF ReadFails, ReturnError, Return
<1>8. ASSUME NEW r \in Reconciler, WriteFails(r) PROVE BundleInv'
  BY <1>8, BundleStays DEF WriteFails, ReturnError, Return
<1>9. ASSUME NEW r \in Reconciler, Resync(r) PROVE BundleInv'
  BY <1>9, BundleStays DEF Resync, Listed
<1>10. ASSUME NEW i \in Input, DeliverInput(i) PROVE BundleInv'
  <2>1. /\ UNCHANGED <<pc, job, report, missed, bundle, cloudConfSeen>>
        /\ "bundle" \in news' <=> "bundle" \in news
        /\ \A x \in Input \ {i} : inputSeen'[x] = inputSeen[x]
    BY <1>10 DEF DeliverInput, Deliver, Input
  <2>2. CASE i = "proxy"
    BY <1>10, <2>1, <2>2, RequestsMade DEF DeliverInput, Unrelated
  <2>3. CASE i # "proxy" /\ ~(i = "userCA" /\ inputSeen["proxy"] = "userCA")
    <3>1. inputSeen'["proxy"] = inputSeen["proxy"] /\ BundleSeen' = BundleSeen
      BY <2>1, <2>3, BundleStays DEF Input
    <3>2. queue[CA] \subseteq queue'[CA]
      BY <1>10, RequestsMade DEF DeliverInput
    <3>3. QED
      BY <2>1, <3>1, <3>2, BundleInvStays
  <2>4. CASE i = "userCA" /\ inputSeen["proxy"] = "userCA"
    <3>1. inputSeen'["proxy"] = inputSeen["proxy"]
      BY <2>1, <2>4 DEF Input
    <3>2. "userCA" \in queue'[CA] /\ queue[CA] \subseteq queue'[CA]
      BY <1>10, <2>4, RequestsMade DEF DeliverInput
    <3>3. ~Unrelated("userCA")'
      BY <2>4, <3>1 DEF Unrelated
    <3>4. QED
      BY <2>1, <3>1, <3>2, <3>3 DEF Unrelated
  <2>5. QED
    BY <2>2, <2>3, <2>4
<1>11. CASE DeliverCloudConf
  BY <1>11 DEF DeliverCloudConf, Deliver, Enqueue
<1>12. CASE DeliverBundle
  BY <1>12 DEF DeliverBundle, Deliver, Enqueue
<1>13. CASE OthersChange
  BY <1>13, BundleStays DEF OthersChange
<1>14. CASE OthersTamper
  BY <1>14, BundleStays DEF OthersTamper, StoreConf, StoreBundle
<1>15. CASE Crash
  BY <1>15 DEF Crash, Listed, Request
<1>16. CASE UNCHANGED vars
  BY <1>16, BundleStays DEF vars
<1>17. ASSUME NEW r \in Reconciler, AnswerLost(r) PROVE BundleInv'
  BY <1>17, BundleStays DEF AnswerLost, StoreConf, StoreBundle, ReturnError, Return
<1>18. QED
  BY <1>1, <1>2, <1>3, <1>4, <1>5, <1>6, <1>7, <1>8, <1>9, <1>10, <1>11, <1>12, <1>13, <1>14,
     <1>15, <1>16, <1>17 DEF Next, CloudConfig, TrustedCA

-----------------------------------------------------------------------------
(* The inductive invariant, and what it says of a reconciler at rest.      *)
ConfigInv == TypeInv /\ SeenInv /\ ConfInv /\ BundleInv

(* All of the invariant holds initially.                                   *)
LEMMA InitConfig == Init => ConfigInv
<1> SUFFICES ASSUME Init PROVE ConfigInv
  OBVIOUS
<1>1. TypeInv
  BY InitTyped
<1>2. SeenInv
  BY DEF Init, SeenInv
<1>3. pc[CC] = "idle" /\ pc[CA] = "idle" /\ inputSeen = input
  BY DEF Init, Reconciler, CC, CA
<1>4. ConfInv
  <2>1. queue[CC] = {"own"}
    BY DEF Init, Listed, Reconciler, CC
  <2>2. QED
    BY <2>1 DEF ConfInv
<1>5. BundleInv
  <2>1. inputSeen["proxy"] # "absent" => "own" \in queue[CA]
    BY <1>3 DEF Init, Listed, Reconciler, CC, CA, Request
  <2>2. QED
    BY <1>3, <2>1 DEF BundleInv, Unrelated
<1>6. QED
  BY <1>1, <1>2, <1>4, <1>5 DEF ConfigInv

(* The inductive invariant holds.                                          *)
LEMMA ConfigInvariant == Spec => []ConfigInv
<1>1. ConfigInv /\ [Next]_vars => ConfigInv'
  BY StepTyped, StepSeen, StepConf, StepBundle DEF ConfigInv
<1>2. QED
  BY InitConfig, <1>1, PTL DEF Spec

(* Without events to deliver, the informers know the inputs.               *)
LEMMA SeenAll ==
  ASSUME SeenInv, news = {}
  PROVE  (\A i \in Input : inputSeen[i] = input[i]) /\ cloudConfSeen = cloudConf
BY DEF SeenInv

(* Whatever changes, edits, failures, crashes and late events there were:  *)
(* when CloudConfigReconciler has nothing left to do, cloud-conf is what   *)
(* the inputs make of it.                                                  *)
THEOREM ConfAtRestHolds == Spec => []ConfAtRest
<1>1. ConfigInv => ConfAtRest
  <2> SUFFICES ASSUME ConfigInv, AtRest(CC), infra.sync
               PROVE  ~ConfigFails(input) /\ cloudConf = Config(input) /\ report[CC] = "Available"
    BY DEF ConfAtRest
  <2>1. \A i \in Input : inputSeen[i] = input[i]
    BY SeenAll DEF ConfigInv, AtRest
  <2>2. SourceConfigMap(inputSeen) = SourceConfigMap(input)
    BY <2>1 DEF SourceConfigMap, Input
  <2>3. Config(inputSeen) = Config(input) /\ (ConfigFails(inputSeen) <=> ConfigFails(input))
    BY <2>1, <2>2 DEF Config, ConfigFails, Input
  <2>4. QED
    BY <2>3 DEF ConfigInv, ConfInv, AtRest
<1>2. QED
  BY <1>1, ConfigInvariant, PTL

(* And when TrustedCABundleReconciler has nothing left to do, the bundle   *)
(* holds the CAs it should, each once.                                     *)
THEOREM BundleAtRestHolds == Spec => []BundleAtRest
<1>1. ConfigInv => BundleAtRest
  <2> SUFFICES ASSUME ConfigInv, AtRest(CA), input["proxy"] # "absent"
               PROVE  BundleExact /\ report[CA] = "Available"
    BY DEF BundleAtRest
  <2>1. (\A i \in Input : inputSeen[i] = input[i]) /\ cloudConfSeen = cloudConf
    BY SeenAll DEF ConfigInv, AtRest
  <2>2. bundle = Bundle(input["proxy"], input["userCA"], cloudConf) /\ report[CA] = "Available"
    BY <2>1 DEF ConfigInv, BundleInv, BundleSeen, AtRest, Input
  <2>3. cloudConf.exists \/ ~Valid(cloudConf.ca)
    BY DEF ConfigInv, TypeInv, NotFound, Valid
  <2>4. QED
    BY <2>2, <2>3, BundleHolds DEF BundleExact
<1>2. QED
  BY <1>1, ConfigInvariant, PTL

=============================================================================
