--------------------------- MODULE KubeNovaConfig ---------------------------
(***************************************************************************)
(* The KubeNovaSpec as the validator and the builders tell values apart,   *)
(* with its defaults and its validation                                    *)
(* (api/v1/kubenova_types.go, internal/validator/validator.go).            *)
(*                                                                         *)
(* Nil is an absent optional section, "" an empty string.  Required        *)
(* strings that nothing but the validator looks into are the set of those  *)
(* that are filled in; a JWT secret is its length.                         *)
(***************************************************************************)
EXTENDS Naturals, Sequences

CONSTANT Nil

Optional(S) == {Nil} \cup S

TLSConfig == [enabled : BOOLEAN, secretName : STRING]

\* ResourceRequirements: the quantities, as they are written.
Resources == Seq(STRING)

\* Registry, organisation and tag, which only ever go into image names
\* together, are one value.
ImageRegistryConfig ==
  [tag : STRING, pullPolicy : STRING, pullSecrets : Seq(STRING)]

EnvVar == [name : STRING, value : STRING, from : STRING]

ServiceConfig ==
  [enabled : Optional(BOOLEAN), replicas : Nat, image : STRING,
   resources : Optional(Resources), env : Seq(EnvVar)]

IngressConfig == [host : STRING, tls : Optional(TLSConfig)]

HTTPSConfig == [enabled : BOOLEAN, port : Nat, secretName : STRING]

NodePortConfig == [httpPort : Nat, https : Optional(HTTPSConfig)]

\* A path is a sequence of tokens: "/" and "." are tokens of their own.
MinIOProxyConfig ==
  [enabled : BOOLEAN, pathPrefix : Seq(STRING), proxyEndpoint : STRING]

WebConfig ==
  [replicas : Nat, image : STRING, resources : Optional(Resources),
   exposeType : {"ingress", "nodeport"}, ingress : Optional(IngressConfig),
   nodePort : Optional(NodePortConfig), minioProxy : Optional(MinIOProxyConfig),
   customNginxConfigMap : STRING]

DatabaseFields == {"database.host", "database.database", "database.user", "database.password"}
CacheFields    == {"cache.host"}
StorageFields  ==
  {"storage.endpoint", "storage.accessKey", "storage.secretKey", "storage.bucket"}
RequiredFields == DatabaseFields \cup CacheFields \cup StorageFields

ServiceNames ==
  {"portal-api", "portal-rpc", "manager-api", "manager-rpc", "workload-api",
   "console-api", "console-rpc"}

KubeNovaSpec ==
  [filled : SUBSET RequiredFields, databasePort : Nat, cachePort : Nat,
   cacheType : {"node", "cluster"},
   accessSecret : Nat, refreshSecret : Nat,
   telemetry : Optional([enabled : BOOLEAN, jaegerEndpoint : STRING]),
   imageRegistry : Optional(ImageRegistryConfig),
   storageTLS : Optional(TLSConfig), endpointProxy : STRING,
   services : [ServiceNames -> Optional(ServiceConfig)],
   web : WebConfig]

-----------------------------------------------------------------------------
(* Defaults.                                                               *)

Enabled(section) == section # Nil /\ section.enabled

GetImageRegistry(spec) ==
  IF spec.imageRegistry # Nil
    THEN spec.imageRegistry
    ELSE [tag |-> "latest", pullPolicy |-> "Always", pullSecrets |-> << >>]

IsServiceEnabled(service) == service # Nil /\ service.enabled # Nil => service.enabled

GetReplicas(service) == IF service = Nil \/ service.replicas = 0 THEN 2 ELSE service.replicas

GetWebReplicas(web) == IF web.replicas = 0 THEN 3 ELSE web.replicas

GetMinIOProxyPath(web) ==
  IF web.minioProxy = Nil \/ web.minioProxy.pathPrefix = << >>
    THEN <<"/", "storage">> ELSE web.minioProxy.pathPrefix

\* NodePort with HTTPS, the condition every web builder repeats.
WebHTTPS(web) ==
  web.exposeType = "nodeport" /\ web.nodePort # Nil /\ Enabled(web.nodePort.https)

-----------------------------------------------------------------------------
(* ValidateKubeNova.                                                       *)

ValidPort(port) == port \in 1..65535

validateDatabase(spec) == DatabaseFields \subseteq spec.filled /\ ValidPort(spec.databasePort)

validateCache(spec) ==
  /\ CacheFields \subseteq spec.filled
  /\ ValidPort(spec.cachePort)
  /\ spec.cacheType \in {"node", "cluster"}

ValidateMinIOTLS(tls) == tls.enabled => tls.secretName # ""

validateStorage(spec) ==
  /\ StorageFields \subseteq spec.filled
  /\ Enabled(spec.storageTLS) => ValidateMinIOTLS(spec.storageTLS)

ValidateTelemetryConfig(telemetry) == telemetry.enabled => telemetry.jaegerEndpoint # ""

validateJWT(spec) == spec.accessSecret >= 32 /\ spec.refreshSecret >= 32

ValidateWebConfig_AnyCertificate(web) ==
  \/ /\ web.exposeType = "ingress"
     /\ web.ingress # Nil /\ web.ingress.host # ""
     /\ Enabled(web.ingress.tls) => web.ingress.tls.secretName # ""
  \/ web.exposeType = "nodeport"

ValidateWebConfig(web) ==
  \/ /\ web.exposeType = "ingress"
     /\ web.ingress # Nil /\ web.ingress.host # ""
     /\ Enabled(web.ingress.tls) => web.ingress.tls.secretName # ""
  \/ /\ web.exposeType = "nodeport"
     /\ WebHTTPS(web) => web.nodePort.https.secretName # ""

ValidateKubeNova(spec) ==
  /\ validateDatabase(spec)
  /\ validateCache(spec)
  /\ validateStorage(spec)
  /\ Enabled(spec.telemetry) => ValidateTelemetryConfig(spec.telemetry)
  /\ validateJWT(spec)
  /\ ValidateWebConfig(spec.web)
=============================================================================
