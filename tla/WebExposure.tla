----------------------------- MODULE WebExposure -----------------------------
(***************************************************************************)
(* How users and the backend reach the web frontend: the NodePort Service, *)
(* the Ingress, the MinIO proxy address that goes into the Secret and the  *)
(* WebURL that goes into the status.  The four are computed in different   *)
(* stages of a pass, two of them from what an earlier stage or an earlier  *)
(* pass has left in the cluster (internal/controller/kubenova_controller.go, *)
(* internal/builder/web.go, internal/builder/secret.go).  Who follows such *)
(* an address comes to nginx, whose configuration is NginxConfig's.        *)
(*                                                                         *)
(* Module Reconciler has failures, deletion and stale copies: here reads   *)
(* are current and only the API server's refusal of a port is a failure.   *)
(* nginx runs the configuration last written for it: module Rollout has    *)
(* the restart this takes.                                                 *)
(***************************************************************************)
EXTENDS NginxConfig

CONSTANTS
  Specs,        \* the KubeNovaSpec values users write
  Nodes,        \* the nodes there may be, each standing for its address
  Ports,        \* the cluster's NodePort range
  ObjectPaths,  \* paths of objects in MinIO
  MayDrift      \* may a third party delete the web Service?

ASSUME ExposureAssumption == Ports \subseteq Nat \ {0} /\ MayDrift \in BOOLEAN

ASSUME SpecsAssumption == \A conf \in Specs : conf \in KubeNovaSpec

VARIABLES
  spec,      \* the KubeNova's spec
  kn,        \* the spec the pass works on, Nil between passes
  edited,    \* was the spec edited since the pass began?
  pc,        \* the pass's stage
  ready,     \* is the status Ready for the latest generation?
  svc,       \* the web Service, or Nil
  ingress,   \* the web Ingress, or Nil
  endpoint,  \* MINIO_ENDPOINT_PROXY in the Secret
  url,       \* WebURL in the status
  nodes,     \* the nodes of the cluster
  up,        \* those that are Ready
  informed   \* did the Secret come from the Service as it is now?

vars == <<spec, kn, edited, pc, ready, svc, ingress, endpoint, url, nodes, up, informed>>

-----------------------------------------------------------------------------
(* The builders.  An address is a record, port 0 being the protocol's own, *)
(* or a text that is no address of the web frontend.                       *)

Address(protocol, host, port, path) ==
  [protocol |-> protocol, host |-> host, port |-> port, path |-> path]

Protocol(tls) == IF tls THEN "https" ELSE "http"

\* What stands for the node's address where getNodeIP finds none ("<NODE-IP>"
\* in the WebURL).
NoNode == "<NODE_IP>"

\* The nodes that getNodeIP may find first: the cache lists them in any order.
getNodeIP ==
  IF up # {} THEN up ELSE IF nodes # {} THEN nodes ELSE {NoNode}

ConfiguredPort(web) ==
  IF web.nodePort # Nil /\ web.nodePort.httpPort > 0 THEN web.nodePort.httpPort ELSE 30080

getWebNodePort_Configured(web, service) ==
  IF web.exposeType # "nodeport" THEN 0 ELSE ConfiguredPort(web)

\* Here and below: WebHTTPS again includes exposeType, tested before.
getWebNodePort(web, service) ==
  IF web.exposeType # "nodeport" THEN 0
  ELSE IF service = Nil THEN ConfiguredPort(web)
  ELSE IF WebHTTPS(web) /\ service.https > 0 THEN service.https
  ELSE IF service.http > 0 THEN service.http
  ELSE ConfiguredPort(web)

IngressAddress(web, path) ==
  Address(Protocol(Enabled(web.ingress.tls)), web.ingress.host, 0, path)

\* The prefix goes behind a slash, its own first slash being dropped.
ProxyPath(web) ==
  LET prefix == GetMinIOProxyPath(web)
  IN  <<"/">> \o (IF Head(prefix) = "/" THEN Tail(prefix) ELSE prefix)

GetMinIOEndpointForBackendWithNodeInfo(web, nodeIP, nodePort) ==
  IF web.minioProxy.proxyEndpoint # "" THEN <<web.minioProxy.proxyEndpoint>>
  ELSE IF web.exposeType = "ingress" THEN IngressAddress(web, ProxyPath(web))
  ELSE Address(Protocol(WebHTTPS(web)), nodeIP, nodePort, ProxyPath(web))

\* BuildSecret: what goes into MINIO_ENDPOINT_PROXY.
BuildSecret(conf, nodeIP, nodePort) ==
  IF conf.endpointProxy # "" THEN <<conf.endpointProxy>>
  ELSE IF Enabled(conf.web.minioProxy)
    THEN GetMinIOEndpointForBackendWithNodeInfo(conf.web, nodeIP, nodePort)
  ELSE <<Protocol(Enabled(conf.storageTLS)), "minio">>

\* The ports buildWebService asks for, 0 leaving the choice to the API server.
Wishes(web) ==
  [http |-> IF web.nodePort # Nil THEN web.nodePort.httpPort ELSE 0,
   https |-> IF WebHTTPS(web) THEN web.nodePort.https.port ELSE 0]

\* The Services the API server may make of it, with the ports that are free.
buildWebService(web) ==
  IF web.exposeType = "ingress"
    THEN {[type |-> "ClusterIP", http |-> 0, https |-> 0]}
    ELSE {s \in [type : {"NodePort"}, http : Ports, https : IF WebHTTPS(web) THEN Ports ELSE {0}] :
            /\ s.http # s.https
            /\ Wishes(web).http # 0 => s.http = Wishes(web).http
            /\ Wishes(web).https # 0 => s.https = Wishes(web).https}

buildWebIngress(web) ==
  [host |-> web.ingress.host,
   secret |-> IF Enabled(web.ingress.tls) THEN web.ingress.tls.secretName ELSE ""]

\* An absent Ingress is none that a pass makes.
ASSUME NilAssumption ==
  \A conf \in Specs :
    conf.web.exposeType = "ingress" /\ ValidateKubeNova(conf) => buildWebIngress(conf.web) # Nil

\* updateAccessInfo.  NoService is "Service 创建中...", Allocating is
\* "NodePort (端口分配中...)".
NoService  == <<"creating the Service">>
Allocating == <<"allocating the NodePort">>

WebURL_Configured(web, service, nodeIP) ==
  IF web.exposeType = "ingress" THEN IngressAddress(web, << >>)
  ELSE Address(Protocol(WebHTTPS(web)), nodeIP, ConfiguredPort(web), << >>)

WebURL(web, service, nodeIP) ==
  IF web.exposeType = "ingress" THEN IngressAddress(web, << >>)
  ELSE IF service = Nil THEN NoService
  ELSE IF service.https > 0 THEN Address("https", nodeIP, service.https, << >>)
  ELSE IF service.http > 0 THEN Address("http", nodeIP, service.http, << >>)
  ELSE Allocating

-----------------------------------------------------------------------------
(* A pass.                                                                 *)

Init ==
  /\ spec \in Specs
  /\ kn = Nil /\ edited = FALSE /\ pc = "idle" /\ ready = FALSE
  /\ svc = Nil /\ ingress = Nil
  /\ endpoint = << >> /\ url = << >>
  /\ nodes \in SUBSET Nodes /\ up \in SUBSET nodes
  /\ informed = FALSE

\* A pass that finds the latest generation Ready, or a bad spec, ends here.
Begin ==
  /\ pc = "idle" /\ ~ready /\ ValidateKubeNova(spec)
  /\ kn' = spec /\ edited' = FALSE /\ pc' = "secret"
  /\ UNCHANGED <<spec, ready, svc, ingress, endpoint, url, nodes, up, informed>>

ReconcileSecret ==
  /\ pc = "secret"
  /\ \E ip \in getNodeIP :
       endpoint' = BuildSecret(kn, ip, getWebNodePort(kn.web, svc))
  /\ informed' = (svc # Nil)
  /\ pc' = "service"
  /\ UNCHANGED <<spec, kn, edited, ready, svc, ingress, url, nodes, up>>

Abandon == kn' = Nil /\ pc' = "idle" /\ ready' = FALSE

\* A Service that exists is left as it is.  A port that another Service has, or
\* none being left, fails the pass.
ReconcileWebService ==
  /\ pc = "service"
  /\ \/ /\ svc # Nil
        /\ pc' = "ingress" /\ UNCHANGED <<kn, ready, svc, informed>>
     \/ /\ svc = Nil
        /\ \E s \in buildWebService(kn.web) : svc' = s
        /\ informed' = FALSE
        /\ pc' = "ingress" /\ UNCHANGED <<kn, ready>>
     \/ /\ svc = Nil
        /\ Abandon /\ UNCHANGED <<svc, informed>>
  /\ UNCHANGED <<spec, edited, ingress, endpoint, url, nodes, up>>

\* So is an Ingress.
ReconcileIngress ==
  /\ pc = "ingress"
  /\ ingress' = IF kn.web.exposeType = "ingress" /\ ingress = Nil
                  THEN buildWebIngress(kn.web) ELSE ingress
  /\ pc' = "check"
  /\ UNCHANGED <<spec, kn, edited, ready, svc, endpoint, url, nodes, up, informed>>

\* Ready counts if the Deployments are up and nobody edited the spec since.
CheckComponentStatus ==
  /\ pc = "check"
  /\ \E ip \in getNodeIP : url' = WebURL(kn.web, svc, ip)
  /\ ready' \in {FALSE, ~edited}
  /\ kn' = Nil /\ pc' = "idle"
  /\ UNCHANGED <<spec, edited, svc, ingress, endpoint, nodes, up, informed>>

-----------------------------------------------------------------------------
(* Users and the cluster.                                                  *)

EditSpec ==
  /\ spec' \in Specs \ {spec}
  /\ edited' = TRUE /\ ready' = FALSE
  /\ UNCHANGED <<kn, pc, svc, ingress, endpoint, url, nodes, up, informed>>

\* Nodes join, leave, and become Ready or not.
NodesChange ==
  /\ nodes' \in SUBSET Nodes /\ up' \in SUBSET nodes'
  /\ UNCHANGED <<spec, kn, edited, pc, ready, svc, ingress, endpoint, url, informed>>

ServiceDeleted ==
  /\ MayDrift /\ svc # Nil
  /\ svc' = Nil /\ informed' = FALSE
  /\ UNCHANGED <<spec, kn, edited, pc, ready, ingress, endpoint, url, nodes, up>>

Pass == Begin \/ ReconcileSecret \/ ReconcileWebService \/ ReconcileIngress \/ CheckComponentStatus

Next == Pass \/ EditSpec \/ NodesChange \/ ServiceDeleted

Spec == Init /\ [][Next]_vars

-----------------------------------------------------------------------------
(* Following an address.                                                   *)

\* The container's port and protocol the address leads to, if any: through the
\* web Service on a node, or through the ingress controller, which ends TLS and
\* redirects http where it has a certificate.
Entrance(address) ==
  CASE svc # Nil /\ address.host \in nodes /\ address.port \in {svc.http} \ {0} ->
         [port |-> 80, ok |-> address.protocol = "http"]
    [] svc # Nil /\ address.host \in nodes /\ address.port \in {svc.https} \ {0} ->
         [port |-> 443, ok |-> address.protocol = "https"]
    [] svc # Nil /\ ingress # Nil /\ address.host = ingress.host /\ address.port = 0 ->
         [port |-> 80, ok |-> (address.protocol = "https") = (ingress.secret # "")]
    [] OTHER -> [port |-> 0, ok |-> FALSE]

\* Who answers at the address with a path appended.
Follow(address, path) ==
  LET entrance == Entrance(address)
  IN  IF entrance.ok THEN Answer(spec, entrance.port, address.path \o path) ELSE Refused

-----------------------------------------------------------------------------
(* Safety.                                                                 *)

\* Service and Ingress are as the builders would make them, port numbers apart,
\* and nginx runs the configuration the operator writes.
OnNodePort ==
  /\ ready /\ spec.web.exposeType = "nodeport" /\ HasNginxConfig(spec.web)
  /\ svc # Nil /\ svc.type = "NodePort" /\ (svc.https > 0) = WebHTTPS(spec.web)

OnIngress ==
  /\ ready /\ spec.web.exposeType = "ingress" /\ HasNginxConfig(spec.web)
  /\ svc # Nil /\ ingress = buildWebIngress(spec.web)

\* Absolute paths without empty or hidden segments.
Plain(path) ==
  /\ path \in Seq(STRING) /\ Len(path) > 1 /\ path[1] = "/"
  /\ \A i \in 1..(Len(path) - 1) : path[i] = "/" => path[i + 1] \notin {"/", "."}

\* Prefixes that nginx can tell from its other locations.  The validator takes
\* any other prefix as well.
WellFormed(prefix) ==
  /\ Plain(prefix) /\ prefix[Len(prefix)] # "/"
  /\ \A l \in APILocations : ~IsPrefix(prefix \o <<"/">>, l.path)

\* The address is derived from the Service rather than configured.
DerivedEndpoint ==
  /\ spec.endpointProxy = "" /\ Enabled(spec.web.minioProxy)
  /\ spec.web.minioProxy.proxyEndpoint = "" /\ WellFormed(GetMinIOProxyPath(spec.web))

\* The objects that no pattern of nginx's takes from MinIO: images and fonts
\* only under /storage, scripts and pages not at all.
Reachable(web) ==
  {o \in ObjectPaths :
     /\ Plain(o) /\ ~HasExtension(o, {"js", "css", "html"})
     /\ HasExtension(o, Assets) => ProxyPath(web) = <<"/", "storage">>}

\* The object's address in the browser ends at MinIO, with MinIO's own path and
\* protocol.
ObjectsServed ==
  \A object \in Reachable(spec.web) :
    Follow(endpoint, object) = <<ProxyScheme(spec), "minio_backend", object>>

\* The start page and every API of the frontend end where they should.
FrontendServed ==
  /\ Follow(url, <<"/">>) = <<"http", "html", <<"/">>>>
  /\ \A l \in APILocations : Follow(url, l.path) = <<"http", l.to, l.path>>

\* Once Ready the MinIO proxy address in the Secret leads to the object in MinIO,
\* if the Service was there when a pass wrote the Secret: the Service keeps its
\* ports through every edit, whatever the spec asks for now, and another pass
\* may have created it (getWebNodePort, BuildSecret, buildLocationBlocks).  A
\* change of exposeType or of HTTPS, which never reaches the Service, leaves no
\* promise until it is undone; neither does the departure of the node, as no
\* pass renews the address.
EndpointFollowsService ==
  OnNodePort /\ DerivedEndpoint /\ informed /\ endpoint.host \in nodes => ObjectsServed

\* Once Ready the WebURL in the status leads to the frontend and its APIs, for as
\* long as the Service it was read from and the node exist, through the same
\* edits (updateAccessInfo, getNodeIP, buildLocationBlocks).
URLServed == OnNodePort /\ url.host \in nodes => FrontendServed

\* Behind an Ingress that is as the spec asks for, both addresses hold whatever
\* the Service was created as, and whatever NodePort section is left in the spec
\* from before (buildHTTPServerBlock, updateAccessInfo).
IngressServed == OnIngress => FrontendServed /\ (DerivedEndpoint => ObjectsServed)

-----------------------------------------------------------------------------
(* Why these hold.                                                         *)

\* The ports of the Service that buildWebService has asked for.
Typed(service) ==
  \/ service.type = "ClusterIP" /\ service.http = 0 /\ service.https = 0
  \/ /\ service.type = "NodePort" /\ service.http # service.https
     /\ service.http \in Ports /\ service.https \in Ports \cup {0}

\* The Secret is from conf, and from the Service if that was there.
SecretFrom(conf) ==
  \E ip \in Nodes \cup {NoNode}, port \in Ports \cup {0, ConfiguredPort(conf.web)} :
    /\ endpoint = BuildSecret(conf, ip, port)
    /\ informed => port = getWebNodePort(conf.web, svc)

ExposureInv ==
  /\ spec \in Specs /\ nodes \subseteq Nodes /\ up \subseteq nodes
  /\ svc # Nil => Typed(svc)
  /\ informed => svc # Nil
  /\ pc # "idle" =>
       /\ ~ready /\ kn \in Specs /\ ValidateKubeNova(kn)
       /\ ~edited => kn = spec
  /\ pc \in {"service", "ingress", "check"} => SecretFrom(kn)
  /\ ready =>
       /\ ValidateKubeNova(spec) /\ SecretFrom(spec)
       /\ svc # Nil => \E ip \in Nodes \cup {NoNode} : url = WebURL(spec.web, svc, ip)
=============================================================================
