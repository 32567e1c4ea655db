--------------------------- MODULE MCWebExposure ---------------------------
(* WebExposure on a small instance.                                        *)
EXTENDS WebExposure

Proxy(prefix, configured) ==
  [enabled |-> TRUE, pathPrefix |-> prefix, proxyEndpoint |-> configured]

Web ==
  [replicas |-> 1, image |-> "", resources |-> Nil, exposeType |-> "nodeport",
   ingress |-> [host |-> "nova.example.com", tls |-> Nil],
   nodePort |-> Nil, minioProxy |-> Proxy(<< >>, ""),
   customNginxConfigMap |-> ""]

Base ==
  [filled |-> RequiredFields, databasePort |-> 3306, cachePort |-> 6379,
   cacheType |-> "node", accessSecret |-> 32, refreshSecret |-> 32,
   telemetry |-> Nil, imageRegistry |-> Nil, storageTLS |-> Nil, endpointProxy |-> "",
   services |-> [s \in ServiceNames |-> Nil], web |-> Web]

With(web) == [Base EXCEPT !.web = web]

HTTPSOn(port) == [enabled |-> TRUE, port |-> port, secretName |-> "cert"]
IngressTLS == [enabled |-> TRUE, secretName |-> "cert"]
NodePorts(http, https) == [httpPort |-> http, https |-> https]

\* HTTP ports left open or asked for, with the default 30080 among those a
\* Service may get; an address that is derived, with another prefix, configured,
\* ill-formed, or not wanted; HTTPS, exposeType and the Ingress's TLS switched to
\* and fro; an nginx configuration of the user's.
EditedSpecs ==
  {With([Web EXCEPT !.nodePort = NodePorts(http, https)])
     : http \in {0, 30081}, https \in {Nil, HTTPSOn(0)}}
    \cup {With([Web EXCEPT !.nodePort = NodePorts(30081, HTTPSOn(30080)),
                           !.minioProxy = Proxy(<<"/", "files">>, "")])}
    \cup {With([Web EXCEPT !.minioProxy = p])
             : p \in {Nil, Proxy(<<"/", "files", "/">>, "")}}
    \cup {With([Web EXCEPT !.minioProxy = Proxy(<< >>, "configured"),
                           !.customNginxConfigMap = "own"])}
    \cup {With([Web EXCEPT !.exposeType = "ingress", !.nodePort = NodePorts(0, HTTPSOn(0))])}
    \cup {[With([Web EXCEPT !.exposeType = "ingress", !.ingress.tls = IngressTLS])
             EXCEPT !.storageTLS = IngressTLS]}

SomePorts == {30080, 30081}

\* An object, an image, a script, a hidden one, and two whose paths look like
\* locations of nginx's.
SomeObjects ==
  {<<"/", "bucket", "/", "object">>, <<"/", "bucket", "/", "photo", ".", "png">>,
   <<"/", "bucket", "/", "code", ".", "js">>, <<"/", "bucket", "/", ".", "hidden">>,
   <<"/", "ws", "/", "v1", "/", "pod">>, <<"/", "favicon", ".", "ico">>}

AnyNode == Permutations(Nodes)
=============================================================================
