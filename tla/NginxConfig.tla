----------------------------- MODULE NginxConfig -----------------------------
(***************************************************************************)
(* Where the web frontend's nginx sends a request, under the configuration *)
(* the operator writes for it (internal/builder/nginx.go).  A path is a    *)
(* sequence of tokens as in KubeNovaConfig, no token a prefix of another.  *)
(*                                                                         *)
(* What a location adds to a reply (headers, caching, limits, timeouts)    *)
(* and the error pages are left out; proxied requests keep their path,     *)
(* except MinIO's.  nginx runs what is in the user's own ConfigMap instead  *)
(* if the spec names one.                                                  *)
(***************************************************************************)
EXTENDS KubeNovaConfig, SequencesExt

-----------------------------------------------------------------------------
(* The configuration.                                                      *)

\* The upstreams of default.conf: Service and port.
Upstreams ==
  [portal_api   |-> <<"portal-api", 8810>>,
   manager_api  |-> <<"manager-api", 8811>>,
   workload_api |-> <<"workload-api", 8812>>,
   console_api  |-> <<"console-api", 8818>>]

Location(path, to) == [path |-> path, to |-> to]

APILocations ==
  {Location(<<"/", "ws", "/", "v1", "/", "pod">>, "console_api"),
   Location(<<"/", "ws", "/", "v1", "/", "site-messages">>, "portal_api"),
   Location(<<"/", "portal">>, "portal_api"),
   Location(<<"/", "manager">>, "manager_api"),
   Location(<<"/", "workload">>, "workload_api"),
   Location(<<"/", "console">>, "console_api")}

\* The proxied prefix, with a slash behind it.
MinIOPrefix(web) == GetMinIOProxyPath(web) \o <<"/">>

MinIOLocations(web) ==
  IF Enabled(web.minioProxy) THEN {Location(MinIOPrefix(web), "minio_backend")} ELSE {}

buildLocationBlocks(web) ==
  {Location(<<"/", "health">>, "health"), Location(<<"/">>, "html")}
    \cup APILocations \cup MinIOLocations(web)

ExactLocations == {<<"/", "favicon", ".", "ico">>, <<"/", "robots", ".", "txt">>}

HasExtension(path, extensions) == \E e \in extensions : IsSuffix(<<".", e>>, path)

Assets ==
  {"jpg", "jpeg", "png", "gif", "ico", "svg", "webp", "woff", "woff2", "ttf", "eot", "otf"}

\* The regular expressions, in their order.
Patterns == <<"asset", "script", "page", "hidden">>

MatchesPattern(pattern, path) ==
  CASE pattern = "asset"  -> /\ HasExtension(path, Assets)
                             /\ ~IsPrefix(<<"/", "storage", "/">>, path)
    [] pattern = "script" -> HasExtension(path, {"js", "css"})
    [] pattern = "page"   -> HasExtension(path, {"html"})
    [] pattern = "hidden" -> \E i \in 1..(Len(path) - 1) : path[i] = "/" /\ path[i + 1] = "."

\* The HTTP server redirects everything when there is an HTTPS server.
Redirects_AnyExposure(web) == web.nodePort # Nil /\ Enabled(web.nodePort.https)

Redirects(web) == WebHTTPS(web)

\* Does nginx run what the operator writes?
HasNginxConfig(web) == web.customNginxConfigMap = ""

ProxyScheme(spec) == IF Enabled(spec.storageTLS) THEN "https" ELSE "http"

-----------------------------------------------------------------------------
(* nginx.                                                                  *)

\* nginx takes several slashes in a row for one.
MergeSlashes(path) ==
  LET kept == {i \in DOMAIN path : i > 1 /\ path[i] = "/" => path[i - 1] # "/"}
  IN  [j \in 1..Cardinality(kept) |->
         path[CHOOSE i \in kept : Cardinality({k \in kept : k <= i}) = j]]

\* An exact location first, then the first regular expression, then the
\* longest prefix.
Destination(web, path) ==
  LET patterns == {i \in DOMAIN Patterns : MatchesPattern(Patterns[i], path)}
      prefixes == {l \in buildLocationBlocks(web) : IsPrefix(l.path, path)}
      longest  == CHOOSE l \in prefixes : \A m \in prefixes : Len(m.path) <= Len(l.path)
  IN  IF path \in ExactLocations THEN "html"
      ELSE IF patterns # {} THEN (IF Patterns[Min(patterns)] = "hidden" THEN "denied" ELSE "html")
      ELSE longest.to

\* The rewrite before proxy_pass takes MinIO's prefix off.
Rewritten(web, path) ==
  <<"/">> \o SubSeq(path, Len(MinIOPrefix(web)) + 1, Len(path))

Refused == <<"refused">>
RedirectedToHTTPS == <<"redirected to https on port 443">>

AsTheUserConfigured == <<"as the user's ConfigMap says">>

\* Who answers a request for path on a port of the container.
Answer(spec, port, rawPath) ==
  IF ~HasNginxConfig(spec.web) THEN AsTheUserConfigured
  ELSE LET path == MergeSlashes(rawPath)
           to   == Destination(spec.web, path)
       IN  CASE port = 80 /\ Redirects(spec.web) -> RedirectedToHTTPS
             [] port = 443 /\ ~WebHTTPS(spec.web) -> Refused
             [] OTHER -> IF to = "minio_backend"
                           THEN <<ProxyScheme(spec), to, Rewritten(spec.web, path)>>
                           ELSE <<"http", to, path>>
=============================================================================
