-------------------------- MODULE MCDeploymentSync --------------------------
(* DeploymentSync on small instances: specs that differ in what the runs   *)
(* are about.                                                              *)
EXTENDS DeploymentSync

Certificate(enabled, secret) == [enabled |-> enabled, secretName |-> secret]

Certificates == {Nil, Certificate(TRUE, "cert-1"), Certificate(TRUE, "")}

\* A service whose resources are written canonically, unlike the defaults.
Service ==
  [enabled |-> Nil, replicas |-> 2, image |-> "", resources |-> <<"200m", "1">>,
   env |-> << >>]

OnIngress ==
  [replicas |-> 1, image |-> "", resources |-> Nil, exposeType |-> "ingress",
   ingress |-> [host |-> "nova.example.com", tls |-> Nil],
   nodePort |-> Nil, minioProxy |-> Nil, customNginxConfigMap |-> ""]

OnNodePort(https) ==
  [OnIngress EXCEPT !.exposeType = "nodeport", !.ingress = Nil,
                    !.nodePort = [httpPort |-> 0, https |-> https]]

Base ==
  [filled |-> RequiredFields, databasePort |-> 3306, cachePort |-> 6379,
   cacheType |-> "node", accessSecret |-> 32, refreshSecret |-> 32,
   telemetry |-> Nil, imageRegistry |-> Nil, storageTLS |-> Nil, endpointProxy |-> "",
   services |-> [s \in ServiceNames |-> Service], web |-> OnIngress]

\* Environments of the same length, or with one variable set twice.
Environments ==
  {<< >>, <<Literal("A", "1")>>, <<Literal("A", "2")>>, <<Literal("TZ", "UTC")>>,
   <<Literal("A", "1"), Literal("A", "2")>>, <<Literal("A", "2"), Literal("A", "1")>>}

WithService(s, config) == [Base EXCEPT !.services[s] = config]

\* Specs that differ in their services.
ServiceSpecs ==
  {WithService("console-api", [Service EXCEPT !.env = e, !.resources = r])
     : e \in Environments, r \in {<<"200m", "1">>, <<"500m", "1">>}}
    \cup {WithService("console-api", Nil),
           WithService("console-api", [Service EXCEPT !.enabled = FALSE]),
           WithService("console-api", [Service EXCEPT !.image = "mine", !.replicas = 3])}
    \cup {[Base EXCEPT !.storageTLS = t] : t \in Certificates}
    \cup {[Base EXCEPT !.imageRegistry =
              [tag |-> "v2", pullPolicy |-> "Always", pullSecrets |-> <<"pull">>]],
           [Base EXCEPT !.accessSecret = 31]}

\* Specs that differ in the web frontend.
HTTPSOptions ==
  {Nil} \cup {[enabled |-> e, port |-> 0, secretName |-> s]
                : e \in BOOLEAN, s \in {"", "cert-1", "cert-2"}}

WebSpecs ==
  {[Base EXCEPT !.web = [OnNodePort(h) EXCEPT !.replicas = r, !.customNginxConfigMap = c]]
     : h \in HTTPSOptions, r \in {1, 3}, c \in {"", "mine"}}
    \cup {[Base EXCEPT !.web.ingress.tls = t] : t \in Certificates}
    \cup {[Base EXCEPT !.web.ingress = Nil]}

EditedSpecs == ServiceSpecs \cup WebSpecs

Followed == ServiceNames \cup {Web}
=============================================================================
