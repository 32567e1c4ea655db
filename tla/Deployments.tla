----------------------------- MODULE Deployments -----------------------------
(***************************************************************************)
(* What the operator's Deployments contain and how a pass notices that one *)
(* has to be written: the Deployment builders                              *)
(* (internal/builder/service.go, internal/builder/web.go), the normalised  *)
(* form the API server stores, and deploymentSpecEqual                     *)
(* (internal/controller/kubenova_controller.go).                           *)
(***************************************************************************)
EXTENDS KubeNovaConfig, ConfigMaps, FiniteSetsExt

Web == "kube-nova-web"

-----------------------------------------------------------------------------
(* The builders.  A volume's source is the object it is filled from.       *)

Mount(name, path) == [name |-> name, path |-> path]
Volume(name, source) == [name |-> name, source |-> source]
Literal(name, value) == [name |-> name, value |-> value, from |-> ""]

NeedCache(name) == name \in {"console-api", "console-rpc"}

\* NeedMinIOCerts, and a secret to take them from.
MinIOCerts(name, kn) ==
  name = "portal-rpc" /\ Enabled(kn.storageTLS) /\ kn.storageTLS.secretName # ""

If(condition, item) == IF condition THEN <<item>> ELSE << >>

getServiceVolumeMounts(name, kn) ==
  <<Mount("config", "/app/etc")>>
    \o If(MinIOCerts(name, kn), Mount("minio-certs", "/app/etc/minio-certs"))
    \o If(NeedCache(name), Mount("cache", "/app/cache"))

getServiceVolumes(name, kn) ==
  <<Volume("config", <<"ConfigMap", name>>)>>
    \o If(MinIOCerts(name, kn),
          Volume("minio-certs", <<"Secret", kn.storageTLS.secretName>>))
    \o If(NeedCache(name), Volume("cache", <<"EmptyDir">>))

PullSecrets(kn) == GetImageRegistry(kn).pullSecrets

buildDeployment(name, kn) ==
  LET cfg == kn.services[name]
      registry == GetImageRegistry(kn)
  IN [replicas |-> GetReplicas(cfg),
      image |-> IF cfg # Nil /\ cfg.image # "" THEN <<cfg.image>> ELSE <<registry.tag, name>>,
      pullPolicy |-> registry.pullPolicy,
      env |-> <<Literal("TZ", "Asia/Shanghai"),
                [name |-> "POD_NAMESPACE", value |-> "", from |-> "metadata.namespace"]>>
              \o (IF cfg = Nil THEN << >> ELSE cfg.env),
      resources |-> IF cfg # Nil /\ cfg.resources # Nil
                      THEN cfg.resources ELSE <<"200m", "1000m">>,
      ports |-> {ServicePort[name], MetricsPort},
      mounts |-> getServiceVolumeMounts(name, kn),
      volumes |-> getServiceVolumes(name, kn),
      serviceAccount |-> "kube-nova-sa",
      pullSecrets |-> PullSecrets(kn)]

getWebPorts(kn) == IF WebHTTPS(kn.web) THEN {80, 443} ELSE {80}

WebCertificate(kn) == WebHTTPS(kn.web) /\ kn.web.nodePort.https.secretName # ""

\* nginx-config is mounted twice, once for each file.
getWebVolumeMounts(kn) ==
  <<Mount("cache", "/var/cache/nginx"), Mount("logs", "/var/log/nginx"),
    Mount("run", "/var/run"),
    Mount("nginx-config", "/etc/nginx/nginx.conf"),
    Mount("nginx-config", "/etc/nginx/conf.d/default.conf")>>
    \o If(WebCertificate(kn), Mount("tls-certs", "/etc/nginx/certs"))

getWebVolumes(kn) ==
  LET custom == kn.web.customNginxConfigMap
      config == IF custom # "" THEN custom ELSE "frontend-nginx-config"
  IN <<Volume("nginx-config", <<"ConfigMap", config>>), Volume("cache", <<"EmptyDir">>),
       Volume("logs", <<"EmptyDir">>), Volume("run", <<"EmptyDir">>)>>
       \o If(WebCertificate(kn),
             Volume("tls-certs", <<"Secret", kn.web.nodePort.https.secretName>>))

buildWebDeployment(kn) ==
  LET registry == GetImageRegistry(kn)
  IN [replicas |-> GetWebReplicas(kn.web),
      image |-> IF kn.web.image # "" THEN <<kn.web.image>> ELSE <<registry.tag, Web>>,
      pullPolicy |-> registry.pullPolicy,
      env |-> <<Literal("TZ", "Asia/Shanghai"), Literal("NGINX_WORKER_PROCESSES", "auto"),
                Literal("NGINX_WORKER_CONNECTIONS", "4096")>>,
      resources |-> IF kn.web.resources # Nil THEN kn.web.resources ELSE <<"100m", "500m">>,
      ports |-> getWebPorts(kn),
      mounts |-> getWebVolumeMounts(kn),
      volumes |-> getWebVolumes(kn),
      serviceAccount |-> "",
      pullSecrets |-> PullSecrets(kn)]

Desired(w, kn) == IF w = Web THEN buildWebDeployment(kn) ELSE buildDeployment(w, kn)

\* The Deployments a pass ensures.
Wanted(w, kn) == w # Web => IsServiceEnabled(kn.services[w])

-----------------------------------------------------------------------------
(* The API server: quantities are stored in canonical form, a fieldRef gets *)
(* its apiVersion and a ConfigMap or Secret volume its defaultMode.  Of the  *)
(* quantities the builders and the specs use only one is not canonical.     *)

Canonical(quantity) == IF quantity = "1000m" THEN "1" ELSE quantity

StoredResources(resources) == [i \in DOMAIN resources |-> Canonical(resources[i])]

StoredEnv(env) ==
  [i \in DOMAIN env |->
     IF env[i].from = "metadata.namespace"
       THEN [env[i] EXCEPT !.from = "v1:metadata.namespace"] ELSE env[i]]

StoredVolumes(volumes) ==
  [i \in DOMAIN volumes |->
     IF Len(volumes[i].source) = 2
       THEN [volumes[i] EXCEPT !.source = Append(@, "0644")] ELSE volumes[i]]

Normalise(d) ==
  [d EXCEPT !.resources = StoredResources(d.resources), !.env = StoredEnv(d.env),
            !.volumes = StoredVolumes(d.volumes)]

-----------------------------------------------------------------------------
(* deploymentSpecEqual.                                                    *)

\* A map filled from some of a sequence's entries: later ones replace earlier ones.
Latest(entries, I) ==
  [name \in {entries[i].name : i \in I} |->
     entries[Max({i \in I : entries[i].name = name})]]

ByName(entries) == Latest(entries, DOMAIN entries)

Literals(env) == Latest(env, {i \in DOMAIN env : env[i].value # ""})

compareEnvVars_NamesOnly(a, b) ==
  Len(a) = Len(b) /\ DOMAIN Literals(a) = DOMAIN Literals(b)

compareEnvVars_DeepEqual(a, b) == a = b

compareEnvVars(a, b) ==
  /\ Len(a) = Len(b)
  /\ DOMAIN Literals(a) = DOMAIN Literals(b)
  /\ \A name \in DOMAIN Literals(a) : Literals(a)[name].value = Literals(b)[name].value

compareResourceRequirements(a, b) == a = b

compareVolumeMounts(a, b) ==
  /\ Len(a) = Len(b)
  /\ \A i \in DOMAIN b :
       b[i].name \in DOMAIN ByName(a) /\ ByName(a)[b[i].name].path = b[i].path

compareVolumes(a, b) ==
  /\ Len(a) = Len(b)
  /\ \A i \in DOMAIN b : b[i].name \in DOMAIN ByName(a)

deploymentSpecEqual(existing, desired) ==
  /\ existing.replicas = desired.replicas
  /\ existing.image = desired.image
  /\ compareEnvVars(existing.env, desired.env)
  /\ compareResourceRequirements(existing.resources, desired.resources)
  /\ compareVolumeMounts(existing.mounts, desired.mounts)
  /\ compareVolumes(existing.volumes, desired.volumes)
  /\ existing.serviceAccount = desired.serviceAccount
=============================================================================
