--------------------------- MODULE DeploymentSync ---------------------------
(***************************************************************************)
(* One of the operator's Deployments over edits of the spec and changes by *)
(* others.  Module Reconciler has the rest of a pass: here a stage either  *)
(* runs or does not.                                                       *)
(***************************************************************************)
EXTENDS Deployments

CONSTANTS
  Specs,      \* the KubeNovaSpec values users write
  Workloads   \* the Deployments to choose from: service names, Web

ASSUME WorkloadsAssumption == Workloads \subseteq ServiceNames \cup {Web}

ASSUME SpecsAssumption == \A kn \in Specs : kn \in KubeNovaSpec

\* An absent Deployment is none that a pass makes.
ASSUME NilAssumption ==
  \A w \in Workloads, kn \in Specs : Normalise(Desired(w, kn)) # Nil

VARIABLES
  workload, \* the Deployment followed
  spec,     \* the KubeNova's spec
  stored,   \* the Deployment in the API server, or Nil
  applied,  \* has a pass been through it since the spec or it last changed?
  sent,     \* what the operator last sent, Nil once somebody changed it
  parity    \* is the number of times it was sent odd?

vars == <<workload, spec, stored, applied, sent, parity>>

-----------------------------------------------------------------------------
Init ==
  /\ workload \in Workloads
  /\ spec \in Specs
  /\ stored = Nil /\ applied = FALSE /\ sent = Nil /\ parity = FALSE

\* An update writes every part of the Deployment that is modelled; only the
\* web's leaves the service account alone, which neither side ever sets.
Deploy ==
  /\ ValidateKubeNova(spec) /\ Wanted(workload, spec)
  /\ LET desired == Desired(workload, spec) IN
       IF stored # Nil /\ deploymentSpecEqual(stored, desired)
         THEN UNCHANGED <<stored, sent, parity>>
         ELSE stored' = Normalise(desired) /\ sent' = desired /\ parity' = ~parity
  /\ applied' = TRUE
  /\ UNCHANGED <<workload, spec>>

EditSpec ==
  /\ spec' \in Specs \ {spec}
  /\ applied' = FALSE
  /\ UNCHANGED <<workload, stored, sent, parity>>

\* Somebody else scales the Deployment or sets an environment variable.
Meddle ==
  /\ stored # Nil
  /\ \/ stored' = [stored EXCEPT !.replicas = 0]
     \/ stored' = [stored EXCEPT !.env[1].value = "UTC"]
  /\ applied' = FALSE /\ sent' = Nil
  /\ UNCHANGED <<workload, spec, parity>>

Next == EditSpec \/ Deploy \/ Meddle

Spec == Init /\ [][Next]_vars

-----------------------------------------------------------------------------
(* Safety.                                                                 *)

\* What the pods of a Deployment run with, apart from what they pull and
\* where their volumes are filled from.  The last of several entries for one
\* environment variable counts.
Effective(d) ==
  [replicas |-> d.replicas, image |-> d.image, resources |-> d.resources,
   env |-> ByName(d.env),
   mounts |-> {d.mounts[i] : i \in DOMAIN d.mounts},
   volumes |-> {d.volumes[i].name : i \in DOMAIN d.volumes},
   serviceAccount |-> d.serviceAccount]

\* Once a pass has been through a Deployment its pods run with what the spec
\* asks for, whichever edits and outside changes came before: a comparison
\* that is too lenient leaves the old pods running, and phase Ready ends
\* reconciling (deploymentSpecEqual, reconcileServices, reconcileWeb).
EditsReachPods ==
  applied => Effective(stored) = Effective(Normalise(Desired(workload, spec)))

\* What is sent was not sent before, or somebody changed it since.
Real == parity' # parity => sent = Nil \/ sent # Desired(workload, spec)

\* Where the comparison never finds a Deployment equal to what was sent: the web's
\* nginx-config is mounted twice, and DeepEqual sees the notation of a quantity.
NeverEqual ==
  LET desired == Desired(workload, spec) IN
    workload = Web \/ Normalise(desired).resources # desired.resources

\* A Deployment is sent again only if somebody changed it or the spec now asks
\* for something else ("只在 Spec 有实质变化时才更新").  What the API server stores
\* differs from what it was sent, and a comparison that sees the difference
\* writes on every pass; beyond the two places known it sees none
\* (deploymentSpecEqual).
OnlyRealChanges == [][~NeverEqual => Real]_vars

\* What one builder assumes of the others holds in every Deployment a pass has
\* been through: mounts have a volume, BuildSecret's MINIO_CA_FILE is mounted
\* into portal-rpc when MinIO speaks TLS, and the https server block of
\* buildDefaultConf has its port and its certificates.  The validator is what
\* makes it so, and an edit that switches TLS must not be missed.  A service
\* listens on the ports its container and its Service declare, finds a value for
\* every placeholder of its configuration, and calls Services on ports they have.
Wired ==
  applied =>
    LET mounted == {stored.mounts[i].name : i \in DOMAIN stored.mounts}
        paths   == {stored.mounts[i].path : i \in DOMAIN stored.mounts}
        defined == SecretKeys \cup DOMAIN ByName(stored.env)
        text    == BuildAllConfigMaps[workload]
    IN /\ mounted \subseteq {stored.volumes[i].name : i \in DOMAIN stored.volumes}
       /\ workload = "portal-rpc" /\ Enabled(spec.storageTLS) => "/app/etc/minio-certs" \in paths
       /\ workload = Web /\ WebHTTPS(spec.web) => 443 \in stored.ports /\ "/etc/nginx/certs" \in paths
       /\ workload # Web =>
            /\ text.listen = stored.ports
            /\ text.keys \subseteq defined
            /\ \A call \in text.calls : call = <<call[1], ServicePort[call[1]]>>

-----------------------------------------------------------------------------
(* Why these hold.                                                         *)

\* A service's Deployment is as some spec had it made, but for its replicas and
\* for an environment variable that somebody has set.
FromSpec(d, kn) ==
  LET made == Normalise(Desired(workload, kn)) IN
    /\ DOMAIN d = DOMAIN made
    /\ d.resources = made.resources /\ d.ports = made.ports
    /\ d.mounts = made.mounts /\ d.volumes = made.volumes
    /\ \E zone \in {"Asia/Shanghai", "UTC"} :
         d.env = [made.env EXCEPT ![1] = Literal("TZ", zone)]

\* What deploymentSpecEqual compares, apart from the environment.
SameButEnv(d, e) ==
  /\ d.replicas = e.replicas /\ d.image = e.image /\ d.resources = e.resources
  /\ d.ports = e.ports /\ d.mounts = e.mounts /\ d.serviceAccount = e.serviceAccount
  /\ {d.volumes[i].name : i \in DOMAIN d.volumes} = {e.volumes[i].name : i \in DOMAIN e.volumes}

SyncInv ==
  /\ workload \in Workloads /\ spec \in Specs
  /\ workload # Web /\ (applied \/ stored # Nil) => \E kn \in Specs : FromSpec(stored, kn)
  /\ sent # Nil => stored # Nil /\ stored = Normalise(sent)
  /\ applied =>
       LET desired == Normalise(Desired(workload, spec)) IN
         /\ ValidateKubeNova(spec) /\ Wanted(workload, spec)
         /\ IF workload = Web THEN stored = desired ELSE SameButEnv(stored, desired)

\* Where EditsReachPods holds: users write environment variables with their
\* values, and not with empty ones.
Literally(kn) ==
  \A w \in ServiceNames :
    kn.services[w] # Nil =>
      \A i \in DOMAIN kn.services[w].env :
        kn.services[w].env[i].value # "" /\ kn.services[w].env[i].from = ""

EnvInv ==
  (\A kn \in Specs : Literally(kn)) /\ applied =>
    ByName(stored.env) = ByName(Normalise(Desired(workload, spec)).env)
=============================================================================
