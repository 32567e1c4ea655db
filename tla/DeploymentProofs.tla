--------------------------- MODULE DeploymentProofs ---------------------------
(* Proofs about DeploymentSync for any specs.                              *)
EXTENDS DeploymentSync, SequenceTheorems, WellFoundedInduction, TLAPS

-----------------------------------------------------------------------------
(* Maps filled from sequences.                                             *)

\* A bounded set of numbers that is not empty has a greatest one.
LEMMA GreatestExists ==
  ASSUME NEW S \in SUBSET Nat, S # {}, NEW n \in Nat, \A i \in S : i <= n
  PROVE  \E m \in S : \A i \in S : i <= m
<1> DEFINE U == {u \in Nat : \A i \in S : i <= u}
<1>1. \E u \in U : \A v \in U : ~(<<v, u>> \in OpToRel(<, Nat))
  <2>1. U \subseteq Nat /\ U # {}
    OBVIOUS
  <2> QED BY <2>1, NatLessThanWellFounded, WFMin
<1>2. PICK u \in U : \A v \in U : ~(v < u)
  BY <1>1 DEF OpToRel
<1>3. CASE u \in S
  BY <1>3
<1>4. CASE u \notin S
  <2>1. PICK i \in S : TRUE
    OBVIOUS
  <2>2. u # 0 /\ \A j \in S : j < u
    BY <1>4, <2>1
  <2>3. u - 1 \in U
    BY <2>2
  <2> QED BY <1>2, <2>2, <2>3
<1> QED BY <1>3, <1>4

LEMMA MaxIs ==
  ASSUME NEW S \in SUBSET Nat, NEW m \in S, \A i \in S : i <= m
  PROVE  Max(S) = m
<1>1. \A x \in S : (\A y \in S : x >= y) => x = m
  BY Z3
<1>2. \A y \in S : m >= y
  OBVIOUS
<1> QED BY <1>1, <1>2 DEF Max

-----------------------------------------------------------------------------
(* What the builders make.                                                 *)

LEMMA Pair == ASSUME NEW a, NEW b PROVE <<a>> \o <<b>> = <<a, b>>
<1> DEFINE S == {a, b}
<1>1. <<a>> \in Seq(S) /\ <<b>> \in Seq(S) /\ <<a, b>> \in Seq(S)
  OBVIOUS
<1>2. Len(<<a>> \o <<b>>) = Len(<<a, b>>) /\ <<a>> \o <<b>> \in Seq(S)
  BY <1>1, ConcatProperties
<1>3. \A i \in 1..Len(<<a, b>>) : (<<a>> \o <<b>>)[i] = <<a, b>>[i]
  BY <1>1, ConcatProperties
<1> QED BY <1>1, <1>2, <1>3, SeqEqual

LEMMA Single == ASSUME NEW a PROVE <<a>> \o << >> = <<a>>
OBVIOUS

\* A first item and two optional ones of which at most one is there.
LEMMA AtMostTwo ==
  ASSUME NEW a, NEW b, NEW c
  PROVE  /\ <<a>> \o << >> \o << >> = <<a>>
         /\ <<a>> \o <<b>> \o << >> = <<a, b>>
         /\ <<a>> \o << >> \o <<c>> = <<a, c>>
<1>1. <<a, b>> \o << >> = <<a, b>>
  OBVIOUS
<1> QED BY <1>1, Single, Pair

\* The mounts and volumes of a service depend on two conditions, never both true.
LEMMA ServiceMounts ==
  ASSUME NEW w \in ServiceNames, NEW kn
  PROVE  getServiceVolumeMounts(w, kn) =
           IF MinIOCerts(w, kn)
             THEN <<Mount("config", "/app/etc"), Mount("minio-certs", "/app/etc/minio-certs")>>
             ELSE IF NeedCache(w) THEN <<Mount("config", "/app/etc"), Mount("cache", "/app/cache")>>
             ELSE <<Mount("config", "/app/etc")>>
<1>1. MinIOCerts(w, kn) => ~NeedCache(w)
  BY DEF MinIOCerts, NeedCache
<1>2. CASE MinIOCerts(w, kn)
  BY <1>1, <1>2, AtMostTwo DEF getServiceVolumeMounts, If
<1>3. CASE ~MinIOCerts(w, kn) /\ NeedCache(w)
  BY <1>3, AtMostTwo DEF getServiceVolumeMounts, If
<1>4. CASE ~MinIOCerts(w, kn) /\ ~NeedCache(w)
  BY <1>4, AtMostTwo DEF getServiceVolumeMounts, If
<1> QED BY <1>2, <1>3, <1>4

LEMMA ServiceVolumes ==
  ASSUME NEW w \in ServiceNames, NEW kn
  PROVE  getServiceVolumes(w, kn) =
           IF MinIOCerts(w, kn)
             THEN <<Volume("config", <<"ConfigMap", w>>),
                    Volume("minio-certs", <<"Secret", kn.storageTLS.secretName>>)>>
             ELSE IF NeedCache(w) THEN <<Volume("config", <<"ConfigMap", w>>), Volume("cache", <<"EmptyDir">>)>>
             ELSE <<Volume("config", <<"ConfigMap", w>>)>>
<1>1. MinIOCerts(w, kn) => ~NeedCache(w)
  BY DEF MinIOCerts, NeedCache
<1>2. CASE MinIOCerts(w, kn)
  BY <1>1, <1>2, AtMostTwo DEF getServiceVolumes, If
<1>3. CASE ~MinIOCerts(w, kn) /\ NeedCache(w)
  BY <1>3, AtMostTwo DEF getServiceVolumes, If
<1>4. CASE ~MinIOCerts(w, kn) /\ ~NeedCache(w)
  BY <1>4, AtMostTwo DEF getServiceVolumes, If
<1> QED BY <1>2, <1>3, <1>4

\* Two items of its own before the others.
LEMMA TwoBefore ==
  ASSUME NEW S, NEW a \in S, NEW b \in S, NEW rest \in Seq(S), NEW all, all = <<a, b>> \o rest
  PROVE  /\ all \in Seq(S) /\ Len(all) >= 2 /\ all[1] = a /\ all[2] = b
         /\ \A i \in 3..Len(all) : i - 2 \in DOMAIN rest /\ all[i] = rest[i - 2]
<1> DEFINE own == <<a, b>>
<1>1. own \in Seq(S) /\ Len(own) = 2 /\ own[1] = a /\ own[2] = b
  OBVIOUS
<1>2. all = own \o rest
  OBVIOUS
<1> HIDE DEF own
<1>3. /\ all \in Seq(S) /\ Len(all) = 2 + Len(rest)
      /\ \A i \in 1..2 + Len(rest) : all[i] = IF i <= 2 THEN own[i] ELSE rest[i - 2]
  BY <1>1, <1>2, ConcatProperties
<1>4. Len(rest) \in Nat /\ DOMAIN rest = 1..Len(rest)
  OBVIOUS
<1> QED BY <1>1, <1>3, <1>4

Zone == Literal("TZ", "Asia/Shanghai")

Namespace == [name |-> "POD_NAMESPACE", value |-> "", from |-> "metadata.namespace"]

\* The environment of a service: two entries of its own, then the user's.
LEMMA ServiceEnv ==
  ASSUME NEW w \in ServiceNames, NEW kn \in KubeNovaSpec, NEW env, env = buildDeployment(w, kn).env
  PROVE  /\ Len(env) \in Nat /\ DOMAIN env = 1..Len(env) /\ Len(env) >= 2
         /\ env[1] = Zone /\ env[2] = Namespace
         /\ \A i \in 3..Len(env) : /\ kn.services[w] # Nil
                                   /\ i - 2 \in DOMAIN kn.services[w].env
                                   /\ env[i] = kn.services[w].env[i - 2] /\ env[i] \in EnvVar
<1> DEFINE user == IF kn.services[w] = Nil THEN << >> ELSE kn.services[w].env
           S == EnvVar \cup {Zone, Namespace}
<1>1. kn.services[w] \in {Nil} \cup ServiceConfig
  BY DEF KubeNovaSpec, Optional
<1>2. user \in Seq(EnvVar)
  <2>1. kn.services[w] \in ServiceConfig => kn.services[w].env \in Seq(EnvVar)
    BY DEF ServiceConfig
  <2>2. << >> \in Seq(EnvVar)
    OBVIOUS
  <2> QED BY <1>1, <2>1, <2>2
<1>3. env = <<Zone, Namespace>> \o user
  BY DEF buildDeployment, Zone, Namespace
<1>4. DOMAIN user # {} => kn.services[w] # Nil /\ user = kn.services[w].env
  OBVIOUS
<1> HIDE DEF user
<1>5. user \in Seq(S) /\ \A i \in DOMAIN user : user[i] \in EnvVar
  BY <1>2
<1> HIDE DEF S
<1>6. Zone \in S /\ Namespace \in S
  BY DEF S
<1>7. /\ env \in Seq(S) /\ Len(env) >= 2 /\ env[1] = Zone /\ env[2] = Namespace
      /\ \A i \in 3..Len(env) : i - 2 \in DOMAIN user /\ env[i] = user[i - 2]
  BY <1>3, <1>5, <1>6, TwoBefore
<1> QED BY <1>1, <1>4, <1>5, <1>7

\* What the API server makes of a service's Deployment.
LEMMA NormaliseService ==
  ASSUME NEW w, NEW kn, NEW d, d = buildDeployment(w, kn), NEW n, n = Normalise(d)
  PROVE  /\ n.replicas = d.replicas /\ n.image = d.image /\ n.ports = d.ports
         /\ n.mounts = d.mounts /\ n.serviceAccount = d.serviceAccount
         /\ n.resources = StoredResources(d.resources)
         /\ n.env = StoredEnv(d.env) /\ n.volumes = StoredVolumes(d.volumes)
         /\ DOMAIN n = {"replicas", "image", "pullPolicy", "env", "resources", "ports", "mounts",
                        "volumes", "serviceAccount", "pullSecrets"}
<1>1. DOMAIN d = {"replicas", "image", "pullPolicy", "env", "resources", "ports", "mounts",
                  "volumes", "serviceAccount", "pullSecrets"}
  BY DEF buildDeployment
<1> QED BY <1>1 DEF Normalise

-----------------------------------------------------------------------------
(* The comparison of environments.                                         *)

Entries(entries) == Len(entries) \in Nat /\ DOMAIN entries = 1..Len(entries)

NameAt(entries, i) == entries[i].name
ValueAt(entries, i) == entries[i].value
HasValue(entries, i) == entries[i].value # ""

\* Under each name is the last of its entries.
LEMMA LatestIs ==
  ASSUME NEW entries, Entries(entries), NEW I \in SUBSET DOMAIN entries, NEW name \in DOMAIN Latest(entries, I)
  PROVE  \E m \in I : /\ NameAt(entries, m) = name /\ Latest(entries, I)[name] = entries[m]
                      /\ \A i \in I : NameAt(entries, i) = name => i <= m
<1> DEFINE J == {i \in I : NameAt(entries, i) = name}
<1>1. J \in SUBSET Nat /\ J # {} /\ \A i \in J : i <= Len(entries)
  BY DEF Entries, Latest, NameAt
<1>2. Latest(entries, I)[name] = entries[Max(J)]
  BY DEF Latest, NameAt
<1>3. Len(entries) \in Nat
  BY DEF Entries
<1> HIDE DEF J
<1>4. PICK m \in J : \A i \in J : i <= m
  BY <1>1, <1>3, GreatestExists
<1>5. Max(J) = m
  BY <1>1, <1>4, MaxIs
<1> QED BY <1>2, <1>4, <1>5 DEF J

\* The environment of a service's Deployment as it is stored: its own two entries
\* first, and all but the second are literals.
StoredNamespace == [name |-> "POD_NAMESPACE", value |-> "", from |-> "v1:metadata.namespace"]

OwnFirst(env) ==
  /\ Entries(env) /\ Len(env) >= 2
  /\ NameAt(env, 1) = "TZ" /\ HasValue(env, 1)
  /\ NameAt(env, 2) = "POD_NAMESPACE" /\ ~HasValue(env, 2) /\ env[2] = StoredNamespace

Plain(env) ==
  \A i \in DOMAIN env \ {2} :
    HasValue(env, i) /\ env[i] = Literal(NameAt(env, i), ValueAt(env, i))

LiteralEntries(env) == {i \in DOMAIN env : HasValue(env, i)}

LEMMA NamesOf ==
  ASSUME NEW env
  PROVE  /\ Literals(env) = Latest(env, LiteralEntries(env)) /\ ByName(env) = Latest(env, DOMAIN env)
         /\ DOMAIN Literals(env) = {NameAt(env, i) : i \in LiteralEntries(env)}
         /\ DOMAIN ByName(env) = {NameAt(env, i) : i \in DOMAIN env}
<1>1. Literals(env) = Latest(env, LiteralEntries(env)) /\ ByName(env) = Latest(env, DOMAIN env)
  BY Zenon DEF Literals, ByName, LiteralEntries, HasValue
<1> QED BY <1>1 DEF Latest, NameAt

LEMMA InByName ==
  ASSUME NEW entries
  PROVE  \A name : name \in DOMAIN ByName(entries) <=> \E i \in DOMAIN entries : NameAt(entries, i) = name
BY DEF ByName, Latest, NameAt

\* What such an environment sets follows from its literals, though a user may
\* set POD_NAMESPACE too.
LEMMA PlainByName ==
  ASSUME NEW env, OwnFirst(env), Plain(env)
  PROVE  /\ DOMAIN ByName(env) = DOMAIN Literals(env) \cup {"POD_NAMESPACE"}
         /\ \A name \in DOMAIN ByName(env) :
              ByName(env)[name] = IF name \in DOMAIN Literals(env)
                                    THEN Literal(name, Literals(env)[name].value) ELSE StoredNamespace
<1>1. /\ 1 \in DOMAIN env /\ 2 \in DOMAIN env /\ DOMAIN env \subseteq Nat \ {0} /\ Entries(env)
      /\ NameAt(env, 1) = "TZ" /\ NameAt(env, 2) = "POD_NAMESPACE" /\ ~HasValue(env, 2)
      /\ env[2] = StoredNamespace
  BY DEF OwnFirst, Entries
<1>2. LiteralEntries(env) = DOMAIN env \ {2}
  BY <1>1 DEF Plain, LiteralEntries
<1>3. Literals(env) = Latest(env, LiteralEntries(env)) /\ ByName(env) = Latest(env, DOMAIN env)
  BY NamesOf
<1>4. /\ DOMAIN Literals(env) = {NameAt(env, i) : i \in LiteralEntries(env)}
      /\ DOMAIN ByName(env) = {NameAt(env, i) : i \in DOMAIN env}
  BY NamesOf
<1>5. DOMAIN ByName(env) = DOMAIN Literals(env) \cup {"POD_NAMESPACE"}
  BY <1>1, <1>2, <1>4
<1>6. ASSUME NEW name \in DOMAIN Literals(env)
      PROVE  ByName(env)[name] = Literal(name, Literals(env)[name].value)
  <2>1. PICK m \in LiteralEntries(env) :
          /\ NameAt(env, m) = name /\ Literals(env)[name] = env[m]
          /\ \A i \in LiteralEntries(env) : NameAt(env, i) = name => i <= m
    BY <1>1, <1>2, <1>3, LatestIs
  <2>2. PICK l \in DOMAIN env :
          /\ NameAt(env, l) = name /\ ByName(env)[name] = env[l]
          /\ \A i \in DOMAIN env : NameAt(env, i) = name => i <= l
    BY <1>1, <1>3, <1>5, LatestIs
  <2>3. m # 2 /\ l >= m
    BY <1>2, <2>1, <2>2
  <2>4. CASE l # 2
    <3>1. l <= m
      BY <1>2, <2>1, <2>2, <2>4
    <3>2. l = m
      BY <1>1, <1>2, <2>3, <3>1
    <3>3. Literals(env)[name].value = ValueAt(env, m)
      BY <2>1 DEF ValueAt
    <3> QED BY <1>2, <2>1, <2>2, <2>4, <3>2, <3>3 DEF Plain
  <2>5. CASE l = 2
    <3>1. m = 1 /\ name = "POD_NAMESPACE"
      BY <1>1, <1>2, <2>2, <2>3, <2>5
    <3> QED BY <1>1, <2>1, <3>1
  <2> QED BY <2>4, <2>5
<1>7. ASSUME NEW name \in DOMAIN ByName(env), name \notin DOMAIN Literals(env)
      PROVE  ByName(env)[name] = StoredNamespace
  <2>1. PICK l \in DOMAIN env : NameAt(env, l) = name /\ ByName(env)[name] = env[l]
    BY <1>1, <1>3, LatestIs
  <2>2. l = 2
    BY <1>2, <1>4, <1>7, <2>1
  <2> QED BY <1>1, <2>1, <2>2
<1> QED BY <1>5, <1>6, <1>7

\* The API server changes neither names nor values.
Fielded(env) == Entries(env) /\ \A i \in DOMAIN env : {"name", "value"} \subseteq DOMAIN env[i]

LEMMA StoredEntries ==
  ASSUME NEW env, Fielded(env), NEW s, s = StoredEnv(env)
  PROVE  /\ Entries(s) /\ DOMAIN s = DOMAIN env /\ Len(s) = Len(env)
         /\ \A i \in DOMAIN env : /\ NameAt(s, i) = NameAt(env, i) /\ ValueAt(s, i) = ValueAt(env, i)
                                  /\ HasValue(s, i) = HasValue(env, i)
<1>1. DOMAIN s = DOMAIN env
  BY DEF StoredEnv
<1>2. Entries(s) /\ Len(s) = Len(env)
  BY <1>1 DEF Fielded, Entries
<1>3. ASSUME NEW i \in DOMAIN env
      PROVE  NameAt(s, i) = NameAt(env, i) /\ ValueAt(s, i) = ValueAt(env, i)
  BY <1>3 DEF StoredEnv, Fielded, NameAt, ValueAt
<1>4. ASSUME NEW i \in DOMAIN env PROVE HasValue(s, i) = HasValue(env, i)
  BY <1>3, Zenon DEF HasValue, ValueAt
<1> QED BY <1>1, <1>2, <1>3, <1>4

LEMMA StoredLiterals ==
  ASSUME NEW env, Fielded(env), NEW s, s = StoredEnv(env)
  PROVE  /\ DOMAIN Literals(s) = DOMAIN Literals(env)
         /\ \A name \in DOMAIN Literals(env) : Literals(s)[name].value = Literals(env)[name].value
<1>1. /\ Entries(s) /\ DOMAIN s = DOMAIN env /\ DOMAIN env \subseteq Nat /\ Entries(env)
      /\ \A i \in DOMAIN env : /\ NameAt(s, i) = NameAt(env, i) /\ ValueAt(s, i) = ValueAt(env, i)
                               /\ HasValue(s, i) = HasValue(env, i)
  BY StoredEntries DEF Fielded, Entries
<1>2. LiteralEntries(s) = LiteralEntries(env) /\ LiteralEntries(env) \in SUBSET DOMAIN env
  BY <1>1 DEF LiteralEntries
<1>3. Literals(s) = Latest(s, LiteralEntries(s)) /\ Literals(env) = Latest(env, LiteralEntries(env))
  BY NamesOf
<1>4. DOMAIN Literals(s) = {NameAt(s, i) : i \in LiteralEntries(s)}
  BY <1>3 DEF Latest, NameAt
<1>5. DOMAIN Literals(s) = DOMAIN Literals(env)
  <2>1. DOMAIN Literals(env) = {NameAt(env, i) : i \in LiteralEntries(env)}
    BY <1>3 DEF Latest, NameAt
  <2> QED BY <1>1, <1>2, <1>4, <2>1
<1>6. ASSUME NEW name \in DOMAIN Literals(env)
      PROVE  Literals(s)[name].value = Literals(env)[name].value
  <2>1. PICK m \in LiteralEntries(env) :
          /\ NameAt(env, m) = name /\ Literals(env)[name] = env[m]
          /\ \A i \in LiteralEntries(env) : NameAt(env, i) = name => i <= m
    BY <1>1, <1>2, <1>3, LatestIs
  <2>2. PICK l \in LiteralEntries(s) :
          /\ NameAt(s, l) = name /\ Literals(s)[name] = s[l]
          /\ \A i \in LiteralEntries(s) : NameAt(s, i) = name => i <= l
    BY <1>1, <1>2, <1>3, <1>5, LatestIs
  <2>3. l = m
    BY <1>1, <1>2, <2>1, <2>2
  <2>4. Literals(s)[name].value = ValueAt(s, l) /\ Literals(env)[name].value = ValueAt(env, m)
    BY <2>1, <2>2 DEF ValueAt
  <2> QED BY <1>1, <1>2, <2>3, <2>4
<1> QED BY <1>5, <1>6

\* Environments that compare as equal set the same, where all but the one entry
\* are literals.
LEMMA EqualEnvironments ==
  ASSUME NEW a, OwnFirst(a), Plain(a), NEW env, Fielded(env), NEW b, b = StoredEnv(env),
         OwnFirst(b), Plain(b), compareEnvVars(a, env)
  PROVE  ByName(a) = ByName(b)
<1>1. /\ DOMAIN Literals(a) = DOMAIN Literals(b)
      /\ \A name \in DOMAIN Literals(a) : Literals(a)[name].value = Literals(b)[name].value
  BY StoredLiterals DEF compareEnvVars
<1>2. DOMAIN ByName(a) = DOMAIN ByName(b)
  BY <1>1, PlainByName
<1>3. \A name \in DOMAIN ByName(a) : ByName(a)[name] = ByName(b)[name]
  BY <1>1, <1>2, PlainByName
<1>4. /\ ByName(a) = [name \in DOMAIN ByName(a) |-> ByName(a)[name]]
      /\ ByName(b) = [name \in DOMAIN ByName(b) |-> ByName(b)[name]]
  BY DEF ByName, Latest
<1> QED BY <1>2, <1>3, <1>4

-----------------------------------------------------------------------------
(* The environment of a service, as it is made, stored and meddled with.   *)

LEMMA LiteralOf ==
  ASSUME NEW e \in EnvVar, NEW none, e.from = none
  PROVE  e = [name |-> e.name, value |-> e.value, from |-> none]
BY DEF EnvVar

LEMMA StoredReference ==
  ASSUME NEW none, NEW e, e = [name |-> "POD_NAMESPACE", value |-> none, from |-> "metadata.namespace"]
  PROVE  /\ e.from = "metadata.namespace" /\ {"name", "value"} \subseteq DOMAIN e
         /\ [e EXCEPT !.from = "v1:metadata.namespace"] =
              [name |-> "POD_NAMESPACE", value |-> none, from |-> "v1:metadata.namespace"]
OBVIOUS

LEMMA OwnFields ==
  /\ Namespace.from = "metadata.namespace" /\ {"name", "value"} \subseteq DOMAIN Namespace
  /\ [Namespace EXCEPT !.from = "v1:metadata.namespace"] = StoredNamespace
BY StoredReference, Zenon DEF Namespace, StoredNamespace

LEMMA LiteralFields ==
  ASSUME NEW name, NEW value, NEW none, NEW e, e = [name |-> name, value |-> value, from |-> none]
  PROVE  /\ e.name = name /\ e.value = value /\ e.from = none
         /\ DOMAIN e = {"name", "value", "from"}
         /\ \A v : [e EXCEPT !.value = v] = [name |-> name, value |-> v, from |-> none]
OBVIOUS

LEMMA LiteralHas ==
  ASSUME NEW name, NEW value
  PROVE  /\ Literal(name, value).name = name /\ Literal(name, value).value = value
         /\ DOMAIN Literal(name, value) = {"name", "value", "from"}
         /\ \A v : [Literal(name, value) EXCEPT !.value = v] = Literal(name, v)
<1>1. PICK none : none = ""
  BY Zenon
<1>2. \A v : Literal(name, v) = [name |-> name, value |-> v, from |-> none]
  BY <1>1, Zenon DEF Literal
<1>3. /\ Literal(name, value).name = name /\ Literal(name, value).value = value
      /\ DOMAIN Literal(name, value) = {"name", "value", "from"}
      /\ \A v : [Literal(name, value) EXCEPT !.value = v] = Literal(name, v)
  BY <1>2
<1> QED BY <1>3

LEMMA LiteralFrom == \A name, value : Literal(name, value).from = ""
<1>1. PICK none : none = ""
  BY Zenon
<1>2. \A n, v : Literal(n, v) = [name |-> n, value |-> v, from |-> none]
  BY <1>1, Zenon DEF Literal
<1>3. \A n, v : Literal(n, v).from = none
  BY <1>2
<1> QED BY <1>1, <1>3, Zenon

LEMMA NotReference == "" # "metadata.namespace" /\ "UTC" # "" /\ "Asia/Shanghai" # ""
BY Zenon

LEMMA ServiceEnvStored ==
  ASSUME NEW w \in ServiceNames, NEW kn \in KubeNovaSpec, NEW env, env = buildDeployment(w, kn).env,
         NEW s, s = StoredEnv(env)
  PROVE  Fielded(env) /\ OwnFirst(s) /\ s[1] = Zone
<1>1. /\ Len(env) \in Nat /\ DOMAIN env = 1..Len(env) /\ Len(env) >= 2
      /\ env[1] = Zone /\ env[2] = Namespace
      /\ \A i \in 3..Len(env) : env[i] \in EnvVar
  BY ServiceEnv
<1>2. \A e \in EnvVar : {"name", "value"} \subseteq DOMAIN e
  BY DEF EnvVar
<1>3. Zone.name = "TZ" /\ Zone.value = "Asia/Shanghai" /\ {"name", "value"} \subseteq DOMAIN Zone
  <2>1. DOMAIN Zone = {"name", "value", "from"} /\ Zone.name = "TZ" /\ Zone.value = "Asia/Shanghai"
    BY LiteralHas, Zenon DEF Zone
  <2> QED BY <2>1
<1>4. Zone.from # "metadata.namespace"
  BY LiteralFrom, NotReference, Zenon DEF Zone
<1>5. Fielded(env)
  <2>1. \A i \in DOMAIN env : i = 1 \/ i = 2 \/ i \in 3..Len(env)
    BY <1>1
  <2> QED BY <1>1, <1>2, <1>3, <2>1, OwnFields DEF Fielded, Entries
<1>6. 1 \in DOMAIN env /\ 2 \in DOMAIN env
  BY <1>1
<1>7. s[1] = Zone /\ s[2] = StoredNamespace
  <2>1. s[1] = Zone
    BY <1>1, <1>4, <1>6 DEF StoredEnv
  <2>2. env[2].from = "metadata.namespace" /\ env[2] = Namespace
    BY <1>1, OwnFields
  <2>3. s[2] = [Namespace EXCEPT !.from = "v1:metadata.namespace"]
    BY <1>6, <2>2 DEF StoredEnv
  <2> QED BY <2>1, <2>3, OwnFields
<1>8. NameAt(s, 1) = "TZ" /\ HasValue(s, 1)
  <2>1. NameAt(s, 1) = "TZ" /\ s[1].value = "Asia/Shanghai"
    BY <1>3, <1>7 DEF NameAt
  <2> QED BY <2>1, NotReference, Zenon DEF HasValue
<1>9. NameAt(s, 2) = "POD_NAMESPACE" /\ ~HasValue(s, 2)
  <2>1. PICK none : none = ""
    BY Zenon
  <2>2. StoredNamespace = [name |-> "POD_NAMESPACE", value |-> none, from |-> "v1:metadata.namespace"]
    BY <2>1, Zenon DEF StoredNamespace
  <2>3. NameAt(s, 2) = "POD_NAMESPACE" /\ s[2].value = none
    BY <1>7, <2>2 DEF NameAt
  <2> QED BY <2>1, <2>3, Zenon DEF HasValue
<1>10. Entries(s) /\ Len(s) >= 2
  BY <1>1, <1>5, StoredEntries
<1> QED BY <1>5, <1>7, <1>8, <1>9, <1>10 DEF OwnFirst

LEMMA ServiceEnvPlain ==
  ASSUME NEW w \in ServiceNames, NEW kn \in KubeNovaSpec, Literally(kn),
         NEW env, env = buildDeployment(w, kn).env, NEW s, s = StoredEnv(env)
  PROVE  Plain(s)
<1>1. /\ Len(env) \in Nat /\ DOMAIN env = 1..Len(env) /\ Len(env) >= 2
      /\ \A i \in 3..Len(env) : /\ kn.services[w] # Nil
                                /\ i - 2 \in DOMAIN kn.services[w].env
                                /\ env[i] = kn.services[w].env[i - 2] /\ env[i] \in EnvVar
  BY ServiceEnv
<1>2. OwnFirst(s) /\ s[1] = Zone /\ Fielded(env)
  BY ServiceEnvStored
<1>3. ASSUME NEW i \in 3..Len(env)
      PROVE  HasValue(s, i) /\ s[i] = Literal(NameAt(s, i), ValueAt(s, i))
  <2>1. env[i] \in EnvVar
    BY <1>1
  <2>2. env[i].value # "" /\ env[i].from = ""
    <3>1. kn.services[w] # Nil
      BY <1>1
    <3>2. i - 2 \in DOMAIN kn.services[w].env /\ env[i] = kn.services[w].env[i - 2]
      BY <1>1
    <3> QED BY <3>1, <3>2, Zenon DEF Literally
  <2>3. env[i] = Literal(env[i].name, env[i].value)
    <3>1. PICK none : none = ""
      BY Zenon
    <3>2. env[i] = [name |-> env[i].name, value |-> env[i].value, from |-> none]
      BY <2>1, <2>2, <3>1, LiteralOf, Zenon
    <3> QED BY <3>1, <3>2, Zenon DEF Literal
  <2>4. env[i].from # "metadata.namespace"
    BY <2>2, NotReference, Zenon
  <2>5. s[i] = env[i]
    BY <1>1, <2>4 DEF StoredEnv
  <2>6. NameAt(s, i) = env[i].name /\ ValueAt(s, i) = env[i].value
    BY <2>5 DEF NameAt, ValueAt
  <2> QED BY <2>2, <2>3, <2>5, <2>6, Zenon DEF HasValue
<1>4. HasValue(s, 1) /\ s[1] = Literal(NameAt(s, 1), ValueAt(s, 1))
  <2>1. Zone.name = "TZ" /\ Zone.value = "Asia/Shanghai"
    BY LiteralHas, Zenon DEF Zone
  <2>2. NameAt(s, 1) = "TZ" /\ ValueAt(s, 1) = "Asia/Shanghai"
    BY <1>2, <2>1 DEF NameAt, ValueAt
  <2> QED BY <1>2, <2>2, Zenon DEF OwnFirst, Zone
<1>5. \A i \in DOMAIN s \ {2} : i = 1 \/ i \in 3..Len(env)
  BY <1>1, <1>2, StoredEntries
<1> QED BY <1>3, <1>4, <1>5 DEF Plain

UTC == Literal("TZ", "UTC")

\* Somebody sets the first variable.
LEMMA MeddledEnv ==
  ASSUME NEW s, OwnFirst(s), NEW m, m = [s EXCEPT ![1] = UTC]
  PROVE  OwnFirst(m) /\ (Plain(s) => Plain(m))
<1>1. /\ 1 \in DOMAIN s /\ 2 \in DOMAIN s /\ Entries(s) /\ Len(s) >= 2
      /\ NameAt(s, 2) = "POD_NAMESPACE" /\ ~HasValue(s, 2) /\ s[2] = StoredNamespace
  BY DEF OwnFirst, Entries
<1>2. DOMAIN m = DOMAIN s /\ m[1] = UTC /\ \A i \in DOMAIN s \ {1} : m[i] = s[i]
  BY <1>1
<1>3. Entries(m) /\ Len(m) >= 2
  BY <1>1, <1>2 DEF Entries
<1>4. UTC.name = "TZ" /\ UTC.value = "UTC"
  BY LiteralHas, Zenon DEF UTC
<1>5. /\ NameAt(m, 1) = "TZ" /\ ValueAt(m, 1) = "UTC"
      /\ \A i \in DOMAIN s \ {1} : NameAt(m, i) = NameAt(s, i) /\ ValueAt(m, i) = ValueAt(s, i)
  BY <1>2, <1>4 DEF NameAt, ValueAt
<1>6. HasValue(m, 1)
  BY <1>5, NotReference, Zenon DEF HasValue, ValueAt
<1>7. \A i \in DOMAIN s \ {1} : HasValue(m, i) = HasValue(s, i)
  BY <1>2, Zenon DEF HasValue
<1>8. OwnFirst(m)
  <2>1. 2 \in DOMAIN s \ {1}
    BY <1>1
  <2> QED BY <1>1, <1>2, <1>3, <1>5, <1>6, <1>7, <2>1 DEF OwnFirst
<1>9. ASSUME Plain(s) PROVE Plain(m)
  <2>1. m[1] = Literal(NameAt(m, 1), ValueAt(m, 1))
    BY <1>2, <1>5 DEF UTC
  <2> QED BY <1>2, <1>5, <1>6, <1>7, <1>9, <2>1 DEF Plain
<1> QED BY <1>8, <1>9

-----------------------------------------------------------------------------
(* Mounts and volumes.                                                     *)

LEMMA PairFields ==
  /\ \A n, p : Mount(n, p).name = n /\ Mount(n, p).path = p
  /\ \A n, s : Volume(n, s).name = n /\ Volume(n, s).source = s /\ "name" \in DOMAIN Volume(n, s)
BY DEF Mount, Volume

\* A service's mounts have names of their own, and tell how it came to them.
LEMMA MountsOf ==
  ASSUME NEW w \in ServiceNames, NEW kn, NEW m, m = getServiceVolumeMounts(w, kn)
  PROVE  /\ Len(m) \in {1, 2} /\ DOMAIN m = 1..Len(m)
         /\ Len(m) = 2 <=> MinIOCerts(w, kn) \/ NeedCache(w)
         /\ NameAt(m, 1) = "config"
         /\ Len(m) = 2 => NameAt(m, 2) = IF NeedCache(w) THEN "cache" ELSE "minio-certs"
<1>1. MinIOCerts(w, kn) => ~NeedCache(w)
  BY DEF MinIOCerts, NeedCache
<1>2. CASE MinIOCerts(w, kn)
  <2>1. m = <<Mount("config", "/app/etc"), Mount("minio-certs", "/app/etc/minio-certs")>>
    BY <1>2, ServiceMounts
  <2> QED BY <1>1, <1>2, <2>1, PairFields DEF NameAt
<1>3. CASE ~MinIOCerts(w, kn) /\ NeedCache(w)
  <2>1. m = <<Mount("config", "/app/etc"), Mount("cache", "/app/cache")>>
    BY <1>3, ServiceMounts
  <2> QED BY <1>3, <2>1, PairFields DEF NameAt
<1>4. CASE ~MinIOCerts(w, kn) /\ ~NeedCache(w)
  <2>1. m = <<Mount("config", "/app/etc")>>
    BY <1>4, ServiceMounts
  <2> QED BY <1>4, <2>1, PairFields DEF NameAt
<1> QED BY <1>2, <1>3, <1>4

\* As many mounts, the same mounts.
LEMMA SameMounts ==
  ASSUME NEW w \in ServiceNames, NEW k, NEW l,
         Len(getServiceVolumeMounts(w, k)) = Len(getServiceVolumeMounts(w, l))
  PROVE  /\ MinIOCerts(w, k) <=> MinIOCerts(w, l)
         /\ getServiceVolumeMounts(w, k) = getServiceVolumeMounts(w, l)
<1>1. MinIOCerts(w, k) \/ MinIOCerts(w, l) => ~NeedCache(w)
  BY DEF MinIOCerts, NeedCache
<1>2. /\ Len(getServiceVolumeMounts(w, k)) = 2 <=> MinIOCerts(w, k) \/ NeedCache(w)
      /\ Len(getServiceVolumeMounts(w, l)) = 2 <=> MinIOCerts(w, l) \/ NeedCache(w)
  BY MountsOf
<1>3. MinIOCerts(w, k) <=> MinIOCerts(w, l)
  BY <1>1, <1>2
<1> QED BY <1>3, ServiceMounts

\* The names of the volumes, which the API server leaves alone.
LEMMA VolumesOf ==
  ASSUME NEW w \in ServiceNames, NEW kn, NEW v, v = getServiceVolumes(w, kn), NEW s, s = StoredVolumes(v)
  PROVE  /\ Len(v) \in {1, 2} /\ DOMAIN v = 1..Len(v) /\ DOMAIN s = DOMAIN v /\ Len(s) = Len(v)
         /\ Len(v) = 2 <=> MinIOCerts(w, kn) \/ NeedCache(w)
         /\ NameAt(v, 1) = "config"
         /\ Len(v) = 2 => NameAt(v, 2) = IF NeedCache(w) THEN "cache" ELSE "minio-certs"
         /\ \A i \in DOMAIN v : NameAt(s, i) = NameAt(v, i)
<1>1. MinIOCerts(w, kn) => ~NeedCache(w)
  BY DEF MinIOCerts, NeedCache
<1> DEFINE c == Volume("config", <<"ConfigMap", w>>)
           e == Volume("cache", <<"EmptyDir">>)
           t == Volume("minio-certs", <<"Secret", kn.storageTLS.secretName>>)
<1>2. /\ c.name = "config" /\ "name" \in DOMAIN c
      /\ e.name = "cache" /\ "name" \in DOMAIN e
      /\ t.name = "minio-certs" /\ "name" \in DOMAIN t
  BY PairFields
<1>3. v = IF MinIOCerts(w, kn) THEN <<c, t>> ELSE IF NeedCache(w) THEN <<c, e>> ELSE <<c>>
  BY ServiceVolumes
<1> HIDE DEF c, e, t
<1>4. /\ Len(v) \in {1, 2} /\ DOMAIN v = 1..Len(v)
      /\ Len(v) = 2 <=> MinIOCerts(w, kn) \/ NeedCache(w)
      /\ NameAt(v, 1) = "config"
      /\ Len(v) = 2 => NameAt(v, 2) = IF NeedCache(w) THEN "cache" ELSE "minio-certs"
      /\ \A i \in DOMAIN v : "name" \in DOMAIN v[i]
  <2>1. CASE MinIOCerts(w, kn)
    BY <1>1, <1>2, <1>3, <2>1 DEF NameAt
  <2>2. CASE ~MinIOCerts(w, kn) /\ NeedCache(w)
    BY <1>2, <1>3, <2>2 DEF NameAt
  <2>3. CASE ~MinIOCerts(w, kn) /\ ~NeedCache(w)
    BY <1>2, <1>3, <2>3 DEF NameAt
  <2> QED BY <2>1, <2>2, <2>3
<1>5. DOMAIN s = DOMAIN v /\ Len(s) = Len(v)
  BY <1>4 DEF StoredVolumes
<1>6. \A i \in DOMAIN v : NameAt(s, i) = NameAt(v, i)
  BY <1>4 DEF StoredVolumes, NameAt
<1> QED BY <1>4, <1>5, <1>6

\* Two entries for nginx-config, of different paths, are in no map: the web's
\* mounts never compare as equal.
LEMMA WebNeverEqual == \A a, kn : ~compareVolumeMounts(a, getWebVolumeMounts(kn))
<1> SUFFICES ASSUME NEW a, NEW kn PROVE ~compareVolumeMounts(a, getWebVolumeMounts(kn))
  OBVIOUS
<1> DEFINE conf == Mount("nginx-config", "/etc/nginx/nginx.conf")
           site == Mount("nginx-config", "/etc/nginx/conf.d/default.conf")
           one == Mount("cache", "/var/cache/nginx")
           two == Mount("logs", "/var/log/nginx")
           three == Mount("run", "/var/run")
           certs == Mount("tls-certs", "/etc/nginx/certs")
           own == <<one, two, three, conf, site>>
           rest == If(WebCertificate(kn), certs)
           S == {one, two, three, conf, site, certs}
           m == getWebVolumeMounts(kn)
<1>1. m = own \o rest
  BY DEF getWebVolumeMounts
<1>2. /\ conf.name = "nginx-config" /\ conf.path = "/etc/nginx/nginx.conf"
      /\ site.name = "nginx-config" /\ site.path = "/etc/nginx/conf.d/default.conf"
  BY PairFields
<1>3. rest \in Seq(S)
  <2>1. rest = <<certs>> \/ rest = << >>
    BY DEF If
  <2> HIDE DEF conf, site, one, two, three, certs, rest
  <2>2. <<certs>> \in Seq(S) /\ << >> \in Seq(S)
    OBVIOUS
  <2> QED BY <2>1, <2>2
<1> HIDE DEF conf, site, one, two, three, certs, rest
<1>4. own \in Seq(S) /\ Len(own) = 5 /\ own[4] = conf /\ own[5] = site
  OBVIOUS
<1> HIDE DEF S, own, m
<1>5. 4 \in DOMAIN m /\ 5 \in DOMAIN m /\ m[4] = conf /\ m[5] = site
  <2>1. Len(rest) \in Nat
    BY <1>3
  <2>2. /\ own \o rest \in Seq(S) /\ Len(own \o rest) = Len(own) + Len(rest)
        /\ \A i \in 1..Len(own) + Len(rest) :
             (own \o rest)[i] = IF i <= Len(own) THEN own[i] ELSE rest[i - Len(own)]
    BY <1>3, <1>4, ConcatProperties
  <2>3. 4 \in 1..5 + Len(rest) /\ 5 \in 1..5 + Len(rest)
    BY <2>1
  <2>4. m[4] = own[4] /\ m[5] = own[5]
    BY <1>1, <1>4, <2>2, <2>3
  <2>5. DOMAIN m = 1..Len(m) /\ Len(m) = 5 + Len(rest)
    BY <1>1, <1>4, <2>2
  <2> QED BY <1>4, <2>3, <2>4, <2>5
<1>6. ASSUME compareVolumeMounts(a, m) PROVE FALSE
  <2>1. ByName(a)["nginx-config"].path = conf.path /\ ByName(a)["nginx-config"].path = site.path
    BY <1>2, <1>5, <1>6 DEF compareVolumeMounts
  <2> QED BY <1>2, <2>1
<1> QED BY <1>6 DEF m

\* A service's mounts and volumes compare as equal to what is stored of them.
LEMMA MountsEqualThemselves ==
  ASSUME NEW w \in ServiceNames, NEW kn, NEW m, m = getServiceVolumeMounts(w, kn)
  PROVE  compareVolumeMounts(m, m)
<1>1. /\ Entries(m) /\ \A i, j \in DOMAIN m : NameAt(m, i) = NameAt(m, j) => i = j
  BY MountsOf DEF Entries
<1>2. ByName(m) = Latest(m, DOMAIN m)
  BY DEF ByName
<1>3. ASSUME NEW i \in DOMAIN m
      PROVE  m[i].name \in DOMAIN ByName(m) /\ ByName(m)[m[i].name] = m[i]
  <2>1. NameAt(m, i) \in DOMAIN ByName(m)
    BY InByName
  <2>2. PICK j \in DOMAIN m : NameAt(m, j) = NameAt(m, i) /\ ByName(m)[NameAt(m, i)] = m[j]
    BY <1>1, <1>2, <2>1, LatestIs
  <2>3. j = i
    BY <1>1, <2>2
  <2> QED BY <2>1, <2>2, <2>3 DEF NameAt
<1> QED BY <1>3 DEF compareVolumeMounts

LEMMA VolumesEqualStored ==
  ASSUME NEW w \in ServiceNames, NEW kn, NEW v, v = getServiceVolumes(w, kn), NEW s, s = StoredVolumes(v)
  PROVE  compareVolumes(s, v)
<1>1. Len(s) = Len(v) /\ DOMAIN s = DOMAIN v /\ \A i \in DOMAIN v : NameAt(s, i) = NameAt(v, i)
  BY VolumesOf
<1>2. \A i \in DOMAIN v : NameAt(v, i) \in DOMAIN ByName(s)
  BY <1>1, InByName
<1> QED BY <1>1, <1>2 DEF compareVolumes, NameAt

\* A quantity that is stored is canonical.
LEMMA StoredTwice == \A r : StoredResources(StoredResources(r)) = StoredResources(r)
<1>1. \A q : Canonical(Canonical(q)) = Canonical(q)
  BY DEF Canonical
<1> QED BY <1>1 DEF StoredResources

-----------------------------------------------------------------------------
(* The Deployment of a service.                                            *)

Fields == {"replicas", "image", "pullPolicy", "env", "resources", "ports", "mounts",
           "volumes", "serviceAccount", "pullSecrets"}

LEMMA ServiceDesired ==
  ASSUME NEW w, w # Web, NEW kn
  PROVE  /\ Desired(w, kn) = buildDeployment(w, kn)
         /\ Desired(w, kn).mounts = getServiceVolumeMounts(w, kn)
         /\ Desired(w, kn).volumes = getServiceVolumes(w, kn)
         /\ Desired(w, kn).ports = {ServicePort[w], MetricsPort}
         /\ Desired(w, kn).serviceAccount = "kube-nova-sa"
<1>1. Desired(w, kn) = buildDeployment(w, kn)
  BY DEF Desired
<1>2. /\ buildDeployment(w, kn).mounts = getServiceVolumeMounts(w, kn)
      /\ buildDeployment(w, kn).volumes = getServiceVolumes(w, kn)
      /\ buildDeployment(w, kn).ports = {ServicePort[w], MetricsPort}
      /\ buildDeployment(w, kn).serviceAccount = "kube-nova-sa"
  BY DEF buildDeployment
<1> QED BY <1>1, <1>2

LEMMA ServiceStored ==
  ASSUME NEW w, w # Web, NEW kn, NEW d, d = Desired(w, kn)
  PROVE  /\ Normalise(d).replicas = d.replicas /\ Normalise(d).image = d.image
         /\ Normalise(d).ports = d.ports /\ Normalise(d).mounts = d.mounts
         /\ Normalise(d).serviceAccount = d.serviceAccount
         /\ Normalise(d).resources = StoredResources(d.resources)
         /\ Normalise(d).env = StoredEnv(d.env)
         /\ Normalise(d).volumes = StoredVolumes(d.volumes)
         /\ DOMAIN Normalise(d) = Fields
<1>1. d = buildDeployment(w, kn)
  BY ServiceDesired
<1> QED BY <1>1, NormaliseService DEF Fields

\* What was made is from the spec it was made from.
LEMMA MadeFromSpec ==
  ASSUME workload \in ServiceNames, NEW kn \in KubeNovaSpec
  PROVE  FromSpec(Normalise(Desired(workload, kn)), kn)
<1> DEFINE env == StoredEnv(Desired(workload, kn).env)
<1>1. env[1] = Literal("TZ", "Asia/Shanghai") /\ OwnFirst(env)
  BY ServiceEnvStored DEF Zone, Desired, ServiceNames, Web
<1>2. [env EXCEPT ![1] = Literal("TZ", "Asia/Shanghai")] = env
  <2>1. env = [i \in DOMAIN env |-> env[i]]
    BY DEF StoredEnv
  <2> HIDE DEF env
  <2> QED BY <1>1, <2>1
<1>3. Normalise(Desired(workload, kn)).env = env
  BY ServiceStored DEF ServiceNames, Web
<1> QED BY <1>2, <1>3 DEF FromSpec

\* Any two specs have a service's volumes named alike if it has as many mounts.
LEMMA SameVolumeNames ==
  ASSUME NEW w \in ServiceNames, NEW k, NEW l, MinIOCerts(w, k) <=> MinIOCerts(w, l),
         NEW va, va = getServiceVolumes(w, k), NEW a, a = StoredVolumes(va),
         NEW vb, vb = getServiceVolumes(w, l), NEW b, b = StoredVolumes(vb)
  PROVE  DOMAIN a = DOMAIN b /\ \A i \in DOMAIN a : a[i].name = b[i].name
<1>1. /\ Len(va) \in {1, 2} /\ DOMAIN va = 1..Len(va) /\ DOMAIN a = DOMAIN va
      /\ Len(va) = 2 <=> MinIOCerts(w, k) \/ NeedCache(w)
      /\ NameAt(va, 1) = "config"
      /\ Len(va) = 2 => NameAt(va, 2) = IF NeedCache(w) THEN "cache" ELSE "minio-certs"
      /\ \A i \in DOMAIN va : NameAt(a, i) = NameAt(va, i)
  BY VolumesOf
<1>2. /\ Len(vb) \in {1, 2} /\ DOMAIN vb = 1..Len(vb) /\ DOMAIN b = DOMAIN vb
      /\ Len(vb) = 2 <=> MinIOCerts(w, l) \/ NeedCache(w)
      /\ NameAt(vb, 1) = "config"
      /\ Len(vb) = 2 => NameAt(vb, 2) = IF NeedCache(w) THEN "cache" ELSE "minio-certs"
      /\ \A i \in DOMAIN vb : NameAt(b, i) = NameAt(vb, i)
  BY VolumesOf
<1>3. Len(va) = Len(vb)
  <2>1. Len(va) \in {1, 2} /\ (Len(va) = 2 <=> MinIOCerts(w, k) \/ NeedCache(w))
    BY <1>1
  <2>2. Len(vb) \in {1, 2} /\ (Len(vb) = 2 <=> MinIOCerts(w, l) \/ NeedCache(w))
    BY <1>2
  <2> QED BY ONLY <2>1, <2>2, MinIOCerts(w, k) <=> MinIOCerts(w, l)
<1>4. DOMAIN a = DOMAIN b /\ \A i \in DOMAIN a : NameAt(a, i) = NameAt(b, i)
  <2>1. \A i \in DOMAIN va : i = 1 \/ (i = 2 /\ Len(va) = 2)
    BY <1>1
  <2> QED BY <1>1, <1>2, <1>3, <2>1
<1> QED BY <1>4, Zenon DEF NameAt

\* A Deployment that compares as equal has the parts of what was desired.
LEMMA EqualParts ==
  ASSUME workload \in ServiceNames, NEW kn \in Specs, NEW old \in Specs, NEW d, FromSpec(d, old),
         deploymentSpecEqual(d, Desired(workload, kn))
  PROVE  SameButEnv(d, Normalise(Desired(workload, kn)))
<1> DEFINE made == Desired(workload, kn)
           was == Desired(workload, old)
           n == Normalise(made)
<1>0. workload # Web
  BY DEF ServiceNames, Web
<1>1. /\ made.mounts = getServiceVolumeMounts(workload, kn)
      /\ n.replicas = made.replicas /\ n.image = made.image /\ n.ports = {ServicePort[workload], MetricsPort}
      /\ n.mounts = made.mounts /\ n.serviceAccount = made.serviceAccount
      /\ n.resources = StoredResources(made.resources)
      /\ n.volumes = StoredVolumes(getServiceVolumes(workload, kn))
  <2>1. /\ made.mounts = getServiceVolumeMounts(workload, kn)
        /\ made.volumes = getServiceVolumes(workload, kn)
        /\ made.ports = {ServicePort[workload], MetricsPort}
    BY <1>0, ServiceDesired
  <2>2. made = Desired(workload, kn)
    OBVIOUS
  <2> HIDE DEF made
  <2> QED BY <1>0, <2>1, <2>2, ServiceStored
<1>2. /\ d.resources = StoredResources(was.resources) /\ d.ports = {ServicePort[workload], MetricsPort}
      /\ d.mounts = getServiceVolumeMounts(workload, old)
      /\ d.volumes = StoredVolumes(getServiceVolumes(workload, old))
  <2>1. /\ was.mounts = getServiceVolumeMounts(workload, old)
        /\ was.volumes = getServiceVolumes(workload, old)
        /\ was.ports = {ServicePort[workload], MetricsPort}
    BY <1>0, ServiceDesired
  <2>2. was = Desired(workload, old)
    OBVIOUS
  <2>3. /\ d.resources = Normalise(was).resources /\ d.ports = Normalise(was).ports
        /\ d.mounts = Normalise(was).mounts /\ d.volumes = Normalise(was).volumes
    BY DEF FromSpec
  <2> HIDE DEF was
  <2> QED BY <1>0, <2>1, <2>2, <2>3, ServiceStored
<1>3. /\ d.replicas = made.replicas /\ d.image = made.image /\ d.serviceAccount = made.serviceAccount
      /\ d.resources = made.resources /\ Len(d.mounts) = Len(made.mounts)
  BY DEF deploymentSpecEqual, compareResourceRequirements, compareVolumeMounts
<1> HIDE DEF made, was, n
<1>4. d.resources = n.resources
  BY <1>1, <1>2, <1>3, StoredTwice
<1>5. d.mounts = n.mounts /\ (MinIOCerts(workload, old) <=> MinIOCerts(workload, kn))
  BY <1>1, <1>2, <1>3, SameMounts
<1>6. {d.volumes[i].name : i \in DOMAIN d.volumes} = {n.volumes[i].name : i \in DOMAIN n.volumes}
  <2>1. /\ DOMAIN d.volumes = DOMAIN n.volumes
        /\ \A i \in DOMAIN d.volumes : d.volumes[i].name = n.volumes[i].name
    BY <1>1, <1>2, <1>5, SameVolumeNames
  <2> QED BY <2>1
<1>7. d.replicas = n.replicas /\ d.image = n.image /\ d.ports = n.ports /\ d.serviceAccount = n.serviceAccount
  BY <1>1, <1>2, <1>3
<1> QED BY <1>4, <1>5, <1>6, <1>7 DEF SameButEnv, n, made

LEMMA DeploySync == ASSUME SyncInv, Deploy PROVE SyncInv'
<1> DEFINE desired == Desired(workload, spec)
           n == Normalise(desired)
<1>1. /\ workload \in Workloads /\ spec \in Specs /\ UNCHANGED <<workload, spec>>
      /\ applied' /\ ValidateKubeNova(spec) /\ Wanted(workload, spec)
  BY DEF SyncInv, Deploy
<1>2. workload # Web => workload \in ServiceNames
  BY <1>1, WorkloadsAssumption
<1>3. n # Nil
  BY <1>1, NilAssumption
<1>4. spec \in KubeNovaSpec
  BY <1>1, SpecsAssumption
<1>5. CASE stored' = n /\ sent' = desired
  <2>1. workload # Web => FromSpec(stored', spec)
    BY <1>2, <1>4, <1>5, MadeFromSpec
  <2>2. (workload # Web => \E kn \in Specs : FromSpec(stored, kn))'
    BY <1>1, <2>1 DEF FromSpec
  <2>3. sent' # Nil => stored' # Nil /\ stored' = Normalise(sent')
    BY <1>3, <1>5
  <2>4. SameButEnv(n, n)
    BY Zenon DEF SameButEnv
  <2> QED BY <1>1, <1>5, <2>2, <2>3, <2>4 DEF SyncInv
<1>6. CASE stored # Nil /\ deploymentSpecEqual(stored, desired) /\ UNCHANGED <<stored, sent>>
  <2>1. workload # Web
    <3>1. compareVolumeMounts(stored.mounts, desired.mounts)
      BY <1>6 DEF deploymentSpecEqual
    <3>2. workload = Web => desired.mounts = getWebVolumeMounts(spec)
      BY DEF Desired, buildWebDeployment
    <3> QED BY <3>1, <3>2, WebNeverEqual
  <2>2. PICK old \in Specs : FromSpec(stored, old)
    BY <1>6, <2>1 DEF SyncInv
  <2>3. SameButEnv(stored, n)
    BY <1>1, <1>2, <1>6, <2>1, <2>2, EqualParts
  <2>4. (\E kn \in Specs : FromSpec(stored, kn))'
    BY <1>1, <1>6, <2>2 DEF FromSpec
  <2>5. sent' # Nil => stored' # Nil /\ stored' = Normalise(sent')
    BY <1>6 DEF SyncInv
  <2> QED BY <1>1, <1>6, <2>1, <2>3, <2>4, <2>5 DEF SyncInv
<1> QED BY <1>5, <1>6 DEF Deploy

LEMMA EditSync == ASSUME SyncInv, EditSpec PROVE SyncInv'
BY DEF SyncInv, EditSpec, FromSpec

LEMMA MeddleSync == ASSUME SyncInv, Meddle PROVE SyncInv'
<1>1. /\ workload \in Workloads /\ spec \in Specs /\ UNCHANGED <<workload, spec>>
      /\ ~applied' /\ sent' = Nil /\ stored # Nil
  BY DEF SyncInv, Meddle
<1>2. ASSUME workload # Web PROVE \E kn \in Specs : FromSpec(stored', kn)
  <2>1. PICK kn \in Specs : FromSpec(stored, kn)
    BY <1>1, <1>2 DEF SyncInv
  <2> DEFINE made == Normalise(Desired(workload, kn))
  <2>2. PICK zone \in {"Asia/Shanghai", "UTC"} : stored.env = [made.env EXCEPT ![1] = Literal("TZ", zone)]
    BY <2>1 DEF FromSpec
  <2>3. DOMAIN stored = Fields
    BY <1>2, <2>1, ServiceStored DEF FromSpec
  <2>4. CASE stored' = [stored EXCEPT !.replicas = 0]
    BY <2>1, <2>3, <2>4 DEF FromSpec, Fields
  <2>5. CASE stored' = [stored EXCEPT !.env[1].value = "UTC"]
    <3>1. /\ DOMAIN stored' = DOMAIN stored /\ stored'.resources = stored.resources
          /\ stored'.ports = stored.ports /\ stored'.mounts = stored.mounts
          /\ stored'.volumes = stored.volumes
          /\ stored'.env = [stored.env EXCEPT ![1] = [stored.env[1] EXCEPT !.value = "UTC"]]
      BY <2>3, <2>5 DEF Fields
    <3>2. 1 \in DOMAIN made.env
      <4>1. kn \in KubeNovaSpec /\ workload \in ServiceNames
        BY <1>1, <1>2, SpecsAssumption, WorkloadsAssumption
      <4>2. made.env = StoredEnv(Desired(workload, kn).env)
        BY <1>2, ServiceStored
      <4>3. Desired(workload, kn).env = buildDeployment(workload, kn).env
        BY <1>2, ServiceDesired
      <4>4. OwnFirst(made.env)
        BY <4>1, <4>2, <4>3, ServiceEnvStored
      <4> QED BY <4>4 DEF OwnFirst, Entries
    <3>3. stored.env[1] = Literal("TZ", zone)
      BY <2>2, <3>2
    <3>4. [stored.env[1] EXCEPT !.value = "UTC"] = Literal("TZ", "UTC")
      BY <3>3, LiteralHas
    <3>5. stored'.env = [made.env EXCEPT ![1] = Literal("TZ", "UTC")]
      BY <2>2, <3>1, <3>2, <3>4
    <3> QED BY <2>1, <3>1, <3>5 DEF FromSpec
  <2> QED BY <2>4, <2>5 DEF Meddle
<1> QED BY <1>1, <1>2 DEF SyncInv, FromSpec

LEMMA SyncHolds == Spec => []SyncInv
<1>1. Init => SyncInv
  BY DEF Init, SyncInv
<1>2. SyncInv /\ [Next]_vars => SyncInv'
  <2>1. SyncInv /\ UNCHANGED vars => SyncInv'
    BY DEF SyncInv, vars, FromSpec
  <2> QED BY <2>1, DeploySync, EditSync, MeddleSync DEF Next
<1> QED BY <1>1, <1>2, PTL DEF Spec

-----------------------------------------------------------------------------
(* What reaches the pods.                                                  *)

\* The environment of a service that is from some spec.
LEMMA EnvFromSpec ==
  ASSUME workload \in ServiceNames, NEW kn \in KubeNovaSpec, NEW d, FromSpec(d, kn)
  PROVE  OwnFirst(d.env) /\ (Literally(kn) => Plain(d.env))
<1> DEFINE s == StoredEnv(buildDeployment(workload, kn).env)
<1>1. OwnFirst(s) /\ s[1] = Zone
  BY ServiceEnvStored
<1>2. Literally(kn) => Plain(s)
  BY ServiceEnvPlain
<1>3. Normalise(Desired(workload, kn)).env = s
  <2>1. workload # Web
    BY DEF ServiceNames, Web
  <2>2. Normalise(Desired(workload, kn)).env = StoredEnv(Desired(workload, kn).env)
    BY <2>1, ServiceStored
  <2> QED BY <2>1, <2>2, ServiceDesired
<1> HIDE DEF s
<1>4. d.env = [s EXCEPT ![1] = Zone] \/ d.env = [s EXCEPT ![1] = UTC]
  BY <1>3 DEF FromSpec, Zone, UTC
<1>5. [s EXCEPT ![1] = Zone] = s
  <2>1. s = [i \in DOMAIN s |-> s[i]]
    BY DEF s, StoredEnv
  <2> QED BY <1>1, <2>1
<1> QED BY <1>1, <1>2, <1>4, <1>5, MeddledEnv

LEMMA DeployEnv == ASSUME SyncInv, Deploy PROVE EnvInv'
<1> SUFFICES ASSUME \A kn \in Specs : Literally(kn)
             PROVE  (ByName(stored.env) = ByName(Normalise(Desired(workload, spec)).env))'
  BY DEF EnvInv
<1> DEFINE desired == Desired(workload, spec)
<1>1. workload \in Workloads /\ spec \in Specs /\ UNCHANGED <<workload, spec>>
  BY DEF SyncInv, Deploy
<1>2. CASE stored' = Normalise(desired)
  BY <1>1, <1>2
<1>3. CASE stored # Nil /\ deploymentSpecEqual(stored, desired) /\ UNCHANGED stored
  <2>1. workload # Web
    <3>1. compareVolumeMounts(stored.mounts, desired.mounts)
      BY <1>3 DEF deploymentSpecEqual
    <3>2. workload = Web => desired.mounts = getWebVolumeMounts(spec)
      BY DEF Desired, buildWebDeployment
    <3> QED BY <3>1, <3>2, WebNeverEqual
  <2>2. workload \in ServiceNames /\ spec \in KubeNovaSpec
    BY <1>1, <2>1, WorkloadsAssumption, SpecsAssumption
  <2>3. PICK old \in Specs : FromSpec(stored, old)
    BY <1>3, <2>1 DEF SyncInv
  <2>4. OwnFirst(stored.env) /\ Plain(stored.env)
    <3>1. old \in KubeNovaSpec
      BY SpecsAssumption
    <3>2. Literally(old)
      OBVIOUS
    <3> QED BY <2>2, <2>3, <3>1, <3>2, EnvFromSpec
  <2>5. FromSpec(Normalise(desired), spec)
    BY <2>2, MadeFromSpec
  <2>6. OwnFirst(Normalise(desired).env) /\ Plain(Normalise(desired).env)
    BY <1>1, <2>2, <2>5, EnvFromSpec
  <2>7. Normalise(desired).env = StoredEnv(desired.env)
    BY <2>1, ServiceStored
  <2>8. Fielded(desired.env)
    <3>1. desired.env = buildDeployment(workload, spec).env
      BY <2>1, ServiceDesired
    <3> QED BY <2>2, <3>1, ServiceEnvStored
  <2>9. compareEnvVars(stored.env, desired.env)
    BY <1>3 DEF deploymentSpecEqual
  <2> HIDE DEF desired
  <2>10. ByName(stored.env) = ByName(Normalise(desired).env)
    BY <2>4, <2>6, <2>7, <2>8, <2>9, EqualEnvironments
  <2> QED BY <1>1, <1>3, <2>10 DEF desired
<1> QED BY <1>2, <1>3 DEF Deploy

LEMMA EnvHolds == Spec => []EnvInv
<1>1. Init => EnvInv
  BY DEF Init, EnvInv
<1>2. EnvInv /\ (EditSpec \/ Meddle \/ UNCHANGED vars) => EnvInv'
  BY DEF EnvInv, EditSpec, Meddle, vars
<1>3. SyncInv /\ EnvInv /\ [Next]_vars => EnvInv'
  BY <1>2, DeployEnv DEF Next
<1> QED BY <1>1, <1>3, SyncHolds, PTL DEF Spec

\* Where users write environment variables with their values, the pods run with
\* what the spec asks for after every pass, whichever edits and outside changes
\* there were before (deploymentSpecEqual sees all that Effective speaks of).
THEOREM EditsAreNoticed == ASSUME \A kn \in Specs : Literally(kn) PROVE Spec => []EditsReachPods
<1>1. ASSUME SyncInv, EnvInv, applied
      PROVE  Effective(stored) = Effective(Normalise(Desired(workload, spec)))
  <2> DEFINE n == Normalise(Desired(workload, spec))
  <2>1. ByName(stored.env) = ByName(n.env)
    BY <1>1 DEF EnvInv
  <2>2. stored = n \/ SameButEnv(stored, n)
    BY <1>1 DEF SyncInv
  <2> HIDE DEF n
  <2>3. CASE SameButEnv(stored, n)
    <3>1. {stored.mounts[i] : i \in DOMAIN stored.mounts} = {n.mounts[i] : i \in DOMAIN n.mounts}
      BY <2>3 DEF SameButEnv
    <3> QED BY <2>1, <2>3, <3>1 DEF SameButEnv, Effective, n
  <2> QED BY <2>2, <2>3 DEF n
<1>2. SyncInv /\ EnvInv => EditsReachPods
  BY <1>1 DEF EditsReachPods
<1> QED BY <1>2, SyncHolds, EnvHolds, PTL

-----------------------------------------------------------------------------
(* What the builders assume of each other.                                 *)

LEMMA ServicePorts ==
  /\ ServicePort["portal-api"] = 8810 /\ ServicePort["portal-rpc"] = 30010
  /\ ServicePort["manager-api"] = 8811 /\ ServicePort["manager-rpc"] = 30011
  /\ ServicePort["workload-api"] = 8812
  /\ ServicePort["console-api"] = 8818 /\ ServicePort["console-rpc"] = 30018
BY DEF ServicePort

LEMMA TextIs ==
  ASSUME NEW port, NEW keys, NEW calls
  PROVE  /\ Text(port, keys, calls).listen = {port, MetricsPort}
         /\ Text(port, keys, calls).calls = calls
         /\ keys \subseteq SecretKeys =>
              Text(port, keys, calls).keys \subseteq SecretKeys \cup {"POD_NAMESPACE"}
<1>1. {"DEFAULT_TIMEOUT"} \cup TelemetryKeys \cup CacheKeys \subseteq SecretKeys
  BY DEF TelemetryKeys, CacheKeys, SecretKeys
<1> QED BY <1>1 DEF Text, MetricsPort

\* The keys that one text or another has beyond those of every text.
LEMMA TextKeys ==
  /\ PortalKeys \cup MysqlKeys \cup StorageKeys \cup JWTKeys \subseteq SecretKeys
  /\ MysqlKeys \subseteq SecretKeys
  /\ {"ALERTMANAGER_WEBHOOK_TOKEN"} \subseteq SecretKeys /\ {"INJECT_IMAGE"} \subseteq SecretKeys
<1>1. PortalKeys \subseteq SecretKeys /\ MysqlKeys \subseteq SecretKeys
  BY DEF PortalKeys, MysqlKeys, SecretKeys
<1>2. StorageKeys \subseteq SecretKeys
  BY DEF StorageKeys, SecretKeys
<1>3. JWTKeys \subseteq SecretKeys
  BY DEF JWTKeys, SecretKeys
<1>4. {"ALERTMANAGER_WEBHOOK_TOKEN"} \subseteq SecretKeys /\ {"INJECT_IMAGE"} \subseteq SecretKeys
  BY DEF SecretKeys
<1> QED BY <1>1, <1>2, <1>3, <1>4

LEMMA Calls ==
  \A call \in {PortalRpc, ManagerRpc, ConsoleRpc} : call = <<call[1], ServicePort[call[1]]>>
BY ServicePorts DEF PortalRpc, ManagerRpc, ConsoleRpc

\* Every text suits its service: the ports, the placeholders, the addresses.
Suits(text, w) ==
  /\ text.listen = {ServicePort[w], MetricsPort}
  /\ text.keys \subseteq SecretKeys \cup {"POD_NAMESPACE"}
  /\ \A call \in text.calls : call = <<call[1], ServicePort[call[1]]>>

LEMMA TextsSuit == ASSUME NEW w \in ServiceNames PROVE Suits(BuildAllConfigMaps[w], w)
<1> USE TextIs, TextKeys, Calls, ServicePorts
<1>1. Suits(buildPortalAPIConfigMap, "portal-api")
  BY DEF Suits, buildPortalAPIConfigMap
<1>2. Suits(buildPortalRPCConfigMap, "portal-rpc")
  BY DEF Suits, buildPortalRPCConfigMap
<1>3. Suits(buildManagerAPIConfigMap, "manager-api")
  BY DEF Suits, buildManagerAPIConfigMap
<1>4. Suits(buildManagerRPCConfigMap, "manager-rpc")
  BY DEF Suits, buildManagerRPCConfigMap
<1>5. Suits(buildWorkloadAPIConfigMap, "workload-api")
  BY DEF Suits, buildWorkloadAPIConfigMap
<1>6. Suits(buildConsoleAPIConfigMap, "console-api")
  BY DEF Suits, buildConsoleAPIConfigMap
<1>7. Suits(buildConsoleRPCConfigMap, "console-rpc")
  BY DEF Suits, buildConsoleRPCConfigMap
<1>8. DOMAIN ServicePort = ServiceNames
  BY DEF ServicePort, ServiceNames
<1> QED BY <1>1, <1>2, <1>3, <1>4, <1>5, <1>6, <1>7, <1>8 DEF BuildAllConfigMaps, ServiceNames

\* A service's mounts have volumes, and the certificate its path.
LEMMA ServiceWired ==
  ASSUME NEW w \in ServiceNames, NEW kn, NEW m, m = getServiceVolumeMounts(w, kn),
         NEW v, v = getServiceVolumes(w, kn), NEW s, s = StoredVolumes(v)
  PROVE  /\ \A i \in DOMAIN m : i \in DOMAIN s /\ NameAt(m, i) = NameAt(s, i)
         /\ MinIOCerts(w, kn) => \E i \in DOMAIN m : m[i].path = "/app/etc/minio-certs"
<1>1. \A i \in DOMAIN m : i \in DOMAIN s /\ NameAt(m, i) = NameAt(s, i)
  <2>1. /\ Len(m) \in {1, 2} /\ DOMAIN m = 1..Len(m)
        /\ Len(m) = 2 <=> MinIOCerts(w, kn) \/ NeedCache(w)
        /\ NameAt(m, 1) = "config"
        /\ Len(m) = 2 => NameAt(m, 2) = IF NeedCache(w) THEN "cache" ELSE "minio-certs"
    BY MountsOf
  <2>2. /\ Len(v) \in {1, 2} /\ DOMAIN v = 1..Len(v) /\ DOMAIN s = DOMAIN v
        /\ Len(v) = 2 <=> MinIOCerts(w, kn) \/ NeedCache(w)
        /\ NameAt(v, 1) = "config"
        /\ Len(v) = 2 => NameAt(v, 2) = IF NeedCache(w) THEN "cache" ELSE "minio-certs"
        /\ \A i \in DOMAIN v : NameAt(s, i) = NameAt(v, i)
    BY VolumesOf
  <2>3. \A i \in DOMAIN m : i = 1 \/ (i = 2 /\ Len(m) = 2)
    BY <2>1
  <2> QED BY <2>1, <2>2, <2>3
<1>2. ASSUME MinIOCerts(w, kn) PROVE \E i \in DOMAIN m : m[i].path = "/app/etc/minio-certs"
  <2>1. m = <<Mount("config", "/app/etc"), Mount("minio-certs", "/app/etc/minio-certs")>>
    BY <1>2, ServiceMounts
  <2> QED BY <2>1, PairFields
<1> QED BY <1>1, <1>2

\* What validation has to do with the certificates.
LEMMA ValidCertificates ==
  ASSUME NEW kn, ValidateKubeNova(kn)
  PROVE  /\ Enabled(kn.storageTLS) => MinIOCerts("portal-rpc", kn)
         /\ WebHTTPS(kn.web) => WebCertificate(kn)
<1>1. Enabled(kn.storageTLS) => kn.storageTLS.enabled /\ ValidateMinIOTLS(kn.storageTLS)
  BY Zenon DEF ValidateKubeNova, validateStorage, Enabled
<1>2. Enabled(kn.storageTLS) => MinIOCerts("portal-rpc", kn)
  BY <1>1, Zenon DEF ValidateMinIOTLS, MinIOCerts
<1>3. ASSUME WebHTTPS(kn.web) PROVE WebCertificate(kn)
  <2>1. kn.web.exposeType = "nodeport"
    BY <1>3, Zenon DEF WebHTTPS
  <2>2. ValidateWebConfig(kn.web)
    BY Zenon DEF ValidateKubeNova
  <2>3. kn.web.nodePort.https.secretName # ""
    BY <1>3, <2>1, <2>2, Zenon DEF ValidateWebConfig
  <2> QED BY <1>3, <2>3, Zenon DEF WebCertificate
<1> QED BY <1>2, <1>3

\* Some items, and one more or none.
LEMMA OneMore ==
  ASSUME NEW S, NEW own \in Seq(S), NEW rest \in Seq(S), Len(rest) = 1, NEW all, all = own \o rest
  PROVE  /\ DOMAIN all = 1..Len(own) + 1 /\ all[Len(own) + 1] = rest[1]
         /\ \A i \in 1..Len(own) : all[i] = own[i]
<1>1. /\ all \in Seq(S) /\ Len(all) = Len(own) + Len(rest)
      /\ \A i \in 1..Len(own) + Len(rest) :
           all[i] = IF i <= Len(own) THEN own[i] ELSE rest[i - Len(own)]
  BY ConcatProperties
<1>2. Len(own) \in Nat /\ DOMAIN all = 1..Len(all)
  BY <1>1
<1> QED BY <1>1, <1>2

LEMMA Alone == ASSUME NEW S, NEW item \in S, NEW rest, rest = <<item>>
               PROVE  rest \in Seq(S) /\ Len(rest) = 1 /\ rest[1] = item
OBVIOUS

LEMMA NoneMore == ASSUME NEW S, NEW own \in Seq(S) PROVE own \o << >> = own
OBVIOUS

LEMMA WebMounts ==
  ASSUME NEW kn, NEW m, m = getWebVolumeMounts(kn)
  PROVE  /\ \A i \in DOMAIN m : \/ NameAt(m, i) \in {"cache", "logs", "run", "nginx-config"}
                                \/ WebCertificate(kn) /\ NameAt(m, i) = "tls-certs"
         /\ WebCertificate(kn) => \E i \in DOMAIN m : m[i].path = "/etc/nginx/certs"
<1> DEFINE one == Mount("cache", "/var/cache/nginx")
           two == Mount("logs", "/var/log/nginx")
           three == Mount("run", "/var/run")
           conf == Mount("nginx-config", "/etc/nginx/nginx.conf")
           site == Mount("nginx-config", "/etc/nginx/conf.d/default.conf")
           certs == Mount("tls-certs", "/etc/nginx/certs")
           own == <<one, two, three, conf, site>>
           rest == If(WebCertificate(kn), certs)
           S == {one, two, three, conf, site, certs}
<1>1. m = own \o rest
  BY DEF getWebVolumeMounts
<1>2. /\ WebCertificate(kn) => rest = <<certs>>
      /\ ~WebCertificate(kn) => rest = << >>
  BY DEF If
<1>3. /\ one.name = "cache" /\ two.name = "logs" /\ three.name = "run"
      /\ conf.name = "nginx-config" /\ site.name = "nginx-config"
      /\ certs.name = "tls-certs" /\ certs.path = "/etc/nginx/certs"
  BY PairFields
<1> HIDE DEF one, two, three, conf, site, certs, rest
<1>4. own \in Seq(S) /\ certs \in S
  <2>1. one \in S /\ two \in S /\ three \in S /\ conf \in S /\ site \in S /\ certs \in S
    OBVIOUS
  <2> HIDE DEF S
  <2> QED BY <2>1
<1>5. Len(own) = 5 /\ DOMAIN own = 1..5
  OBVIOUS
<1>6. \A i \in 1..5 : own[i].name \in {"cache", "logs", "run", "nginx-config"}
  BY <1>3
<1> HIDE DEF S, own
<1>7. CASE WebCertificate(kn)
  <2>1. rest \in Seq(S) /\ Len(rest) = 1 /\ rest[1] = certs
    BY <1>2, <1>4, <1>7, Alone
  <2>2. DOMAIN m = 1..6 /\ m[6] = certs /\ \A i \in 1..5 : m[i] = own[i]
    <3>1. DOMAIN m = 1..Len(own) + 1
      BY <1>1, <1>4, <2>1, OneMore
    <3>2. m[Len(own) + 1] = rest[1]
      BY <1>1, <1>4, <2>1, OneMore
    <3>3. \A i \in 1..Len(own) : m[i] = own[i]
      BY <1>1, <1>4, <2>1, OneMore
    <3> QED BY <1>5, <2>1, <3>1, <3>2, <3>3
  <2>3. \A i \in DOMAIN m : i \in 1..5 \/ i = 6
    BY <2>2
  <2> QED BY <1>3, <1>6, <1>7, <2>2, <2>3 DEF NameAt
<1>8. CASE ~WebCertificate(kn)
  <2>1. m = own
    BY <1>1, <1>2, <1>4, <1>8, NoneMore
  <2> QED BY <1>5, <1>6, <1>8, <2>1 DEF NameAt
<1> QED BY <1>7, <1>8

LEMMA WebVolumes ==
  ASSUME NEW kn, NEW v, v = getWebVolumes(kn), NEW s, s = StoredVolumes(v)
  PROVE  \A name \in {"cache", "logs", "run", "nginx-config"}
                       \cup (IF WebCertificate(kn) THEN {"tls-certs"} ELSE {}) :
           \E i \in DOMAIN s : NameAt(s, i) = name
<1> DEFINE custom == kn.web.customNginxConfigMap
           config == IF custom # "" THEN custom ELSE "frontend-nginx-config"
           conf == Volume("nginx-config", <<"ConfigMap", config>>)
           one == Volume("cache", <<"EmptyDir">>)
           two == Volume("logs", <<"EmptyDir">>)
           three == Volume("run", <<"EmptyDir">>)
           certs == Volume("tls-certs", <<"Secret", kn.web.nodePort.https.secretName>>)
           own == <<conf, one, two, three>>
           rest == If(WebCertificate(kn), certs)
           S == {conf, one, two, three, certs}
<1>1. v = own \o rest
  BY Zenon DEF getWebVolumes
<1>2. /\ WebCertificate(kn) => rest = <<certs>>
      /\ ~WebCertificate(kn) => rest = << >>
  BY Zenon DEF If
<1>3. /\ one.name = "cache" /\ two.name = "logs" /\ three.name = "run"
      /\ conf.name = "nginx-config" /\ certs.name = "tls-certs"
  BY PairFields, Zenon
<1>4. \A n, from : "name" \in DOMAIN Volume(n, from)
  BY PairFields
<1>5. \A e \in {conf, one, two, three, certs} : "name" \in DOMAIN e
  <2>1. /\ "name" \in DOMAIN conf /\ "name" \in DOMAIN one /\ "name" \in DOMAIN two
        /\ "name" \in DOMAIN three /\ "name" \in DOMAIN certs
    BY <1>4, Zenon
  <2> HIDE DEF one, two, three, conf, certs
  <2> QED BY <2>1
<1> HIDE DEF one, two, three, conf, certs, rest
<1>6. own \in Seq(S) /\ certs \in S
  <2>1. conf \in S /\ one \in S /\ two \in S /\ three \in S /\ certs \in S
    OBVIOUS
  <2> HIDE DEF S
  <2> QED BY <2>1
<1>7. /\ Len(own) = 4 /\ DOMAIN own = 1..4
      /\ own[1] = conf /\ own[2] = one /\ own[3] = two /\ own[4] = three
  OBVIOUS
<1> HIDE DEF own
<1>8. /\ \A i \in 1..4 : i \in DOMAIN v /\ v[i] = own[i]
      /\ WebCertificate(kn) => 5 \in DOMAIN v /\ v[5] = certs
  <2> HIDE DEF S
  <2>1. ASSUME WebCertificate(kn)
        PROVE  DOMAIN v = 1..5 /\ v[5] = certs /\ \A i \in 1..4 : v[i] = own[i]
    <3>1. rest \in Seq(S) /\ Len(rest) = 1 /\ rest[1] = certs
      BY <1>2, <1>6, <2>1, Alone
    <3>2. DOMAIN v = 1..Len(own) + 1
      BY <1>1, <1>6, <3>1, OneMore
    <3>3. v[Len(own) + 1] = rest[1]
      BY <1>1, <1>6, <3>1, OneMore
    <3>4. \A i \in 1..Len(own) : v[i] = own[i]
      BY <1>1, <1>6, <3>1, OneMore
    <3> QED BY <1>7, <3>1, <3>2, <3>3, <3>4
  <2>2. ASSUME ~WebCertificate(kn) PROVE v = own
    BY <1>1, <1>2, <1>6, <2>2, NoneMore
  <2>3. CASE WebCertificate(kn)
    BY <2>1, <2>3
  <2>4. CASE ~WebCertificate(kn)
    BY <1>7, <2>2, <2>4
  <2> QED BY <2>3, <2>4
<1>9. ASSUME NEW i \in DOMAIN v, v[i] \in S
      PROVE  i \in DOMAIN s /\ NameAt(s, i) = v[i].name
  BY <1>5, <1>9 DEF StoredVolumes, NameAt
<1>10. /\ 2 \in DOMAIN s /\ NameAt(s, 2) = "cache" /\ 3 \in DOMAIN s /\ NameAt(s, 3) = "logs"
      /\ 4 \in DOMAIN s /\ NameAt(s, 4) = "run" /\ 1 \in DOMAIN s /\ NameAt(s, 1) = "nginx-config"
  BY <1>7, <1>3, <1>8, <1>9
<1>11. WebCertificate(kn) => 5 \in DOMAIN s /\ NameAt(s, 5) = "tls-certs"
  BY <1>3, <1>8, <1>9
<1> QED BY <1>10, <1>11

LEMMA WebStored ==
  ASSUME NEW kn, NEW d, d = Normalise(Desired(Web, kn))
  PROVE  /\ d.mounts = getWebVolumeMounts(kn) /\ d.ports = getWebPorts(kn)
         /\ d.volumes = StoredVolumes(getWebVolumes(kn))
<1> DEFINE b == buildWebDeployment(kn)
<1>1. Desired(Web, kn) = b
  BY DEF Desired
<1>2. /\ DOMAIN b = {"replicas", "image", "pullPolicy", "env", "resources", "ports", "mounts",
                     "volumes", "serviceAccount", "pullSecrets"}
      /\ b.mounts = getWebVolumeMounts(kn) /\ b.ports = getWebPorts(kn) /\ b.volumes = getWebVolumes(kn)
  <2>1. PICK none : none = ""
    BY Zenon
  <2>2. \E image, resources, replicas, policy, env, secrets :
          b = [replicas |-> replicas, image |-> image, pullPolicy |-> policy, env |-> env,
               resources |-> resources, ports |-> getWebPorts(kn), mounts |-> getWebVolumeMounts(kn),
               volumes |-> getWebVolumes(kn), serviceAccount |-> none, pullSecrets |-> secrets]
    BY <2>1, Zenon DEF buildWebDeployment
  <2> HIDE DEF b
  <2> QED BY <2>2
<1> HIDE DEF b
<1> QED BY <1>1, <1>2 DEF Normalise

\* Mounts have volumes, certificates their paths, ports their servers and
\* placeholders their values in every Deployment a pass has been through,
\* whatever users write (the builders, ValidateKubeNova, deploymentSpecEqual).
THEOREM WiringHolds == Spec => []Wired
<1> DEFINE mounted == {stored.mounts[i].name : i \in DOMAIN stored.mounts}
           paths == {stored.mounts[i].path : i \in DOMAIN stored.mounts}
           volumes == {stored.volumes[i].name : i \in DOMAIN stored.volumes}
<1>1. ASSUME SyncInv, applied, workload # Web
      PROVE  /\ mounted \subseteq volumes
             /\ workload = "portal-rpc" /\ Enabled(spec.storageTLS) => "/app/etc/minio-certs" \in paths
             /\ Suits(BuildAllConfigMaps[workload], workload)
             /\ stored.ports = {ServicePort[workload], MetricsPort}
             /\ "POD_NAMESPACE" \in DOMAIN ByName(stored.env)
  <2> DEFINE n == Normalise(Desired(workload, spec))
  <2>1. workload \in ServiceNames /\ ValidateKubeNova(spec) /\ SameButEnv(stored, n)
    BY <1>1, WorkloadsAssumption DEF SyncInv
  <2>2. /\ n.mounts = getServiceVolumeMounts(workload, spec)
        /\ n.volumes = StoredVolumes(getServiceVolumes(workload, spec))
        /\ n.ports = {ServicePort[workload], MetricsPort}
    <3> DEFINE made == Desired(workload, spec)
    <3>1. /\ made.mounts = getServiceVolumeMounts(workload, spec)
          /\ made.volumes = getServiceVolumes(workload, spec)
          /\ made.ports = {ServicePort[workload], MetricsPort}
      BY <1>1, ServiceDesired
    <3>2. made = Desired(workload, spec)
      OBVIOUS
    <3> HIDE DEF made
    <3> QED BY <1>1, <3>1, <3>2, ServiceStored
  <2> HIDE DEF n
  <2>3. /\ stored.mounts = n.mounts /\ stored.ports = n.ports
        /\ volumes = {n.volumes[i].name : i \in DOMAIN n.volumes}
    BY <2>1 DEF SameButEnv
  <2>4. /\ mounted \subseteq volumes
        /\ MinIOCerts(workload, spec) => "/app/etc/minio-certs" \in paths
    <3>1. /\ \A i \in DOMAIN n.mounts : i \in DOMAIN n.volumes /\ NameAt(n.mounts, i) = NameAt(n.volumes, i)
          /\ MinIOCerts(workload, spec) => \E i \in DOMAIN n.mounts : n.mounts[i].path = "/app/etc/minio-certs"
      BY <2>1, <2>2, ServiceWired
    <3> QED BY <2>3, <3>1 DEF NameAt
  <2>5. workload = "portal-rpc" /\ Enabled(spec.storageTLS) => MinIOCerts(workload, spec)
    BY <2>1, ValidCertificates
  <2>6. "POD_NAMESPACE" \in DOMAIN ByName(stored.env)
    <3>1. PICK old \in Specs : FromSpec(stored, old)
      BY <1>1 DEF SyncInv
    <3>2. old \in KubeNovaSpec
      BY SpecsAssumption
    <3>3. OwnFirst(stored.env)
      BY <2>1, <3>1, <3>2, EnvFromSpec
    <3> QED BY <3>3, InByName DEF OwnFirst, Entries
  <2> QED BY <2>1, <2>2, <2>3, <2>4, <2>5, <2>6, TextsSuit
<1>2. ASSUME SyncInv, applied, workload = Web
      PROVE  /\ mounted \subseteq volumes
             /\ WebHTTPS(spec.web) => 443 \in stored.ports /\ "/etc/nginx/certs" \in paths
  <2>1. ValidateKubeNova(spec) /\ stored = Normalise(Desired(Web, spec))
    BY <1>2 DEF SyncInv
  <2>2. /\ stored.mounts = getWebVolumeMounts(spec) /\ stored.ports = getWebPorts(spec)
        /\ stored.volumes = StoredVolumes(getWebVolumes(spec))
    BY <2>1, WebStored
  <2>3. /\ \A i \in DOMAIN stored.mounts :
             \/ NameAt(stored.mounts, i) \in {"cache", "logs", "run", "nginx-config"}
             \/ WebCertificate(spec) /\ NameAt(stored.mounts, i) = "tls-certs"
        /\ WebCertificate(spec) => \E i \in DOMAIN stored.mounts : stored.mounts[i].path = "/etc/nginx/certs"
    BY <2>2, WebMounts
  <2>4. \A name \in {"cache", "logs", "run", "nginx-config"}
                       \cup (IF WebCertificate(spec) THEN {"tls-certs"} ELSE {}) :
          \E i \in DOMAIN stored.volumes : NameAt(stored.volumes, i) = name
    BY <2>2, WebVolumes
  <2>5. mounted \subseteq volumes
    BY <2>3, <2>4 DEF NameAt
  <2>6. WebHTTPS(spec.web) => WebCertificate(spec) /\ 443 \in getWebPorts(spec)
    BY <2>1, ValidCertificates DEF getWebPorts
  <2> QED BY <2>2, <2>3, <2>5, <2>6
<1>3. SyncInv => Wired
  <2>1. "portal-rpc" # Web
    BY DEF Web
  <2> QED BY <1>1, <1>2, <2>1 DEF Wired, Suits
<1> QED BY <1>3, SyncHolds, PTL

-----------------------------------------------------------------------------
(* What is sent again.                                                     *)

\* What a service's Deployment is stored as compares as equal to it, if the
\* notation of its quantities is the stored one.
LEMMA ServiceEqualsStored ==
  ASSUME NEW w \in ServiceNames, NEW kn \in KubeNovaSpec, NEW d, d = Desired(w, kn),
         Normalise(d).resources = d.resources
  PROVE  deploymentSpecEqual(Normalise(d), d)
<1> DEFINE n == Normalise(d)
<1>1. w # Web
  BY DEF ServiceNames, Web
<1>2. /\ d.env = buildDeployment(w, kn).env
      /\ d.mounts = getServiceVolumeMounts(w, kn) /\ d.volumes = getServiceVolumes(w, kn)
  BY <1>1, ServiceDesired
<1>3. /\ n.replicas = d.replicas /\ n.image = d.image /\ n.mounts = d.mounts
      /\ n.serviceAccount = d.serviceAccount /\ n.env = StoredEnv(d.env)
      /\ n.volumes = StoredVolumes(d.volumes)
  BY <1>1, ServiceStored
<1>4. n.resources = d.resources
  OBVIOUS
<1> HIDE DEF n
<1>5. compareEnvVars(n.env, d.env)
  <2>1. Fielded(d.env)
    BY <1>2, ServiceEnvStored
  <2>2. Len(n.env) = Len(d.env)
    BY <1>3, <2>1, StoredEntries
  <2>3. /\ DOMAIN Literals(n.env) = DOMAIN Literals(d.env)
        /\ \A name \in DOMAIN Literals(d.env) :
             Literals(n.env)[name].value = Literals(d.env)[name].value
    BY <1>3, <2>1, StoredLiterals
  <2> QED BY <2>2, <2>3 DEF compareEnvVars
<1>6. compareVolumeMounts(n.mounts, d.mounts)
  BY <1>2, <1>3, MountsEqualThemselves
<1>7. compareVolumes(n.volumes, d.volumes)
  BY <1>2, <1>3, VolumesEqualStored
<1> QED BY <1>3, <1>4, <1>5, <1>6, <1>7 DEF deploymentSpecEqual, compareResourceRequirements, n

\* No pass sends a service's Deployment again that nobody has changed and for
\* which the spec asks for nothing else, unless its quantities are written
\* otherwise than they are stored, whatever users write (deploymentSpecEqual).
THEOREM NothingSentTwice == Spec => OnlyRealChanges
<1>1. ASSUME SyncInv, Deploy, ~NeverEqual PROVE Real
  <2> DEFINE desired == Desired(workload, spec)
  <2> SUFFICES ASSUME parity' # parity, sent # Nil, sent = desired
               PROVE  FALSE
    BY DEF Real
  <2>1. workload # Web /\ Normalise(desired).resources = desired.resources
    BY <1>1 DEF NeverEqual
  <2>2. workload \in ServiceNames /\ spec \in KubeNovaSpec
    BY <1>1, <2>1, WorkloadsAssumption, SpecsAssumption DEF SyncInv
  <2>3. stored # Nil /\ stored = Normalise(desired)
    BY <1>1 DEF SyncInv
  <2>4. deploymentSpecEqual(Normalise(desired), desired)
    BY <2>1, <2>2, ServiceEqualsStored
  <2>5. ~(stored # Nil /\ deploymentSpecEqual(stored, desired))
    BY <1>1 DEF Deploy
  <2> QED BY <2>3, <2>4, <2>5
<1>2. SyncInv /\ [Next]_vars => [~NeverEqual => Real]_vars
  <2>1. EditSpec \/ Meddle => Real
    BY DEF EditSpec, Meddle, Real
  <2> QED BY <1>1, <2>1 DEF Next, vars
<1> QED BY <1>2, SyncHolds, PTL DEF Spec, OnlyRealChanges
=============================================================================
