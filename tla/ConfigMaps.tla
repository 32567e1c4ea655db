------------------------------ MODULE ConfigMaps ------------------------------
(***************************************************************************)
(* What the back end's services read and whom they call, as the operator's *)
(* ConfigMaps tell them (internal/builder/configmap.go), beside what the    *)
(* Secret and the Services provide for it (internal/builder/secret.go,      *)
(* internal/builder/service.go).  Of a text this keeps the port it makes    *)
(* the service listen on, the environment variables it has placeholders    *)
(* for and the addresses it calls.                                         *)
(***************************************************************************)
EXTENDS Naturals

\* BuildAllServices: the container's port for metrics.
MetricsPort == 9999

\* BuildAllServices: the port of each Service and of the container behind it.
ServicePort ==
  [name \in {"portal-api", "portal-rpc", "manager-api", "manager-rpc",
             "workload-api", "console-api", "console-rpc"} |->
     CASE name = "portal-api"   -> 8810
       [] name = "portal-rpc"   -> 30010
       [] name = "manager-api"  -> 8811
       [] name = "manager-rpc"  -> 30011
       [] name = "workload-api" -> 8812
       [] name = "console-api"  -> 8818
       [] name = "console-rpc"  -> 30018]

-----------------------------------------------------------------------------
(* The Secret, of which the container takes every key as a variable.       *)

\* BuildSecret: the keys, which are the same in all its branches.
SecretKeys ==
  {"DEFAULT_TIMEOUT",
   "MYSQL_HOST", "MYSQL_PORT", "MYSQL_DATABASE", "MYSQL_USER", "MYSQL_PASSWORD",
   "MYSQL_MAX_OPEN_CONNS", "MYSQL_MAX_IDLE_CONNS", "MYSQL_CONN_MAX_LIFETIME",
   "REDIS_HOST", "REDIS_PORT", "REDIS_PASSWORD", "REDIS_TYPE", "REDIS_TLS",
   "REDIS_NONBLOCK", "REDIS_PING_TIMEOUT",
   "MINIO_ENDPOINT", "MINIO_ACCESS_KEY", "MINIO_SECRET_KEY", "MINIO_BUCKET",
   "MINIO_USE_SSL", "MINIO_CA_FILE", "MINIO_CA_KEY", "MINIO_ENDPOINT_PROXY",
   "JWT_ACCESS_SECRET", "JWT_ACCESS_EXPIRE", "JWT_REFRESH_SECRET",
   "JWT_REFRESH_EXPIRE", "JWT_REFRESH_AFTER",
   "ALERTMANAGER_WEBHOOK_TOKEN",
   "JAEGER_ENDPOINT", "TELEMETRY_SAMPLER", "TELEMETRY_BATCHER",
   "PORTAL_NAME", "PORTAL_URL", "DEMO_MODE",
   "INJECT_IMAGE"}

-----------------------------------------------------------------------------
(* The placeholders, by section of the texts.                              *)

TelemetryKeys == {"JAEGER_ENDPOINT", "TELEMETRY_SAMPLER", "TELEMETRY_BATCHER"}
CacheKeys ==
  {"REDIS_HOST", "REDIS_PORT", "REDIS_TYPE", "REDIS_PASSWORD", "REDIS_TLS",
   "REDIS_NONBLOCK", "REDIS_PING_TIMEOUT"}
MysqlKeys ==
  {"MYSQL_USER", "MYSQL_PASSWORD", "MYSQL_HOST", "MYSQL_PORT", "MYSQL_DATABASE",
   "MYSQL_MAX_OPEN_CONNS", "MYSQL_MAX_IDLE_CONNS", "MYSQL_CONN_MAX_LIFETIME"}
StorageKeys ==
  {"MINIO_ENDPOINT", "MINIO_ENDPOINT_PROXY", "MINIO_ACCESS_KEY", "MINIO_SECRET_KEY",
   "MINIO_BUCKET", "MINIO_USE_SSL", "MINIO_CA_FILE", "MINIO_CA_KEY"}
JWTKeys ==
  {"JWT_ACCESS_SECRET", "JWT_ACCESS_EXPIRE", "JWT_REFRESH_SECRET", "JWT_REFRESH_EXPIRE",
   "JWT_REFRESH_AFTER"}
PortalKeys == {"DEMO_MODE", "PORTAL_NAME", "PORTAL_URL"}

-----------------------------------------------------------------------------
(* The texts.  Every one has the sections Telemetry, Log and Cache.        *)

Text(port, keys, calls) ==
  [listen |-> {port, 9999},
   keys   |-> {"DEFAULT_TIMEOUT"} \cup TelemetryKeys \cup CacheKeys \cup keys
                \cup (IF calls = {} THEN {} ELSE {"POD_NAMESPACE"}),
   calls  |-> calls]

PortalRpc  == <<"portal-rpc", 30010>>
ManagerRpc == <<"manager-rpc", 30011>>
ConsoleRpc == <<"console-rpc", 30018>>

buildPortalAPIConfigMap == Text(8810, {}, {PortalRpc})

buildPortalRPCConfigMap == Text(30010, PortalKeys \cup MysqlKeys \cup StorageKeys \cup JWTKeys, {})

buildManagerAPIConfigMap == Text(8811, {"ALERTMANAGER_WEBHOOK_TOKEN"}, {ManagerRpc, PortalRpc})

buildManagerRPCConfigMap == Text(30011, MysqlKeys, {PortalRpc})

buildWorkloadAPIConfigMap == Text(8812, {"INJECT_IMAGE"}, {ManagerRpc, PortalRpc})

buildConsoleAPIConfigMap == Text(8818, {}, {ManagerRpc, ConsoleRpc, PortalRpc})

buildConsoleRPCConfigMap == Text(30018, MysqlKeys, {})

BuildAllConfigMaps ==
  [name \in DOMAIN ServicePort |->
     CASE name = "portal-api"   -> buildPortalAPIConfigMap
       [] name = "portal-rpc"   -> buildPortalRPCConfigMap
       [] name = "manager-api"  -> buildManagerAPIConfigMap
       [] name = "manager-rpc"  -> buildManagerRPCConfigMap
       [] name = "workload-api" -> buildWorkloadAPIConfigMap
       [] name = "console-api"  -> buildConsoleAPIConfigMap
       [] name = "console-rpc"  -> buildConsoleRPCConfigMap]
=============================================================================
