------------------------------ MODULE MCRollout ------------------------------
(* Rollout on small instances: edits of the image, HTTPS, the replicas and  *)
(* the enabled services.                                                   *)
EXTENDS Rollout

Web(image, https) ==
  [image |-> image, https |-> https, replicas |-> 2, enabled |-> UpstreamServices]

\* An image that never starts together with HTTPS, one that does, and an API
\* disabled from the start or later.
EditedSpecs ==
  {Web("good", FALSE), Web("good", TRUE), Web("bad", TRUE),
   [Web("good", FALSE) EXCEPT !.enabled = @ \ {"workload-api"}, !.replicas = 1]}

GoodSpecs == {Web("good", FALSE), Web("better", FALSE)}
=============================================================================
