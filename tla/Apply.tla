-------------------------------- MODULE Apply --------------------------------
(***************************************************************************)
(* One change of a plan as a request to the cluster or the registry: when  *)
(* the service accepts it, and what it leaves behind.                      *)
(***************************************************************************)
EXTENDS Plan

Accepted(cluster, registry, c) ==
    CASE c.kind = "CreateTopic" -> CreateAccepted(cluster, c.topic, c.desired)
      [] c.kind = "UpdateTopicConfig" -> AlterAccepted(cluster, c.topic)
      [] c.kind = "IncreasePartitions" -> IncreaseAccepted(cluster, c.topic, c.to)
      [] c.kind = "DeleteTopic" -> DeleteAccepted(cluster, c.topic)
      [] c.kind = "RegisterSchema" -> RegisterAccepted(registry, c.subject, c.body)

ClusterAfter(cluster, c) ==
    CASE c.kind = "CreateTopic" -> Created(cluster, c.topic, c.desired)
      [] c.kind = "UpdateTopicConfig" -> Altered(cluster, c.topic, c.set, c.delete)
      [] c.kind = "IncreasePartitions" -> Increased(cluster, c.topic, c.to)
      [] c.kind = "DeleteTopic" -> Deleted(cluster, c.topic)
      [] c.kind = "RegisterSchema" -> cluster

RegistryAfter(registry, c) ==
    IF c.kind = "RegisterSchema"
    THEN Registered(registry, c.subject, c.body)
    ELSE registry
=============================================================================
