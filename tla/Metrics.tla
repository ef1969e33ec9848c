------------------------------- MODULE Metrics -------------------------------
(***************************************************************************)
(* What the tree of a finished request is turned into                      *)
(* (logistics/warehouse/): its time metrics and its slow trace.            *)
(*                                                                         *)
(* A node is [kind, name, duration, exclusive, children]; a request is     *)
(* that and what TrackerNode adds. The names of metrics are tuples: of a   *)
(* component <<kind, name>>, of a general metric <<"GENERAL", kind, part>>.*)
(* Times are in ms.                                                        *)
(***************************************************************************)
EXTENDS TrackerNode, SequencesExt

(* The classes of node that have the time metrics of their children, and   *)
(* their traces; the others call nothing that is timed.                    *)
Parents == {"root", "function", "mq"}

(* A metric of a node, in the scope of its request.                        *)
Of(node, root, name) == TimeMetric(name, root.path, node.duration, node.exclusive)

General(node, root, part) == Of(node, root, <<"GENERAL", node.kind, part>>)

Side(root) == IF root.web THEN "AllWeb" ELSE "AllBackgound"

(* What the stores have in common: a metric of the server, of the kind, by  *)
(* the kind of request, and of the operation, twice.                       *)
StoreMetrics(node, root) ==
    << General(node, root, "server"), General(node, root, "All"),
       General(node, root, Side(root)), General(node, root, node.name),
       Of(node, root, <<node.kind, node.name>>) >>

(* DatabaseNode.time_metrics: the name of a node is its table here, and    *)
(* every statement is a SELECT; the operation counts over all tables too.  *)
DatabaseMetrics(node, root) ==
    Append(StoreMetrics(node, root), General(node, root, "SELECT"))

(* RedisNode, MemcacheNode, MongoNode: time_metrics.                       *)
RedisMetrics(node, root) == StoreMetrics(node, root)

MemcacheMetrics(node, root) == StoreMetrics(node, root)

MongoMetrics(node, root) == StoreMetrics(node, root)

(* ExternalNode.time_metrics, without the trace of another application.    *)
ExternalMetrics(node, root) ==
    << General(node, root, "All"), General(node, root, "AllWeb"),
       Of(node, root, <<node.kind, node.name>>), General(node, root, node.name) >>

(* MQNode.time_metrics of a producer.                                      *)
MqMetrics(node, root) ==
    << Of(node, root, <<node.kind, node.name>>),
       TimeMetric(<<"GENERAL", node.kind, "Byte">>, root.path, node.bytes, node.exclusive),
       General(node, root, node.name), General(node, root, "All"),
       General(node, root, Side(root)) >>

(* FunctionNode.time_metrics.                                              *)
FunctionMetrics(node, root) == << Of(node, root, <<node.kind, node.name>>) >>

OwnMetrics(node, root) ==
    CASE node.kind = "database"   -> DatabaseMetrics(node, root)
      [] node.kind = "redis"      -> RedisMetrics(node, root)
      [] node.kind = "memcache"   -> MemcacheMetrics(node, root)
      [] node.kind = "mongo"      -> MongoMetrics(node, root)
      [] node.kind = "external"   -> ExternalMetrics(node, root)
      [] node.kind = "mq"         -> MqMetrics(node, root)
      [] node.kind = "function"   -> FunctionMetrics(node, root)

RECURSIVE NodeMetrics(_, _)

ChildMetrics(node, root) ==
    IF node.kind \in Parents
      THEN FlattenSeq([i \in 1 .. Len(node.children) |-> NodeMetrics(node.children[i], root)])
      ELSE << >>

NodeMetrics(node, root) == OwnMetrics(node, root) \o ChildMetrics(node, root)

(* TrackerNode.time_metrics.                                               *)
TimeMetrics(r) ==
    << TimeMetric(<<"root", r.path>>, r.path, r.duration, r.exclusive),
       TimeMetric(<<"GENERAL", "root", "QueueTime">>, "QueueTime", r.queue, r.queue) >>
    \o ChildMetrics(r, r)

-----------------------------------------------------------------------------
RECURSIVE TraceNode(_, _, _)

(* trace_node of the nodes without children (DatabaseNode and the like).   *)
TraceLeaf(node, traced) == Append(traced, node.name)

(* trace_node of the others (FunctionNode, MQNode, TrackerNode): the node  *)
(* and, as long as the count is within the limit, its children.            *)
TraceParent(node, traced, limit) ==
    FoldLeft(LAMBDA all, child : IF Len(all) > limit THEN all ELSE TraceNode(child, all, limit),
             Append(traced, node.name), node.children)

TraceNode(node, traced, limit) ==
    IF node.kind \in Parents THEN TraceParent(node, traced, limit) ELSE TraceLeaf(node, traced)

(* TrackerNode.slow_action_trace: of a slow request, or one that another   *)
(* application wants the trace of.                                         *)
SlowActionTrace(r, limit, threshold) ==
    IF ~r.forced /\ r.duration < threshold THEN << >>
    ELSE << [path |-> r.path, nodes |-> TraceNode(r, << >>, limit)] >>
=============================================================================
