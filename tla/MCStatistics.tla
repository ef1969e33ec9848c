---------------------------- MODULE MCStatistics -----------------------------
(* Instances of Statistics for TLC.                                        *)
EXTENDS Statistics, Metrics

CONSTANT Threshold      (* action_tracer.action_threshold *)

Leaf(kind, name, duration) ==
    [kind |-> kind, name |-> name, duration |-> duration, exclusive |-> duration,
     children |-> << >>, bytes |-> 7]

Inner(kind, name, exclusive, children) ==
    [kind |-> kind, name |-> name, children |-> children, bytes |-> 7, exclusive |-> exclusive,
     duration |-> exclusive + Sum([i \in 1 .. Len(children) |-> children[i].duration])]

Request(path, exclusive, children, web, status, errors, externals, sqls, forced) ==
    Inner("root", path, exclusive, children) @@
    [path |-> path, web |-> web, status |-> status, errors |-> errors, externals |-> externals,
     sqls |-> sqls, forced |-> forced, queue |-> 1]

Error(name, status) == [name |-> name, status |-> status]

Statement(sql, duration) == [sql |-> sql, duration |-> duration]

(* A page with a view that asks the database twice and sends a message: it *)
(* is slow, and fails with the same error twice, and again in the answer.  *)
Page ==
    Request("page", 2,
        << Inner("function", "view", 1,
              << Leaf("database", "q1", 3), Leaf("database", "q2", 4),
                 Inner("mq", "queue", 1, <<Leaf("function", "send", 2)>>) >>) >>,
        TRUE, 200, <<Error("KeyError", 500), Error("KeyError", 500), Error("KeyError", 200)>>,
        << >>, <<Statement("q1", 3), Statement("q2", 4)>>, FALSE)

(* The same page from a cache; another application asks for the trace.     *)
CachedPage ==
    Request("page", 1, <<Leaf("redis", "get", 1), Leaf("redis", "get", 2)>>,
            TRUE, 200, << >>, << >>, <<Statement("q1", 5)>>, TRUE)

(* The page fails, because a service does; also another statement is slow. *)
FailedPage ==
    Request("page", 1, <<Leaf("external", "service", 6), Leaf("memcache", "get", 1)>>,
            TRUE, 500, <<Error("KeyError", 500), Error("IOError", 500)>>,
            <<"service", "service">>, <<Statement("q3", 2)>>, FALSE)

(* A background task that takes no time to speak of.                       *)
Task ==
    Request("task", 0, <<Leaf("mongo", "find", 0)>>,
            FALSE, 500, << >>, <<"service">>, << >>, FALSE)

(* A page that is found to be unchanged at once.                           *)
Unchanged == Request("page", 0, << >>, TRUE, 304, << >>, << >>, << >>, FALSE)

(* What the packager is given of a request.                                *)
Reported(r) ==
    r @@ [times |-> TimeMetrics(r), traces |-> SlowActionTrace(r, NodeLimit, Threshold)]

MCFinished == {Reported(r) : r \in {Page, CachedPage, FailedPage, Task}}
MCPages    == {Reported(r) : r \in {Page, CachedPage, Unchanged}}

(* RequestLife shows of the trees the tracker builds that their own times  *)
(* add up (TimesAddUp); in the metrics made of these they still do.        *)
ASSUME TreesAssumption == TreesAddUp /\ TracesLimited
=============================================================================
