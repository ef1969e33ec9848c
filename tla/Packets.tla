------------------------------- MODULE Packets -------------------------------
(***************************************************************************)
(* The packets of the packager (logistics/workshop/packets.py): how the    *)
(* numbers of one metric, of the apdex of one action and of one slow       *)
(* statement are merged. Times are in ms and whole.                        *)
(***************************************************************************)
EXTENDS Integers

Greater(a, b) == IF a >= b THEN a ELSE b
Smaller(a, b) == IF a <= b THEN a ELSE b

(* TimePackets.                                                            *)
NoTime == [count |-> 0, total |-> 0, exclusive |-> 0, max |-> 0, min |-> 0, squares |-> 0]

(* "count and min(..) or ..": what Python takes for false is passed over,  *)
(* and that is a minimum of zero as well as a packet without any.          *)
Lower(packet, time) ==
    IF packet.count # 0 /\ Smaller(packet.min, time) # 0
      THEN Smaller(packet.min, time) ELSE time

(* TimePackets.merge_original_time_metric.                                 *)
MergeTime(packet, duration, exclusive) ==
    [count     |-> packet.count + 1,
     total     |-> packet.total + duration,
     exclusive |-> packet.exclusive + exclusive,
     max       |-> Greater(packet.max, duration),
     min       |-> Lower(packet, duration),
     squares   |-> packet.squares + duration * duration]

(* A plausible bug: the exclusive time of the other packet is forgotten.   *)
MutMergeTimes(packet, other) ==
    [count     |-> packet.count + other.count,
     total     |-> packet.total + other.total,
     exclusive |-> packet.exclusive,
     max       |-> Greater(packet.max, other.max),
     min       |-> Lower(packet, other.min),
     squares   |-> packet.squares + other.squares]

(* TimePackets.merge_packets.                                              *)
MergeTimes(packet, other) ==
    [count     |-> packet.count + other.count,
     total     |-> packet.total + other.total,
     exclusive |-> packet.exclusive + other.exclusive,
     max       |-> Greater(packet.max, other.max),
     min       |-> Lower(packet, other.min),
     squares   |-> packet.squares + other.squares]

(* ApdexPackets.                                                           *)
NoApdex == [satisfying |-> 0, tolerating |-> 0, frustrating |-> 0]

(* A plausible bug: only the first packet's frustrated requests count.     *)
MutMergeApdex(packet, other) ==
    [satisfying  |-> packet.satisfying + other.satisfying,
     tolerating  |-> packet.tolerating + other.tolerating,
     frustrating |-> packet.frustrating]

MergeApdex(packet, other) ==
    [satisfying  |-> packet.satisfying + other.satisfying,
     tolerating  |-> packet.tolerating + other.tolerating,
     frustrating |-> packet.frustrating + other.frustrating]

(* SlowSqlPackets; node is the duration of the execution it keeps.         *)
NoSql == [count |-> 0, total |-> 0, min |-> 0, max |-> 0, node |-> 0]

(* SlowSqlPackets.merge_packets.                                           *)
MergeSqls(packet, other) ==
    [count |-> packet.count + other.count,
     total |-> packet.total + other.total,
     min   |-> Lower(packet, other.min),
     max   |-> Greater(packet.max, other.max),
     node  |-> IF other.max >= packet.max THEN other.node ELSE packet.node]

(* SlowSqlPackets.merge_slow_sql_node.                                     *)
MergeSql(packet, duration) ==
    [count |-> packet.count + 1,
     total |-> packet.total + duration,
     min   |-> Lower(packet, duration),
     max   |-> Greater(packet.max, duration),
     node  |-> IF duration >= packet.max THEN duration ELSE packet.node]
=============================================================================
