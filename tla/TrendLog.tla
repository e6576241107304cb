------------------------------ MODULE TrendLog ------------------------------
(***************************************************************************)
(* The TrendLog object of bacnet-object: a bounded buffer of records with  *)
(* the counters BACnet clients read.  A log is a record of log_buffer,     *)
(* record_count (count), total_record_count (total), enable,               *)
(* out_of_service (oos) and log_interval (interval).  tick only moves      *)
(* last_sample, which nothing reads, and is not modelled.                  *)
(***************************************************************************)
EXTENDS Integers, Sequences

CONSTANTS
  BufferSize,  \* buffer_size, which no write changes
  MaxTotal     \* u32::MAX, where total_record_count stops

ASSUME LogAssumption == BufferSize \in Nat /\ MaxTotal \in Nat

NewLog == [buffer |-> <<>>, count |-> 0, total |-> 0,
           enable |-> TRUE, oos |-> FALSE, interval |-> 60]

Recording(log) == log.enable /\ ~ log.oos

\* A fault: the oldest record goes only when the buffer is over its size.
Room_OffByOne(buffer) == IF Len(buffer) > BufferSize THEN Tail(buffer) ELSE buffer

\* pop_front of an empty buffer does nothing: a size of 0 holds one record.
Room(buffer) ==
  IF Len(buffer) >= BufferSize /\ buffer # <<>> THEN Tail(buffer) ELSE buffer

Record(log, v) ==
  IF ~ Recording(log) THEN log
  ELSE LET b == Append(Room(log.buffer), v)
       IN [log EXCEPT !.buffer = b, !.count = Len(b),
                      !.total = IF @ < MaxTotal THEN @ + 1 ELSE @]

Clear(log) == [log EXCEPT !.buffer = <<>>, !.count = 0]

LogReply(r, log) == [result |-> r, obj |-> log]

\* write_property.  A record_count of anything but Unsigned 0 is accepted and
\* ignored.
WriteLog(log, prop, v) ==
  CASE prop = "Enable" ->
         IF v.tag = "Boolean" THEN LogReply("Ok", [log EXCEPT !.enable = (v.val # 0)])
                              ELSE LogReply("InvalidDataType", log)
    [] prop = "OutOfService" ->
         IF v.tag = "Boolean" THEN LogReply("Ok", [log EXCEPT !.oos = (v.val # 0)])
                              ELSE LogReply("InvalidDataType", log)
    [] prop = "RecordCount" ->
         LogReply("Ok", IF v.tag = "Unsigned" /\ v.val = 0 THEN Clear(log) ELSE log)
    [] prop = "LogInterval" ->
         IF v.tag = "Unsigned" THEN LogReply("Ok", [log EXCEPT !.interval = v.val])
                               ELSE LogReply("InvalidDataType", log)
    [] OTHER -> LogReply("WriteAccessDenied", log)
=============================================================================
