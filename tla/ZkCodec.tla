------------------------------ MODULE ZkCodec ------------------------------
(***************************************************************************)
(* How app/core/zk_client.py reads a terminal's attendance log: the packed *)
(* clock (decode_zk_time, encode_zk_time), the window of plausible times   *)
(* (_decode_attendance_time), the size of a record (_resolve_record_size)  *)
(* and the loop that cuts the payload into records (get_attendance_safe).  *)
(***************************************************************************)
EXTENDS Integers, Sequences, FiniteSets

CONSTANT None      \* no time

DateTime == [year : Nat, month : 1 .. 12, day : 1 .. 31, hour : 0 .. 23, minute : 0 .. 59, second : 0 .. 59]

ASSUME ZkCodecAssumption == None \notin DateTime

IsLeap(year) == year % 4 = 0 /\ (year % 100 # 0 \/ year % 400 = 0)

LastDayOf(year, month) ==
  CASE month = 2 -> IF IsLeap(year) THEN 29 ELSE 28
    [] month \in {4, 6, 9, 11} -> 30
    [] month \in {1, 3, 5, 7, 8, 10, 12} -> 31

(* What Python's datetime() accepts; else it raises ValueError. *)
IsDate(dt) == dt.day <= LastDayOf(dt.year, dt.month)

Fields(dt) == <<dt.year, dt.month, dt.day, dt.hour, dt.minute, dt.second>>

\* Earlier in the calendar.
Before(a, b) ==
  \E i \in 1 .. 6 : Fields(a)[i] < Fields(b)[i] /\ \A j \in 1 .. i - 1 : Fields(a)[j] = Fields(b)[j]

PackedTime(dt) ==
  (dt.year - 2000) * 12 * 31 * 24 * 3600 + (dt.month - 1) * 31 * 24 * 3600
    + (dt.day - 1) * 24 * 3600 + dt.hour * 3600 + dt.minute * 60 + dt.second

(* pack("<I") takes 0 .. 2^32 - 1, which reaches to this date: the bound is*)
(* put in dates, for the checker has no number of that size.               *)
LastPackable == [year |-> 2133, month |-> 8, day |-> 18, hour |-> 6, minute |-> 28, second |-> 15]
Packable(dt) == dt.year >= 2000 /\ ~Before(LastPackable, dt)

\* None: struct.error is raised.
EncodeZkTime(dt) == IF Packable(dt) THEN PackedTime(dt) ELSE None

\* The fields of a packed time, mixed base 60/60/24/31/12.
Unpacked(value) ==
  LET minutes == value \div 60
      hours == minutes \div 60
      days == hours \div 24
      months == days \div 31
  IN [second |-> value % 60, minute |-> minutes % 60, hour |-> hours % 24,
      day |-> (days % 31) + 1, month |-> (months % 12) + 1, year |-> (months \div 12) + 2000]

DecodeZkTime(value) == IF IsDate(Unpacked(value)) THEN Unpacked(value) ELSE None

(* A time after upper_bound, a year from now, is discarded; one before     *)
(* MIN_ATTENDANCE_TIME cannot be packed.                                   *)
DecodeAttendanceTime(value, upper_bound) ==
  IF DecodeZkTime(value) # None /\ ~Before(upper_bound, DecodeZkTime(value)) THEN DecodeZkTime(value) ELSE None

SupportedSizes == {8, 16, 40, 49}
Unrecognised == 0

ResolveRecordSize_Shortest(record_count, total_size) ==   \* mutated form: what is left over is not looked at
  IF record_count > 0 /\ total_size >= record_count * 8 THEN 8 ELSE Unrecognised

(* The size that divides the payload exactly, else the largest that leaves *)
(* less than a record over.                                                *)
ResolveRecordSize(record_count, total_size) ==
  LET Exact(size) == total_size = record_count * size
      Fits(size) == record_count * size <= total_size /\ total_size - record_count * size < size
  IN CASE record_count <= 0 -> Unrecognised
       [] record_count > 0 /\ (\E size \in SupportedSizes : Exact(size)) ->
            CHOOSE size \in SupportedSizes : Exact(size)
       [] record_count > 0 /\ ~(\E size \in SupportedSizes : Exact(size)) ->
            IF Fits(49) THEN 49 ELSE IF Fits(40) THEN 40 ELSE IF Fits(16) THEN 16
            ELSE IF Fits(8) THEN 8 ELSE Unrecognised

(* Whole records are cut off while the payload has one. *)
RecordsCut(total_size, size) == total_size \div size

(* Who a record speaks of: a record of 8 bytes has a uid, which is looked  *)
(* up; in one of 16 the user_id, a string by then, is compared with uids   *)
(* and matches none.                                                       *)
PersonOf(size, who, users) ==
  IF size = 8 /\ \E u \in users : u.uid = who THEN (CHOOSE u \in users : u.uid = who).user_id ELSE who

(* A terminal's answer: it claims `count` records and `total` bytes,       *)
(* `available` bytes come, and words[size] are the records that they make  *)
(* when they are cut by that size.                                         *)
NothingRead == [entries |-> {}, skipped |-> 0]

ParseLog(log, users, upper_bound) ==
  LET size == ResolveRecordSize(log.count, log.total)
      cut == 1 .. RecordsCut(log.total, size)
      TimeOf(i) == DecodeAttendanceTime(log.words[size][i].time, upper_bound)
      readable == {i \in cut : TimeOf(i) # None}
  IN IF log.count = 0 \/ log.total \notin 1 .. log.available \/ size = Unrecognised THEN NothingRead
     ELSE [entries |-> {[place |-> i, user_id |-> PersonOf(size, log.words[size][i].who, users),
                         timestamp |-> TimeOf(i)] : i \in readable},
           skipped |-> Cardinality(cut \ readable)]
=============================================================================
