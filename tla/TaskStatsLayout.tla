---------------------------- MODULE TaskStatsLayout ----------------------------
(***************************************************************************)
(* struct taskstats from the kernel to the managed LinuxTaskStats: the     *)
(* kernel of some version sends its struct, get_taskstats copies           *)
(* get_ts_size_bv(version) bytes of it to the caller's buffer              *)
(* (so-src/get_taskstats.c:269-284) and Get_Impl reads each member of its  *)
(* result at an offset, a width and a type of its own                      *)
(* (LinuxTaskStatsReader.cs), which no compiler compares with the struct.  *)
(* Values are their bytes, the lowest first.                               *)
(***************************************************************************)
EXTENDS Integers, Sequences, SequencesExt

CONSTANTS
  Versions,    \* struct versions of the kernels there are
  Align64s,    \* alignments of a 64-bit integer: 4 on i386, 8 elsewhere
  Null         \* a member the version does not have

\* From 2^15 on Get_Impl would read a version as a negative short.
ASSUME VersionsFrom7 == Versions \subseteq Nat /\ \A v \in Versions : v >= 7 /\ v < 32768
ASSUME Align64sAreABIs == Align64s \subseteq {4, 8}

-------------------------------------------------------------------------------
\* The struct, in the order of TaskStats-Info/taskstats-v7.h to v10.h.  A field
\* has a size and an alignment, 0 for the natural one of a 64-bit integer.
Field(name, size, align) == [name |-> name, size |-> size, align |-> align]
U64(name) == Field(name, 8, 0)
Aligned8(name, size) == Field(name, size, 8)
U64s(names) == [i \in DOMAIN names |-> U64(names[i])]

V7Fields ==
  <<Field("version", 2, 2), Field("ac_exitcode", 4, 4), Field("ac_flag", 1, 1),
    Field("ac_nice", 1, 1), Aligned8("cpu_count", 8)>>
  \o U64s(<<"cpu_delay_total", "blkio_count", "blkio_delay_total", "swapin_count",
            "swapin_delay_total", "cpu_run_real_total", "cpu_run_virtual_total">>)
  \o <<Field("ac_comm", 32, 1), Aligned8("ac_sched", 1), Field("ac_pad", 3, 1),
       Aligned8("ac_uid", 4), Field("ac_gid", 4, 4), Field("ac_pid", 4, 4),
       Field("ac_ppid", 4, 4), Field("ac_btime", 4, 4), Aligned8("ac_etime", 8)>>
  \o U64s(<<"ac_utime", "ac_stime", "ac_minflt", "ac_majflt", "coremem", "virtmem",
            "hiwater_rss", "hiwater_vm", "read_char", "write_char", "read_syscalls",
            "write_syscalls", "read_bytes", "write_bytes", "cancelled_write_bytes",
            "nvcsw", "nivcsw", "ac_utimescaled", "ac_stimescaled",
            "cpu_scaled_run_real_total", "freepages_count", "freepages_delay_total">>)
V9Fields == V7Fields \o U64s(<<"thrashing_count", "thrashing_delay_total">>)
V10Fields == V9Fields \o U64s(<<"ac_btime64">>)

\* Newer versions only add fields to the bottom of the struct (v10.h:26-27).
Fields(version) ==
  IF version <= 8 THEN V7Fields
  ELSE IF version = 9 THEN V9Fields
  ELSE IF version = 10 THEN V10Fields
  ELSE V10Fields \o U64s(<<"added_later">>)

FieldNames(version) == {Fields(version)[k].name : k \in DOMAIN Fields(version)}
ASSUME NullIsNoMember ==
  \A v \in Versions : Null \notin [from : SUBSET FieldNames(v), bytes : Seq(0..255)]

\* The C layout rule: a field starts at the next multiple of its alignment.
RoundUp(n, align) == ((n + align - 1) \div align) * align
AlignOf(field, align64) == IF field.align = 0 THEN align64 ELSE field.align
End(fields, align64) ==
  LET end[i \in 0..Len(fields)] ==
        IF i = 0 THEN 0
        ELSE RoundUp(end[i - 1], AlignOf(fields[i], align64)) + fields[i].size
  IN end
Layout(fields, align64) ==
  LET end == End(fields, align64) IN
  [i \in DOMAIN fields |->
     [name |-> fields[i].name, offset |-> end[i] - fields[i].size, size |-> fields[i].size]]
SizeOf(fields, align64) == RoundUp(End(fields, align64)[Len(fields)], 8)

-------------------------------------------------------------------------------
\* get_ts_size_bv.
\* Mutant: version 9 gets the size of version 10.
SizeOffByOneVersion(version) ==
  IF version >= 9 THEN 352
  ELSE 328
get_ts_size_bv(version) ==
  IF version >= 10 THEN 352
  ELSE IF version = 9 THEN 344
  ELSE 328

\* What the callers pass: Get_Impl's stackalloc, and the buffers of the version
\* query and of the capability probes.
BufferSizes == {640, 1024}

\* The members Get_Impl fills, in its order: offset, width, and the version from
\* which it reads them.
Member(name, offset, width, from) ==
  [name |-> name, offset |-> offset, width |-> width, from |-> from]
Members ==
  <<Member("Version", 0, 2, 0), Member("Nice", 9, 1, 0),
    Member("BlockIoCount", 32, 8, 0), Member("BlockIoDelay", 40, 8, 0),
    Member("SwapinCount", 48, 8, 0), Member("SwapinDelay", 56, 8, 0),
    Member("UserId", 120, 4, 0), Member("GroupId", 124, 4, 0),
    Member("Pid", 128, 4, 0), Member("ParentPid", 132, 4, 0),
    Member("BeginTime32", 136, 4, 0), Member("ElapsedTime", 144, 8, 0),
    Member("UserTime", 152, 8, 0), Member("KernelTime", 160, 8, 0),
    Member("MinorPageFaults", 168, 8, 0), Member("MajorPageFaults", 176, 8, 0),
    Member("ReadBytes", 216, 8, 0), Member("WriteBytes", 224, 8, 0),
    Member("ReadSysCalls", 232, 8, 0), Member("WriteSysCalls", 240, 8, 0),
    Member("ReadBlockBackedBytes", 248, 8, 0), Member("WriteBlockBackedBytes", 256, 8, 0),
    Member("VoluntaryContextSwitches", 272, 8, 0),
    Member("InvoluntaryContextSwitches", 280, 8, 0),
    Member("UserTimeSmtScaled", 288, 8, 0), Member("KernelTimeSmtScaled", 296, 8, 0),
    Member("RealTimeSmtScaled", 304, 8, 0),
    Member("MemoryPageReclaimCounter", 312, 8, 0),
    Member("MemoryPageReclaimDelay", 320, 8, 0),
    Member("MemoryPageTrashingCounter", 328, 8, 9),
    Member("MemoryPageTrashingDelay", 336, 8, 9),
    Member("BeginTime64", 344, 8, 10)>>

VARIABLES
  version,   \* the version of the kernel's struct, its first field
  align64,   \* the ABI the kernel was built for
  nice,      \* task_nice of the task the statistics are of
  fill,      \* how large the other fields are
  copied,    \* bytes memcpy has put in the caller's buffer
  pos,       \* members Get_Impl has read
  result     \* what they hold: the fields their bytes are from and the
             \* converted bytes, or Null

kernel == <<version, align64, nice, fill>>
vars == <<kernel, copied, pos, result>>

Init ==
  /\ version \in Versions
  /\ align64 \in Align64s
  /\ nice \in {-20, 0, 19} /\ fill \in {"small", "large", "top"}
  /\ copied = 0 /\ pos = 0 /\ result = <<>>

\* smart_copy_taskstats; targetTaskStatLength is not looked at.
Copy ==
  /\ copied = 0
  /\ copied' = get_ts_size_bv(version)
  /\ UNCHANGED <<kernel, pos, result>>

\* The fields whose bytes lie in offset .. offset + width - 1; bytes that were
\* not copied are in no field.
FieldsAt(offset, width) ==
  LET laid == Layout(Fields(version), align64) IN
  {laid[i].name : i \in {k \in DOMAIN laid :
     /\ laid[k].offset < offset + width /\ offset < laid[k].offset + laid[k].size
     /\ offset + width <= copied}}

\* The bytes of the k-th field, numbered k to tell the fields apart.  Counters
\* and times stay below 2^63; ids and 32-bit times use their top bit.
FieldBytes(field, k) ==
  CASE field.name = "version" -> <<version % 256, version \div 256>>
    [] field.name = "ac_nice" -> <<nice % 256>>
    [] OTHER -> [j \in 1..field.size |->
         IF j = 1 THEN k
         ELSE IF fill = "small" THEN 0
         ELSE IF j < field.size THEN 255
         ELSE IF fill = "top" /\ field.name \in {"ac_uid", "ac_gid", "ac_btime"} THEN 255
         ELSE 127]

\* The bytes at offset .. offset + width - 1 of the buffer: zero where nothing
\* was copied, and in the padding of the struct.
Peek(offset, width) ==
  LET fields == Fields(version)
      laid == Layout(fields, align64)
      At(o) == {k \in DOMAIN laid : laid[k].offset <= o /\ o < laid[k].offset + laid[k].size}
  IN [j \in 1..width |->
        LET o == offset + j - 1 IN
        IF o >= copied \/ At(o) = {} THEN 0
        ELSE LET k == CHOOSE i \in At(o) : TRUE IN
             FieldBytes(fields[k], k)[o - laid[k].offset + 1]]

\* The type of a member is as wide as what is read for it, except that the byte
\* at 9 becomes a short.
\* Mutant: long members are read through an int.
WidenInt(bytes) ==
  IF Len(bytes) = 1 THEN Append(bytes, 0)
  ELSE IF Len(bytes) = 8
    THEN [j \in 1..8 |-> IF j <= 4 THEN bytes[j] ELSE IF bytes[4] >= 128 THEN 255 ELSE 0]
  ELSE bytes
Widen(bytes) == IF Len(bytes) = 1 THEN Append(bytes, 0) ELSE bytes

ReadMember(m) ==
  [from |-> FieldsAt(m.offset, m.width), bytes |-> Widen(Peek(m.offset, m.width))]

\* Get_Impl reads the next member, or null when the version has none.
\* Mutant: the test of the version is `>` for `>=`.
ReadStrict ==
  /\ copied > 0 /\ pos < Len(Members)
  /\ LET m == Members[pos + 1] IN
       result' = Append(result, IF version > m.from \/ m.from = 0 THEN ReadMember(m) ELSE Null)
  /\ pos' = pos + 1
  /\ UNCHANGED <<kernel, copied>>
Read ==
  /\ copied > 0 /\ pos < Len(Members)
  /\ LET m == Members[pos + 1] IN
       result' = Append(result, IF version >= m.from THEN ReadMember(m) ELSE Null)
  /\ pos' = pos + 1
  /\ UNCHANGED <<kernel, copied>>

Next == Copy \/ Read

Spec == Init /\ [][Next]_vars

-------------------------------------------------------------------------------
\* The field each member is named for or commented with in Get_Impl.
Meaning ==
  [Version |-> "version", Nice |-> "ac_nice", BlockIoCount |-> "blkio_count",
   BlockIoDelay |-> "blkio_delay_total", SwapinCount |-> "swapin_count",
   SwapinDelay |-> "swapin_delay_total", UserId |-> "ac_uid", GroupId |-> "ac_gid",
   Pid |-> "ac_pid", ParentPid |-> "ac_ppid", BeginTime32 |-> "ac_btime",
   ElapsedTime |-> "ac_etime", UserTime |-> "ac_utime", KernelTime |-> "ac_stime",
   MinorPageFaults |-> "ac_minflt", MajorPageFaults |-> "ac_majflt",
   ReadBytes |-> "read_char", WriteBytes |-> "write_char",
   ReadSysCalls |-> "read_syscalls", WriteSysCalls |-> "write_syscalls",
   ReadBlockBackedBytes |-> "read_bytes", WriteBlockBackedBytes |-> "write_bytes",
   VoluntaryContextSwitches |-> "nvcsw", InvoluntaryContextSwitches |-> "nivcsw",
   UserTimeSmtScaled |-> "ac_utimescaled", KernelTimeSmtScaled |-> "ac_stimescaled",
   RealTimeSmtScaled |-> "cpu_scaled_run_real_total",
   MemoryPageReclaimCounter |-> "freepages_count",
   MemoryPageReclaimDelay |-> "freepages_delay_total",
   MemoryPageTrashingCounter |-> "thrashing_count",
   MemoryPageTrashingDelay |-> "thrashing_delay_total",
   BeginTime64 |-> "ac_btime64"]

HasField(name) == name \in FieldNames(version)

\* Every member holds the field it is named for, whole and alone, in every
\* version and under both alignments, and is null exactly when the version has
\* no such field: no member reads a neighbour, padding or bytes not copied.
MembersHoldTheirFields ==
  \A i \in 1..pos :
    LET name == Meaning[Members[i].name] IN
    /\ IF HasField(name) THEN result[i] # Null /\ result[i].from = {name}
                         ELSE result[i] = Null
    /\ \A k \in DOMAIN Fields(version) :
         Fields(version)[k].name = name => Fields(version)[k].size = Members[i].width

\* A value as a signed or an unsigned number, 9 bytes of it.
Nine(bytes, pad) == [j \in 1..9 |-> IF j <= Len(bytes) THEN bytes[j] ELSE pad]
Unsigned(bytes) == Nine(bytes, 0)
Signed(bytes) == Nine(bytes, IF Last(bytes) >= 128 THEN 255 ELSE 0)

\* Every member is the number the kernel gave: no bit of a field is lost on the
\* way through the struct, the copy, the offset and the conversion, and the signed
\* member is the unsigned field, unless the field is a 32-bit one of 2^31 or
\* more (which keeps its bits and reads as a negative int).
ValuesKept ==
  \A i \in 1..pos : result[i] # Null =>
    \E k \in DOMAIN Fields(version) :
      LET field == FieldBytes(Fields(version)[k], k)
          member == result[i].bytes
      IN /\ Fields(version)[k].name = Meaning[Members[i].name]
         /\ SubSeq(member, 1, Len(field)) = field
         /\ Last(field) < 128 \/ Len(member) > Len(field) => Signed(member) = Unsigned(field)

\* Nice is the task's nice value, "__u8 ac_nice; /* task_nice */"
\* (taskstats-v10.h:54), negative for a task of raised priority.
NiceIsTaskNice ==
  \A i \in 1..pos : Members[i].name = "Nice" =>
    Signed(result[i].bytes) = Signed(<<nice % 256>>)

\* The copy reads no more than the kernel sent, writes no more than any caller
\* has room for, and for the versions that are known copies all there is.
CopyIsExact ==
  copied > 0 =>
    /\ copied <= SizeOf(Fields(version), align64)
    /\ \A size \in BufferSizes : copied <= size
    /\ version <= 10 => copied = SizeOf(Fields(version), align64)
===============================================================================
