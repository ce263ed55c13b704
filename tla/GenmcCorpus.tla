----------------------------- MODULE GenmcCorpus ----------------------------
(***************************************************************************)
(* The 60 test programs under GENMC&Nidhugg, and what the reports beside   *)
(* them recorded.  A program is named after its file, without the suffix   *)
(* _genmc.c and with the characters TLA+ does not allow left out.          *)
(*                                                                         *)
(* A load whose result only an assertion of the same branch uses is made   *)
(* unconditionally, and the branch's condition becomes part of the failure. *)
(* The other conditions are When's.                                        *)
(***************************************************************************)
EXTENDS Litmus

None == <<>>         \* every variable starts as 0

Fail(t, i, r, v) == {<<t, i, r, v>>}

(* Faulty variant: the flag is stored first.                               *)
PublishFlagFirst(start, data, v, flag, w) ==
  Program(start,
          << <<St(flag, w), St(data, v)>>,
             <<Ld(flag), Ld(data)>> >>,
          {Fail(2, 1, "=", w) \cup Fail(2, 2, "#", v)})

(* Message passing: the writer stores data and then flag; the reader loads *)
(* flag and then data, and must not see the flag with anything but data.   *)
Publish(start, data, v, flag, w) ==
  Program(start,
          << <<St(data, v), St(flag, w)>>,
             <<Ld(flag), Ld(data)>> >>,
          {Fail(2, 1, "=", w) \cup Fail(2, 2, "#", v)})

(* The reader loads the words in the order in which they are stored, and   *)
(* must not see the first without the second.                              *)
ReadAhead(first, second) ==
  Program(None,
          << <<St(first, 1), St(second, 1)>>,
             <<Ld(first), Ld(second)>> >>,
          {Fail(2, 1, "=", 1) \cup Fail(2, 2, "=", 0)})

(* The reader counts a success or an error; main asserts, after its joins, *)
(* that there was no error.                                                *)
CountErrors(word, failures) ==
  Program(None,
          << <<St(word, 1)>>,
             <<Ld(word), When(1, "#", 0, Add("success_count", 1)),
                         When(1, "=", 0, Add("error_count", 1))>>,
             <<Join, Ld("error_count")>> >>,
          failures)

ErrorCounted == {Fail(3, 2, ">", 0)}

(* Store buffering: each thread stores one word, loads the other and keeps *)
(* the result; main asserts on both results after its joins.               *)
StoreBuffering(start, x, v, y, w, stale) ==
  Program(start,
          << <<St(x, v), Ld(y), Copy("r1", 2)>>,
             <<St(y, w), Ld(x), Copy("r2", 2)>>,
             <<Join, Ld("r1"), Ld("r2")>> >>,
          {Fail(3, 2, "=", stale) \cup Fail(3, 3, "=", 0)})

-----------------------------------------------------------------------------
(* Layer1                                                                  *)
datarace       == Publish(None, "data", 42, "flag", 1)
CVE_2020_25603 == Publish(None, "d_evtchn", 1, "d_valid_evtchns", 1)
ceph           == Publish(None, "locked_by", 1, "nlock", 1)
DragonWell8    == Publish(None, "table_data", 42, "table_ptr", 1)
JDK            == Publish(None, "semaphore_val", 1, "waiter_state", 1)
libfabric      == Publish(None, "cmd_data", 99, "resp_status", 1)
openmpi        == Publish("item_free" :> 1, "next_ptr", 1, "item_free", 0)
includeos      == Publish(None, "desc_address", 1111, "consumed_count", 1)
ompi26         == Publish(None, "hdr_size", 1024, "global_hdr_ptr", 1)
MySQL          == Publish(None, "writer_tid", 1001, "recursive", 1)
ompi6          == Publish(("trk_active" :> 1) @@ ("trk_status" :> (0-1)),
                          "trk_status", 0, "trk_active", 0)
barrier        == Publish(None, "data", 42, "flag", 1)
rwlock_deadlock == Publish(None, "writer_thread_id", 1001, "recursive_flag", 1)
volatile_bug   == Publish(None, "log_data", 999, "log_state", 1)
pso_test       == Publish(None, "x", 1, "y", 1)

(* Read tail, then prev_next, which is stored second.                      *)
mcs == ReadAhead("tail", "prev_next")

MariaDBEasy ==
  Program(("cursor_key" :> 1) @@ ("cursor_link" :> 1),
          << <<St("cursor_key", 0), St("cursor_link", 0)>>,
             <<Ld("cursor_key"), Ld("cursor_link")>> >>,
          {Fail(2, 2, "=", 1) \cup Fail(2, 1, "#", 1)})

JDK_8179954 == StoreBuffering(None, "x", 1, "y", 1, 0)
tso_test    == StoreBuffering(None, "x", 1, "y", 1, 0)
sofa_pbrpc  == StoreBuffering("send_token" :> 1, "pending_count", 1, "send_token", 0, 1)

(* The same CAS lock in three programs.                                    *)
Linuxeasy ==
  LET worker == <<Cas("lock_val", 1), Add("in_cs", 1), Add("in_cs", 0-1),
                  St("lock_val", 0)>>
  IN  Program(None, <<worker, worker>>, {Fail(1, 2, "#", 0), Fail(2, 2, "#", 0)})

CVE_2020_11739 ==
  Program(None,
          << <<Cas("lock_cnts", 1), St("protected_data", 42), St("lock_cnts", 0)>>,
             <<Cas("lock_cnts", 1), Ld("protected_data"), St("lock_cnts", 0)>> >>,
          {Fail(2, 2, "#", 42) \cup Fail(2, 2, "#", 0)})

mysql24 ==
  LET worker == <<Cas("m_lock_word", 1), Ld("protected_data"), St("protected_data", 1),
                  St("protected_data", 0), Xchg("m_lock_word", 0)>>
  IN  Program(None, <<worker, worker>>, {Fail(1, 2, "#", 0), Fail(2, 2, "#", 0)})

(* Queue locks: a node is a number, NULL is 0.                             *)
DPDK ==
  LET enqueue(me, next, locked, otherNext) ==
        <<St(next, 0), St(locked, 1), Xchg("tail", me), When(3, "#", 0, St(otherNext, me))>>
  IN  Program(None,
              <<enqueue(1, "next1", "locked1", "next2"),
                enqueue(2, "next2", "locked2", "next1") \o <<When(3, "#", 0, Ld("next1"))>> >>,
              {})

sel4 ==
  LET clh(id, mine, pred) ==
        <<St(mine, 1), Xchg("lock_tail", id), When(2, "#", 0, Ld(pred)),
          When(3, "=", 0, Add("in_cs", 1)), When(3, "=", 0, Add("in_cs", 0-1)),
          Release(St(mine, 0))>>
  IN  Program(None,
              <<clh(1, "locked1", "locked2"), clh(2, "locked2", "locked1")>>,
              {Fail(1, 4, "#", 0), Fail(2, 4, "#", 0)})

(* Take the first free buffer of two, and check that it is marked.         *)
OpenBLAS ==
  LET allocate == <<Ld("pool0"), When(1, "=", 0, St("pool0", 1)), When(1, "=", 0, Ld("pool0")),
                    When(1, "#", 0, Ld("pool1")), When(4, "=", 0, St("pool1", 1)),
                    When(4, "=", 0, Ld("pool1"))>>
  IN  Program(None, <<allocate, allocate>>,
              UNION {{Fail(t, 3, "#", 1), Fail(t, 6, "#", 1)} : t \in {1, 2}})

(* A Point written with plain stores and published through an atomic.      *)
Plain(px, py, v, pos) ==
  Program(None,
          << <<PlainSt(px, v), PlainSt(py, v + 1), St(pos, 1)>>,
             <<Ld(pos), When(1, "=", 1, PlainLd(px)), When(1, "=", 1, PlainLd(py))>> >>,
          {})

StackOverFlowEasy == Plain("shared_p.x", "shared_p.y", 1, "currentPos")
unsafe_publish    == Plain("p_x", "p_y", 42, "current_pos")

(* Programs whose writer waits for start.                                  *)
MDEV_6615 ==
  Program(None,
          << <<Await("start"), St("data", 42), St("flag", 1)>>,
             <<Await("start"), Ld("flag"), Ld("data")>>,
             <<St("start", 1)>> >>,
          {Fail(2, 2, "=", 1) \cup Fail(2, 3, "#", 42)})

crossbeam ==
  Program(None,
          << <<Await("start"), Xchg("seq", 1), St("shared", 1)>>,
             <<St("start", 1), Ld("seq"), Ld("shared"), Ld("seq")>> >>,
          {Fail(2, 2, "=", 0) \cup Fail(2, 4, "=", 0) \cup Fail(2, 3, "=", 1)})

mysql_99556 ==
  Program(None,
          << <<Await("start"), St("data", 1), Add("counter", 1)>>,
             <<St("start", 1), Ld("counter"), Ld("data")>> >>,
          {Fail(2, 2, "=", 1) \cup Fail(2, 3, "=", 0)})

ut_realx ==
  Program(None,
          << <<Await("start"), St("value", 42), St("ready", 1)>>,
             <<St("start", 1), Ld("ready"), Ld("value")>> >>,
          {Fail(2, 2, "=", 1) \cup Fail(2, 3, "#", 42)})

-----------------------------------------------------------------------------
(* Layer2                                                                  *)
rds         == Publish(None, "addr_port", 4000, "addr_ready", 1)
vlan        == Publish(None, "vlan_created", 1, "vlan_ready", 1)
smc2        == Publish(None, "opt_value", 1, "opt_ready", 1)
watchqueue2 == Publish(None, "queue_size", 16, "size_set", 1)

gsm        == ReadAhead("ldisc_requested", "ldisc_active")
vmci       == ReadAhead("version_done", "context_done")
xdp        == ReadAhead("prog_loaded", "tracepoint_attached")
bpf        == ReadAhead("map_created", "map_updated")
tls2       == ReadAhead("repair_on", "repair_off")
unix       == ReadAhead("bound", "listening")
tcve_2017_2636 == ReadAhead("ldisc_installed", "write_done")
watchqueue == ReadAhead("size_set", "queue_initialized")

vlan_s == CountErrors("vlan_configured", ErrorCounted)
xdp2   == CountErrors("bpf_loaded", ErrorCounted)
unix_s == CountErrors("bind_done", ErrorCounted)

xsk3 ==
  Program(("refcnt" :> 1) @@ ("valid" :> 1),
          << <<Ld("valid"), When(1, "#", 0, Add("refcnt", 1)), When(1, "=", 0, St("error", 1))>>,
             <<St("valid", 0), Add("refcnt", 0-1)>>,
             <<Join, Ld("error")>> >>,
          {Fail(3, 2, "#", 0)})

xsk2 ==
  LET ring == Fail(2, 1, "=", 1)
  IN  Program(None,
              << <<St("rx_ring", 1), St("fill_ring", 1), St("bound", 1)>>,
                 <<Ld("rx_ring"), Ld("fill_ring"), Ld("bound")>> >>,
              {ring \cup Fail(2, 2, "=", 0), ring \cup Fail(2, 3, "=", 0)})

fs ==
  Program("fd_valid" :> 1,
          << <<St("fd_valid", 0)>>,
             <<Ld("fd_valid"), When(1, "=", 0, St("error", 1))>>,
             <<Join, Ld("error")>> >>,
          {Fail(3, 2, "#", 0)})

tls ==
  Program(None,
          << <<St("io_setup_done", 1), Ld("tls_active"), Ld("io_setup_done")>>,
             <<St("tls_active", 1)>> >>,
          {Fail(1, 2, "=", 0) \cup Fail(1, 3, "#", 0)})

nbd ==
  Program(None,
          << [i \in 1..10 |-> Add("msg_count", 1)], <<Ld("msg_count")>> >>,
          {Fail(2, 1, "<", 10)})

tcve_2016_8655 ==
  Program(None,
          << <<St("step", 1), St("step", 2), St("step", 3)>>,
             <<Ld("step"), When(1, "=", 2, St("error", 1))>>,
             <<Join, Ld("error")>> >>,
          {Fail(3, 2, "#", 0)})

tcve_2018_12232 ==
  Program(None,
          << <<Add("fchown_version", 1)>>,
             <<Ld("fchown_version"), Ld("dup3_version")>> >>,
          {Fail(2, 1, ">", 0) \cup Fail(2, 2, "=", 0)})

tcve_2019_6974 ==
  Program("refcnt" :> 1,
          << <<Add("refcnt", 0-1), When(1, "=", 1, Add("free_count", 1))>>,
             <<Ld("refcnt"), When(1, "<", 1, Add("free_count", 1))>>,
             <<Join, Ld("free_count")>> >>,
          {Fail(2, 1, "<", 1), Fail(3, 2, ">", 1)})

xsk ==
  Program("resource_valid" :> 1,
          << <<Ld("resource_valid"), When(1, "#", 0, St("mmap_used", 1))>>,
             <<St("resource_valid", 0), St("close_done", 1)>> >>,
          {Fail(1, 1, "=", 0)})

-----------------------------------------------------------------------------
(* Layer3; in the -high programs main returns 1, which no tool looks at.   *)
smc      == Publish(None, "smc_internal_state", 1, "smc_mode_enabled", 1)
tls_key  == Publish(None, "data_value", 1, "data_ready", 1)
smc_high == CountErrors("smc_enabled", {})
tls_high == CountErrors("tls_enabled", {})
-----------------------------------------------------------------------------
(* All of them, by name.                                                   *)
Corpus ==
  [datarace |-> datarace, CVE_2020_25603 |-> CVE_2020_25603, ceph |-> ceph,
   DragonWell8 |-> DragonWell8, JDK |-> JDK, libfabric |-> libfabric,
   openmpi |-> openmpi, includeos |-> includeos, ompi26 |-> ompi26,
   MySQL |-> MySQL, ompi6 |-> ompi6, barrier |-> barrier,
   rwlock_deadlock |-> rwlock_deadlock, volatile_bug |-> volatile_bug,
   pso_test |-> pso_test, mcs |-> mcs, MariaDBEasy |-> MariaDBEasy,
   JDK_8179954 |-> JDK_8179954, tso_test |-> tso_test,
   sofa_pbrpc |-> sofa_pbrpc, Linuxeasy |-> Linuxeasy,
   CVE_2020_11739 |-> CVE_2020_11739, mysql24 |-> mysql24, DPDK |-> DPDK,
   sel4 |-> sel4, OpenBLAS |-> OpenBLAS,
   StackOverFlowEasy |-> StackOverFlowEasy, unsafe_publish |-> unsafe_publish,
   MDEV_6615 |-> MDEV_6615, crossbeam |-> crossbeam,
   mysql_99556 |-> mysql_99556, ut_realx |-> ut_realx, rds |-> rds,
   vlan |-> vlan, smc2 |-> smc2, watchqueue2 |-> watchqueue2, gsm |-> gsm,
   vmci |-> vmci, xdp |-> xdp, bpf |-> bpf, tls2 |-> tls2, unix |-> unix,
   tcve_2017_2636 |-> tcve_2017_2636, watchqueue |-> watchqueue,
   vlan_s |-> vlan_s, xdp2 |-> xdp2, unix_s |-> unix_s, xsk3 |-> xsk3,
   xsk2 |-> xsk2, fs |-> fs, tls |-> tls, nbd |-> nbd,
   tcve_2016_8655 |-> tcve_2016_8655, tcve_2018_12232 |-> tcve_2018_12232,
   tcve_2019_6974 |-> tcve_2019_6974, xsk |-> xsk, smc |-> smc,
   tls_key |-> tls_key, smc_high |-> smc_high, tls_high |-> tls_high]

(* genmc_evaluation_report*.csv, column Conclusion; the rest is "Confirmed WMM Bug" *)
GenmcLogicBugs ==
  {"MariaDBEasy", "mcs", "gsm", "vmci", "xdp", "bpf", "tls2", "unix", "tcve_2017_2636",
   "watchqueue", "vlan_s", "xdp2", "unix_s", "xsk3", "xsk2", "fs", "tls", "nbd",
   "tcve_2016_8655", "tcve_2018_12232", "tcve_2019_6974", "xsk"}
GenmcFalseNegatives ==
  {"CVE_2020_11739", "Linuxeasy", "DPDK", "sel4", "OpenBLAS", "smc_high", "tls_high"}

Races == {"StackOverFlowEasy", "unsafe_publish"}

GenmcRow(p) ==
  CASE p \in GenmcLogicBugs ->
         <<"FAILED (Assertion)", "FAILED (Assertion)", "Logic Bug">>
    [] p \in GenmcFalseNegatives ->
         <<"SUCCESS (No Bug)", "SUCCESS (Safe)", "False Negative">>
    [] p \in Races ->
         <<"FAILED (Data Race)", "SUCCESS (Safe)", "Confirmed WMM Bug">>
    [] OTHER ->
         <<"FAILED (Assertion)", "SUCCESS (Safe)", "Confirmed WMM Bug">>

(* nidhugg_summary_report.csv, the columns for SC and PSO.                 *)
NidhuggTimeouts ==
  {"CVE_2020_11739", "Linuxeasy", "mysql24", "crossbeam", "mysql_99556", "ut_realx"}

NidhuggRow(p) ==
  CASE p \in NidhuggTimeouts -> <<"Timeout", "Timeout">>
    [] p = "MDEV_6615"        -> <<"Timeout", "Bug Detected">>
    [] p \in GenmcLogicBugs   -> <<"Bug Detected", "Bug Detected">>
    [] p \in GenmcFalseNegatives \cup Races -> <<"Safe", "Safe">>
    [] OTHER                  -> <<"Safe", "Bug Detected">>
=============================================================================
