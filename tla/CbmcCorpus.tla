----------------------------- MODULE CbmcCorpus -----------------------------
(***************************************************************************)
(* The 58 test programs under CBMC, and what the cbmc_summary_report.csv   *)
(* beside them recorded.  A program of Layer1 is named after its file:     *)
(* c7_OpenBLAS is 7-OpenBLAS.c.  __CPROVER_assume drops the executions in  *)
(* which its condition is false, so a thread may wait there for ever.      *)
(* Accesses are plain, and CBMC looks for no data race.                    *)
(***************************************************************************)
EXTENDS GenmcCorpus

(* Faulty variant: the writer's barrier is missing.                        *)
PublishUnfenced(data, v, flag, w) ==
  Program(None,
          << <<St(data, v), St(flag, w)>>, <<Ld(flag), Ld(data)>> >>,
          {Fail(2, 1, "=", w) \cup Fail(2, 2, "#", v)})

(* Message passing with __sync_synchronize between the two stores.         *)
PublishFenced(data, v, flag, w) ==
  Program(None,
          << <<St(data, v), Fence, St(flag, w)>>, <<Ld(flag), Ld(data)>> >>,
          {Fail(2, 1, "=", w) \cup Fail(2, 2, "#", v)})

(* Faulty variant: the pointer is stored first.                            *)
PublishPointFirst(px, py, pos) ==
  Program(None,
          << <<St(pos, 1), St(px, 1), St(py, 2)>>, <<Ld(pos), Ld(px), Ld(py)>> >>,
          {Fail(2, 1, "=", 1) \cup Fail(2, 2, "#", 1), Fail(2, 1, "=", 1) \cup Fail(2, 3, "#", 2)})

(* The two halves of a Point, behind a pointer.                            *)
PublishPoint(px, py, pos) ==
  Program(None,
          << <<St(px, 1), St(py, 2), St(pos, 1)>>, <<Ld(pos), Ld(px), Ld(py)>> >>,
          {Fail(2, 1, "=", 1) \cup Fail(2, 2, "#", 1), Fail(2, 1, "=", 1) \cup Fail(2, 3, "#", 2)})

c9_Xen           == Publish(None, "evtchn", 1, "valid_evtchns", 1)
c15_openmpi      == Publish(None, "list_data", 42, "head_ptr", 1)
c17_mysql        == Publish(None, "data", 1, "lock_released", 1)
c20_barrier      == Publish(None, "data", 42, "flag", 1)
c23_mcs          == Publish(None, "me_locked", 1, "prev_next", 1)
c24_rwlock       == Publish(None, "lock_writer_thread", 1001, "lock_recursive", 1)
c25_volatile_bug == Publish(None, "log_file_data", 999, "log_state", 1)
c26_mysql_99556  == Publish(None, "gtid_mode", 1, "gtid_mode_counter", 1)
c32_datarace     == Publish(None, "data", 42, "flag", 1)
c11_MariaDBEasy  == Publish(("node_key" :> 1) @@ ("node_link" :> 1), "node_link", 0, "node_key", 0)

c7_OpenBLAS   == PublishFenced("memory_buffer", 42, "memory_flag", 1)
c10_ceph      == PublishFenced("locked_by", 1, "nlock", 1)
c14_libfabric == PublishFenced("cmd_data", 2, "resp_status", 0-1)
c22_MariaDB   == PublishFenced("db_data", 42, "db_flag", 1)
(* Without the '/' after its barrier, which no compiler accepts.           *)
c16_includeos == PublishFenced("desc_address", 1111, "product_count", 1)

c5_StackOverFlowEasy == PublishPoint("p.x", "p.y", "currentPos")
c31_unsafe_publish   == PublishPoint("global_p.x", "global_p.y", "current_pos")

c12_DragonWell8Easy ==
  Program(None,
          << <<Ld("table"), When(1, "=", 0, St("init_flag", 1)), When(1, "=", 0, St("table", 1))>>,
             <<Ld("table"), Ld("init_flag")>> >>,
          {Fail(2, 1, "=", 1) \cup Fail(2, 2, "#", 1)})

c19_ompi ==
  Program(None,
          << <<St("tag", 1), St("size", 1024), St("global_hdr_ready", 1)>>,
             <<Ld("global_hdr_ready"), Ld("tag"), Ld("size")>> >>,
          {Fail(2, 1, "=", 1) \cup Fail(2, 2, "#", 1),
           Fail(2, 1, "=", 1) \cup Fail(2, 3, "#", 1024)})

c6_ompi ==
  Program("status" :> (0-1),
          << <<St("active", 1), AwaitZero("active"), Ld("status")>>,
             <<St("status", 0), St("active", 0)>> >>,
          {Fail(1, 3, "#", 0)})

c28_pso_test ==
  Program(None,
          << <<St("pso_x", 1), St("pso_y", 1)>>,
             <<Ld("pso_y"), Copy("pso_r1", 1), Ld("pso_x"), Copy("pso_r2", 3)>>,
             <<Join, Ld("pso_r1"), Ld("pso_r2")>> >>,
          {Fail(3, 2, "=", 1) \cup Fail(3, 3, "=", 0)})

-----------------------------------------------------------------------------
(* Wrong in any memory.                                                    *)
c18_JDK_8179954 == StoreBuffering(None, "x", 1, "y", 1, 0)
c30_tso_test    == StoreBuffering(None, "tso_x", 1, "tso_y", 1, 0)
c29_sofa_pbrpc  == StoreBuffering("send_token" :> 1, "pending_message_count", 1, "send_token", 0, 1)

c27_ut_realx == ReadAhead("inno_data_ready", "inno_data")

c4_MySQL ==
  Program(None,
          << <<St("writer_thread", 1), St("lock_word", 1), St("recursive", 1)>>,
             <<Ld("writer_thread"), Ld("recursive")>> >>,
          {Fail(2, 1, "=", 1) \cup Fail(2, 2, "#", 1)})

c13_JDK ==
  Program(None,
          << <<Await("semaphore"), Ld("w_state")>>,
             <<St("semaphore", 1), St("w_state", 1)>> >>,
          {Fail(1, 2, "#", 1)})

c21_crossbeam ==
  Program(None,
          << <<Ld("seq_state"), Ld("shared_data"), Ld("seq_state")>>,
             <<St("shared_data", 1), St("seq_state", 1)>> >>,
          {Fail(1, 1, "=", 0) \cup Fail(1, 3, "=", 0) \cup Fail(1, 2, "#", 0)})

-----------------------------------------------------------------------------
(* Locks around cs++; assert(cs == 1); cs--, whose first instruction is    *)
(* the thread's i-th.  A node is the number of its owner, NULL is 0.       *)
CriticalSection(i) ==
  <<Ld("cs"), CopyPlus("cs", i, 1), Ld("cs"), Ld("cs"), CopyPlus("cs", i + 3, 0-1)>>

TwoWorkers(worker, i) ==
  Program(None, worker, {Fail(t, i + 2, "#", 1) : t \in 1..2})

next   == <<"next1", "next2">>
locked == <<"locked1", "locked2">>
Other(me) == 3 - me

c8_Xen == TwoWorkers([me \in 1..2 |-> <<Cas("cnts", 255)>> \o CriticalSection(2) \o <<St("cnts", 0)>>], 2)

(* The predecessor's node is the other thread's, or the dummy, not locked. *)
c3_sel4 ==
  TwoWorkers([me \in 1..2 |->
                <<St(locked[me], 1), Xchg("tail", me), When(2, "#", 0, AwaitZero(locked[Other(me)]))>>
                  \o CriticalSection(4) \o <<St(locked[me], 0)>>], 4)

(* unlock reads next; if it is NULL, the compare and swap makes expected   *)
(* into NULL; if that failed, unlock waits for next.                       *)
McsWorker(me, init, expected) ==
  init \o <<Xchg("tail", me), When(3, "#", 0, St(next[Other(me)], me)),
            When(3, "#", 0, AwaitZero(locked[me]))>>
    \o CriticalSection(6)
    \o <<Ld(next[me]), When(11, "=", 0, TryCas("tail", expected, 0)),
         When(12, "#", expected, Await(next[me])),
         When(11, "#", 0, St(locked[Other(me)], 0)),
         When(12, "#", expected, St(locked[Other(me)], 0))>>

c1_Linuxeasy ==
  TwoWorkers([me \in 1..2 |-> McsWorker(me, <<St(next[me], 0), St(locked[me], 1)>>, me)], 6)

(* It expects &save_me, the address of a local, which tail never holds.    *)
c2_DPDK ==
  LET save_me == 0-1
  IN  TwoWorkers([me \in 1..2 |->
                    McsWorker(me, <<St(locked[me], 1), St(next[me], 0)>>, save_me)], 6)

-----------------------------------------------------------------------------
(* Layer2 and Layer3: each thread calls kernel entry points, which are     *)
(* stubs here, with descriptors that it loads from globals; no assertion.  *)
(* k5_fs is 5-fs.c of Layer2, l1 is L3-1.c.  What the descriptors were at  *)
(* the start plays no role.                                                *)
Stubs(a, b) ==
  Program(None, <<[i \in DOMAIN a |-> Ld(a[i])], [i \in DOMAIN b |-> Ld(b[i])]>>, {})

k1_rds              == Stubs(<<"rds_sock">>, <<"rds_sock">>)
k2_vlan             == Stubs(<<"s_igmp">>, <<"s_kcm">>)
k3_vlan_s           == Stubs(<<"s_igmp">>, <<"s_kcm">>)
k4_xsk2             == Stubs(<<"xdp_fd", "xdp_fd">>, << >>)
k5_fs               == Stubs(<<"socks">>, <<"socks">>)
k6_bpf              == Stubs(<< >>, <<"u_sock">>)
k7_xdp2             == Stubs(<< >>, <<"xdp_fd", "tun_fd", "xdp_fd">>)
k8_watchqueue       == Stubs(<<"pipe_fds">>, <<"pipe_fds">>)
k9_tls2             == Stubs(<<"sock_fd", "sock_fd">>, <<"sock_fd">>)
k10_smc2            == Stubs(<<"sock_fd">>, <<"sock_fd">>)
k11_gsm             == Stubs(<<"fd">>, <<"fd">>)
k12_xsk             == Stubs(<<"xdp_fd", "xdp_fd">>, <<"xdp_fd">>)
k13_xdp             == Stubs(<< >>, <<"xdp_fd", "tun_fd", "xdp_fd">>)
k14_vmci            == Stubs(<<"vmci_fd", "vmci_fd">>, <<"vmci_fd", "epfd", "vmci_fd">>)
k15_tls             == Stubs(<<"ctx">>, <<"tcp_sock">>)
k16_nbd             == Stubs(<<"nl_sock", "nl_sock">>, <<"nbd_fd", "nbd_fd">>)
k17_unix            == Stubs(<<"u_sock", "u_sock">>, <<"u_sock">>)
k18_unix_s          == Stubs(<<"u_sock">>, <<"u_sock", "u_sock">>)
k19_tcve_2016_8655  == Stubs(<<"fd", "fd">>, <<"fd">>)
k20_tcve_2017_2636  == Stubs(<<"fd", "fd", "fd", "fd">>, <<"fd", "fd">>)
k21_tcve_2018_12232 == Stubs(<<"sv0", "uid", "gid">>, <<"sv1", "sv0">>)
(* One thread closes the descriptor that the other stores and closes.      *)
k22_tcve_2019_6974 ==
  Program(None, << <<St("target_fd", 5), Ld("target_fd"), Ld("vm_fd")>>, <<Ld("target_fd")>> >>, {})
k23_watchqueue      == Stubs(<<"pipe_fds">>, <<"key_id", "pipe_fds">>)
k24_xsk             == Stubs(<<"sock_fd", "sock_fd">>, <<"sock_fd">>)
l1                  == Stubs(<<"sock_fd">>, <<"sock_fd">>)
l2                  == Stubs(<<"sock_fd", "sock_fd">>, <<"sock_fd", "epoll_fd", "sock_fd">>)

CbmcCorpus ==
  [c1_Linuxeasy |-> c1_Linuxeasy, c2_DPDK |-> c2_DPDK, c3_sel4 |-> c3_sel4,
   c4_MySQL |-> c4_MySQL, c5_StackOverFlowEasy |-> c5_StackOverFlowEasy,
   c6_ompi |-> c6_ompi, c7_OpenBLAS |-> c7_OpenBLAS, c8_Xen |-> c8_Xen,
   c9_Xen |-> c9_Xen, c10_ceph |-> c10_ceph, c11_MariaDBEasy |-> c11_MariaDBEasy,
   c12_DragonWell8Easy |-> c12_DragonWell8Easy, c13_JDK |-> c13_JDK,
   c14_libfabric |-> c14_libfabric, c15_openmpi |-> c15_openmpi,
   c16_includeos |-> c16_includeos, c17_mysql |-> c17_mysql,
   c18_JDK_8179954 |-> c18_JDK_8179954, c19_ompi |-> c19_ompi,
   c20_barrier |-> c20_barrier, c21_crossbeam |-> c21_crossbeam,
   c22_MariaDB |-> c22_MariaDB, c23_mcs |-> c23_mcs, c24_rwlock |-> c24_rwlock,
   c25_volatile_bug |-> c25_volatile_bug, c26_mysql_99556 |-> c26_mysql_99556,
   c27_ut_realx |-> c27_ut_realx, c28_pso_test |-> c28_pso_test,
   c29_sofa_pbrpc |-> c29_sofa_pbrpc, c30_tso_test |-> c30_tso_test,
   c31_unsafe_publish |-> c31_unsafe_publish, c32_datarace |-> c32_datarace,
   k1_rds |-> k1_rds, k2_vlan |-> k2_vlan, k3_vlan_s |-> k3_vlan_s,
   k4_xsk2 |-> k4_xsk2, k5_fs |-> k5_fs, k6_bpf |-> k6_bpf, k7_xdp2 |-> k7_xdp2,
   k8_watchqueue |-> k8_watchqueue, k9_tls2 |-> k9_tls2, k10_smc2 |-> k10_smc2,
   k11_gsm |-> k11_gsm, k12_xsk |-> k12_xsk, k13_xdp |-> k13_xdp,
   k14_vmci |-> k14_vmci, k15_tls |-> k15_tls, k16_nbd |-> k16_nbd,
   k17_unix |-> k17_unix, k18_unix_s |-> k18_unix_s,
   k19_tcve_2016_8655 |-> k19_tcve_2016_8655,
   k20_tcve_2017_2636 |-> k20_tcve_2017_2636,
   k21_tcve_2018_12232 |-> k21_tcve_2018_12232,
   k22_tcve_2019_6974 |-> k22_tcve_2019_6974, k23_watchqueue |-> k23_watchqueue,
   k24_xsk |-> k24_xsk, l1 |-> l1, l2 |-> l2]

(* CBMC 5.12 refuses the programs of the first two sets ("pointer handling *)
(* for concurrency is unsound") and 16-includeos.c (a syntax error).  It   *)
(* answers about 3-sel4-dynamic.c, but what it reports is not an execution *)
(* of the program.                                                         *)
RefusedPointers == {"c1_Linuxeasy", "c2_DPDK", "c5_StackOverFlowEasy", "c12_DragonWell8Easy",
                    "c31_unsafe_publish"}
RefusedKernel   == {"k1_rds", "k10_smc2", "k15_tls"}
UnsoundPointers == {"c3_sel4"}
Refused == RefusedPointers \cup RefusedKernel \cup {"c16_includeos"}

(* The three cbmc_summary_report.csv                                       *)
CbmcLogicBugs == {"c4_MySQL", "c13_JDK", "c18_JDK_8179954", "c21_crossbeam",
                  "c27_ut_realx", "c29_sofa_pbrpc", "c30_tso_test"} \cup UnsoundPointers
CbmcNoBugs    == {"c7_OpenBLAS", "c10_ceph", "c14_libfabric", "c22_MariaDB",
                  "k2_vlan", "k3_vlan_s", "k4_xsk2", "k5_fs", "k6_bpf", "k7_xdp2",
                  "k8_watchqueue", "k9_tls2", "k11_gsm", "k12_xsk", "k13_xdp",
                  "k14_vmci", "k16_nbd", "k17_unix", "k18_unix_s",
                  "k19_tcve_2016_8655", "k20_tcve_2017_2636", "k21_tcve_2018_12232",
                  "k22_tcve_2019_6974", "k23_watchqueue", "k24_xsk", "l1", "l2"}

CbmcRow(p) ==
  CASE p \in Refused       -> <<"Exception", "Exception", "Error/Timeout (Check Log)">>
    [] p \in CbmcLogicBugs -> <<"Bug Detected", "Bug Detected", "Logic Bug">>
    [] p \in CbmcNoBugs    -> <<"Safe", "Safe", "No Bug">>
    [] OTHER               -> <<"Safe", "Bug Detected", "WMM Bug">>
=============================================================================
