---------------------------- MODULE MCHwRegression ----------------------------
(* Bounds for model checking the board scripts.                            *)
EXTENDS BoardScripts

MCPrints ==
  [hello_world |-> {<< "greeting", "greeting" >>, << "greeting", "<<TRAP>>" >>},
   uart_echo |-> {<< "prompt", "echo" >>},
   coremark |-> {<< "ticks_good", "<<PASS>>" >>, << "ticks_slow", "<<PASS>>" >>, << "<<PASS>>" >>},
   memory_test |-> {<< "<<PASS>>" >>, << "fails", "<<PASS>>" >>, << >>, << "ERROR", "<<FAIL>>" >>},
   coremark_pro |-> {<< "perf", "<<PASS>>" >>, << "<<TRAP>>" >>},
   linux_boot |-> {<< "welcome", "login" >>, << "welcome", "panic" >>},
   crashed |-> {<< >>, << "<<TRAP>>" >>}]

Digilent(n) == {"Digilent", n}
Base ==
  [script |-> "regression", boots |-> 0, login_only |-> FALSE,
   stages |-> {}, sweep_apps |-> {"coremark_pro_core", "coremark_pro_zip"}, keep_going |-> FALSE,
   loader_extra |-> {}, targets |-> << Digilent("a"), {"Xilinx", "b"} >>, vendor |-> "Digilent",
   pattern |-> [isdigit |-> FALSE, index |-> 0, text |-> "Digilent"], wired |-> Digilent("a"),
   linux_ready |-> TRUE, faults |-> {}, outsider |-> FALSE, before |-> << >>, prints |-> MCPrints,
   baseline |-> [coremark |-> 100, coremark_pro |-> None], tolerance |-> 5]

With(stages, keep, faults, before) ==
  [Base EXCEPT !.stages = stages, !.keep_going = keep, !.faults = faults, !.before = before]

SoakPrints == {<< "summary", "stress", "login" >>, << "no_counters", "stress", "login" >>, << "login" >>,
               << "panic", "<<TRAP>>" >>}
Soak(boots, login_only, faults, prints, before) ==
  [Base EXCEPT !.script = "soak", !.boots = boots, !.login_only = login_only, !.faults = faults,
               !.before = before, !.prints = [MCPrints EXCEPT !.linux_boot = prints]]

(* One workload per situation the scripts must survive.                    *)
MCWorkloads ==
  {With({"hello_world", "memory_test"}, TRUE, {"build", "fail", "hang"}, << "<<PASS>>" >>),
   With({"uart_echo"}, FALSE, {"hang"}, << "prompt", "echo" >>),
   With({"coremark", "linux_boot"}, FALSE, {}, << "<<PASS>>", "login" >>),
   With({"memory_test", "coremark_pro"}, TRUE, {"fail"}, << >>),
   [With({"coremark_pro", "linux_boot"}, FALSE, {}, << >>) EXCEPT !.outsider = TRUE,
                                      !.sweep_apps = {"coremark_pro_core"}],
   [With({"memory_test"}, TRUE, {}, << "<<PASS>>" >>) EXCEPT !.targets = << Digilent("a"), Digilent("c") >>],
   [With({"memory_test", "linux_boot"}, TRUE, {}, << >>) EXCEPT !.loader_extra = {"evict_free"}, !.linux_ready = FALSE],
   [With({"memory_test"}, TRUE, {}, << >>) EXCEPT !.pattern = [isdigit |-> TRUE, index |-> 1, text |-> ""]],
   Soak(2, FALSE, {"fail"}, SoakPrints, << "login" >>),
   [Soak(1, TRUE, {"hang"}, {<< "login" >>}, << >>) EXCEPT !.outsider = TRUE],
   [Base EXCEPT !.script = "image"]}

(* The Linux image: environments, kernels and archives.                    *)
Plain == [initcalls |-> << >>, functions |-> << >>, hooks |-> {}, bootargs |-> Absent, irq_mode |-> "poll",
          busybox |-> FALSE, inittab |-> {}, diag_init |-> FALSE, deletions |-> {}, clk |-> "genesys2"]
Everything == [Plain EXCEPT !.initcalls = << "g" >>, !.functions = << "f" >>,
                 !.hooks = {Hooks[i].name : i \in DOMAIN Hooks}, !.bootargs = "short",
                 !.irq_mode = "cpu-local-meip", !.busybox = TRUE, !.inittab = {"raw"}, !.diag_init = TRUE]
MCHookAddrs == [CPU_RELAX_DIV |-> << 1 >>, CPU_RELAX_PAUSE |-> << 3 >>,
                PROC_GET_INODE_MODE_RELOAD |-> << 8, 11 >>, PROC_GET_INODE_MODE_REG |-> << 13 >>,
                PROC_LOOKUP_REF_CONST |-> << 17 >>, PROC_LOOKUP_DE_ADJUST |-> << 15 >>]
MCSizeOf == [default |-> 2, short |-> 1, long |-> 6, empty |-> 0, script |-> 2, stub |-> 1, elf |-> 3,
             new_busybox |-> 4, table |-> 1, raw |-> 2, diag |-> 2]
Code(t) == << "code", t, 1 >>
Kernel == << Code("f"), Code("g"), Code("g2"), Code("__delay") >> \o Instr("div") \o Instr("pause")
          \o Instr("reload") \o << Code("x") >> \o Instr("reload") \o Instr("load") \o Instr("adjust") \o Instr("amo")
Entry(n, d) == [name |-> n, meta |-> "rootfs", data |-> d]
Rootfs == << Entry("etc/init.d/S01seedrng", "script"), Entry("bin/busybox", "elf"),
             Entry("dev/null", "empty"), Entry("etc/inittab", "table"), CPIO_TRAILER >>
Src == [kernel |-> Kernel, rootfs |-> Rootfs]
Short == [Src EXCEPT !.kernel = SubSeq(Kernel, 1, 12)]
SystemMap == [f |-> 0, g |-> 1, __delay |-> 3]
ImageSite(envs, srcs) == [envs |-> envs, srcs |-> srcs, system_map |-> SystemMap]
MCSites ==
  {ImageSite({Plain, Everything}, {Src}),
   ImageSite({Everything}, {Src, Short}),
   ImageSite({[Plain EXCEPT !.deletions = {"etc/inittab"}, !.bootargs = "short"],
              [Plain EXCEPT !.bootargs = "long"]},
             {Src, [Src EXCEPT !.rootfs = Tail(Rootfs)]}),
   ImageSite({[Plain EXCEPT !.functions = << "gone" >>, !.clk = "x3"],
              [Plain EXCEPT !.inittab = {"raw", "diag-shell"}]},
             {Src, [Src EXCEPT !.kernel = Kernel \o Instr("big")]})}

=============================================================================
