----------------------------- MODULE HwRegression -----------------------------
(***************************************************************************)
(* fpga/hw_regression.py and fpga/sweep_coremark_pro.py on the lab bench.  *)
(* The regression runs its stages in order; each loads an application and  *)
(* judges what the board prints.  The coremark_pro stage hands the UART to *)
(* the sweep, a process of its own that does the same for each workload.   *)
(*                                                                         *)
(* One pass of the capture loop is three steps (select and read the UART,  *)
(* read the loader's stdout, act on what was read), so that the loader and *)
(* the board move between them.  `host.polls' passes are left before the   *)
(* deadline.                                                               *)
(***************************************************************************)
EXTENDS LabBoard

CONSTANTS MaxPolls

VARIABLES host,        \* the script's control state and run_uart_stage/run_one locals
          serial_buf,
          results,     \* of the regression's stages
          sweep        \* of the workloads of the sweep in progress

vars == << workload, benchVars, host, serial_buf, results, sweep >>

SWEEP_STAGE == "coremark_pro"
LINUX_STAGE == "linux_boot"
HELLO_MIN_GREETINGS == 2

------------------------------------------------------------------------------
(* What a captured text says.                                              *)

Has(buf, tok) == \E i \in DOMAIN buf : buf[i].tok = tok
Count(buf, tok) == Cardinality({i \in DOMAIN buf : buf[i].tok = tok})
HasAny(buf, toks) == \E tok \in toks : Has(buf, tok)

marker_verdict(buf) == Has(buf, "<<PASS>>") /\ ~HasAny(buf, {"<<FAIL>>", "<<TRAP>>", "ERROR", "fails"})

default_failure_done(buf) == HasAny(buf, {"<<FAIL>>", "<<TRAP>>"})

(* Scores in percent of the baseline; an unrecorded baseline passes.       *)
check_score(key, measured) ==
  workload.baseline[key] = None \/ measured >= workload.baseline[key] - workload.tolerance

Ticks(buf) == {tok \in {"ticks_slow", "ticks_good"} : Has(buf, tok)}
TicksScore(tok) == IF tok = "ticks_slow" THEN 90 ELSE 100

(* The rules of a stage: build_stage and linux_stage.                      *)
success_done(app, buf) ==
  CASE app = "hello_world" -> Count(buf, "greeting") >= HELLO_MIN_GREETINGS
    [] app = "uart_echo" -> Has(buf, "echo")
    [] app = LINUX_STAGE -> Has(buf, "welcome") /\ Has(buf, "login")
    [] OTHER -> Has(buf, "<<PASS>>")

failure_done(app, buf) ==
  IF app = LINUX_STAGE THEN HasAny(buf, {"<<TRAP>>", "panic"}) ELSE default_failure_done(buf)

judge(app, buf) ==
  CASE app = "hello_world" ->
         /\ ~default_failure_done(buf) /\ ~Has(buf, "ERROR")
         /\ Count(buf, "greeting") >= HELLO_MIN_GREETINGS
    [] app = "uart_echo" -> ~default_failure_done(buf) /\ Has(buf, "echo")
    [] app = "coremark" -> /\ marker_verdict(buf)
                           /\ \E t \in Ticks(buf) : check_score("coremark", TicksScore(t))
    [] app = LINUX_STAGE -> /\ ~HasAny(buf, {"<<TRAP>>", "panic"})
                            /\ Has(buf, "welcome") /\ Has(buf, "login")
    [] OTHER -> marker_verdict(buf)

stimulus_trigger(app) == IF app = "uart_echo" THEN "prompt" ELSE None

------------------------------------------------------------------------------
(* Stages, in the order main() puts them.                                  *)

(* hello_world first, the other applications in VALID_APPS order, the      *)
(* sweep and linux_boot last.                                              *)
all_stages == << "hello_world", "coremark", "memory_test", "uart_echo", SWEEP_STAGE, LINUX_STAGE >>

selected == SelectSeq(all_stages, LAMBDA s : s \in workload.stages)

InSweep == host.app \in CoremarkPro
Stage == selected[Len(results) + 1]

Fresh(pc, app) == [pc |-> pc, app |-> app, polls |-> MaxPolls, loader_ready |-> FALSE,
                   program_started |-> FALSE, loader_done |-> FALSE, terminal_seen |-> FALSE,
                   stimulus_sent |-> FALSE, killed_loader |-> FALSE, quiet |-> TRUE]

(* main() before the stages: it refuses to start when the port is held.    *)
CheckHolders ==
  /\ workload.script = "regression" /\ host.pc = "start"
  /\ host' = [host EXCEPT !.pc = IF holders # {} THEN "refused" ELSE "next"]
  /\ UNCHANGED << workload, benchVars, serial_buf, results, sweep >>

(* configure_serial: open, take exclusive use, flush.                      *)
OpenPort(script) == holders' = holders \cup {script} /\ tty' = << >>
ClosePort(script) == holders' = holders \ {script} /\ tty' = IF holders = {script} THEN << >> ELSE tty

StartStage ==
  /\ host.pc = "next" /\ Len(results) < Len(selected)
  /\ IF Stage = SWEEP_STAGE
     THEN ClosePort("regression") /\ host' = [host EXCEPT !.pc = "sweep_check"]
     ELSE /\ host' = Fresh("launch", Stage)
          /\ IF "regression" \in holders THEN UNCHANGED << holders, tty >> ELSE OpenPort("regression")
  /\ sweep' = << >>
  /\ UNCHANGED << workload, board, loader, pipe, orphan, loads, serial_buf, results >>

Finish ==
  /\ host.pc = "next" /\ Len(results) = Len(selected)
  /\ host' = [host EXCEPT !.pc = "done"]
  /\ ClosePort("regression")
  /\ UNCHANGED << workload, board, loader, pipe, orphan, loads, serial_buf, results, sweep >>

(* A stage's result; the first one that is not a PASS ends the regression  *)
(* unless it was told to keep going.                                       *)
Record(stage, status, imgs) ==
  results' = Append(results, [stage |-> stage, status |-> status, imgs |-> imgs, img |-> loads,
                              wired |-> loader.target = workload.wired])
After(status) == IF status = "PASS" \/ workload.keep_going THEN "next" ELSE "stopped"

Stop ==
  /\ host.pc = "stopped"
  /\ host' = [host EXCEPT !.pc = "done"]
  /\ ClosePort("regression")
  /\ UNCHANGED << workload, board, loader, pipe, orphan, loads, serial_buf, results, sweep >>

------------------------------------------------------------------------------
(* run_uart_stage and run_one.                                             *)

(* drain, then start the loader.                                           *)
Launch ==
  /\ host.pc = "launch"
  /\ tty' = << >> /\ serial_buf' = << >>
  /\ Popen(host.app, workload.loader_extra \cup (IF InSweep THEN {"-v0"} ELSE {}))
  /\ host' = [host EXCEPT !.pc = "select"]
  /\ UNCHANGED << workload, board, orphan, holders, results, sweep >>

(* select waits up to 0.1 s; the UART is read first.                       *)
SelectAndReadSerial ==
  /\ host.pc = "select" /\ host.polls > 0
  /\ serial_buf' = serial_buf \o tty
  /\ tty' = << >>
  /\ host' = [host EXCEPT !.pc = "loader", !.polls = host.polls - 1,
                          !.loader_ready = pipe /\ ~host.loader_done,
                          !.terminal_seen = \/ host.terminal_seen
                                            \/ tty # << >> /\ HasAny(serial_buf', {"<<PASS>>", "<<FAIL>>", "<<TRAP>>"})]
  /\ Elapse
  /\ UNCHANGED << workload, pipe, orphan, loads, holders, results, sweep >>

(* The loader's output up to now: the first sentinel line drops the        *)
(* capture so far.                                                         *)
consume_loader(h) ==
  IF pipe /\ ~h.program_started
  THEN /\ host' = [h EXCEPT !.program_started = TRUE, !.terminal_seen = FALSE]
       /\ serial_buf' = << >> /\ pipe' = FALSE
  ELSE host' = h /\ serial_buf' = serial_buf /\ pipe' = FALSE

ReadLoaderBuffered ==  \* mutant: the sentinel sits in a buffered readline
  /\ host.pc = "loader"
  /\ host' = [host EXCEPT !.pc = "stimulus"]
  /\ UNCHANGED << workload, board, loader, pipe, orphan, loads, tty, holders, serial_buf, results, sweep >>

ReadLoader ==
  /\ host.pc = "loader"
  /\ IF host.loader_ready THEN consume_loader([host EXCEPT !.pc = "stimulus"])
     ELSE host' = [host EXCEPT !.pc = "stimulus"] /\ UNCHANGED << serial_buf, pipe >>
  /\ UNCHANGED << workload, board, loader, orphan, loads, tty, holders, results, sweep >>

ProbeDueAnyTime ==  \* mutant: typed before the load completed
  /\ ~InSweep /\ stimulus_trigger(host.app) # None /\ ~host.stimulus_sent
  /\ Has(serial_buf, stimulus_trigger(host.app))

ProbeDue == /\ ~InSweep /\ stimulus_trigger(host.app) # None /\ ~host.stimulus_sent
            /\ host.program_started /\ Has(serial_buf, stimulus_trigger(host.app))

send_uart_probe ==
  /\ host.pc = "stimulus"
  /\ host' = [host EXCEPT !.pc = "exit", !.stimulus_sent = host.stimulus_sent \/ ProbeDue]
  /\ board' = [board EXCEPT !.rx = board.rx \/ (ProbeDue /\ board.running)]
  /\ UNCHANGED << workload, loader, pipe, orphan, loads, tty, holders, serial_buf, results, sweep >>

LoaderExited == loader.st = "exited" /\ ~host.loader_done

(* proc.poll() reports the loader's exit: the rest of its output is read.  *)
CheckLoaderExit ==
  /\ host.pc = "exit"
  /\ IF LoaderExited
     THEN consume_loader([host EXCEPT !.loader_done = TRUE,
                                      !.pc = IF loader.rc # 0 THEN "load_fail" ELSE "break"])
     ELSE host' = [host EXCEPT !.pc = "break"] /\ UNCHANGED << serial_buf, pipe >>
  /\ UNCHANGED << workload, board, loader, orphan, loads, tty, holders, results, sweep >>

Terminal == IF InSweep THEN host.terminal_seen
            ELSE host.program_started /\ (success_done(host.app, serial_buf) \/ failure_done(host.app, serial_buf))

CheckBreak ==
  /\ host.pc = "break"
  /\ host' = [host EXCEPT !.pc = IF host.loader_done /\ Terminal THEN "reap" ELSE "select"]
  /\ UNCHANGED << workload, benchVars, serial_buf, results, sweep >>

DeadlineAfterLoader ==  \* mutant: a running loader is waited for
  /\ host.pc = "select" /\ host.polls = 0 /\ host.loader_done
  /\ host' = [host EXCEPT !.pc = "reap"]
  /\ UNCHANGED << workload, benchVars, serial_buf, results, sweep >>

Deadline ==
  /\ host.pc = "select" /\ host.polls = 0
  /\ host' = [host EXCEPT !.pc = "reap"]
  /\ UNCHANGED << workload, benchVars, serial_buf, results, sweep >>

(* A loader still running is terminated.  Its Vivado is not: one that has  *)
(* the target open goes on writing.                                        *)
KillLoader ==
  /\ host.pc = "reap"
  /\ IF host.loader_done \/ loader.st = "exited"
     THEN UNCHANGED << loader, pipe, orphan >> /\ host' = [host EXCEPT !.pc = "judge"]
     ELSE /\ host' = [host EXCEPT !.pc = "judge", !.killed_loader = TRUE]
          /\ loader' = [loader EXCEPT !.st = "killed"]
          /\ orphan' = IF loader.st = "write" /\ loader.target = workload.wired THEN loader.img ELSE orphan
          /\ pipe' = FALSE
  /\ UNCHANGED << workload, board, loads, tty, holders, serial_buf, results, sweep >>

Imgs == {serial_buf[i].img : i \in DOMAIN serial_buf}

UartStatusUnstarted ==  \* mutant: a load that never completed is judged
  IF success_done(host.app, serial_buf) \/ failure_done(host.app, serial_buf)
  THEN IF judge(host.app, serial_buf) THEN "PASS" ELSE "FAIL"
  ELSE "TIMEOUT"

uart_status ==
  IF ~host.program_started THEN "TIMEOUT"
  ELSE IF success_done(host.app, serial_buf) \/ failure_done(host.app, serial_buf)
       THEN IF judge(host.app, serial_buf) THEN "PASS" ELSE "FAIL"
       ELSE "TIMEOUT"

JudgeUartStage ==
  /\ ~InSweep
  /\ \/ host.pc = "judge" /\ Record(host.app, uart_status, Imgs) /\ host' = [host EXCEPT !.pc = After(uart_status)]
     \/ host.pc = "load_fail" /\ Record(host.app, "LOAD_FAIL", {}) /\ host' = [host EXCEPT !.pc = After("LOAD_FAIL")]
  /\ UNCHANGED << workload, benchVars, serial_buf, sweep >>

------------------------------------------------------------------------------
(* The sweep.                                                              *)

SweepApps == SetToSeq(workload.sweep_apps)

SweepCheck ==
  /\ host.pc = "sweep_check"
  /\ IF holders # {}
     THEN /\ Record(SWEEP_STAGE, "REFUSED", {})
          /\ host' = [host EXCEPT !.pc = After("REFUSED")]
     ELSE host' = [host EXCEPT !.pc = "sweep_open"] /\ UNCHANGED results
  /\ UNCHANGED << workload, benchVars, serial_buf, sweep >>

SweepOpen ==
  /\ host.pc = "sweep_open"
  /\ OpenPort("sweep")
  /\ host' = Fresh("launch", SweepApps[1])
  /\ UNCHANGED << workload, board, loader, pipe, orphan, loads, serial_buf, results, sweep >>

sweep_status ==
  IF marker_verdict(serial_buf) THEN "PASS"
  ELSE IF host.terminal_seen THEN "FAIL" ELSE "TIMEOUT"

JudgeWorkload ==
  /\ InSweep /\ host.pc \in {"judge", "load_fail"}
  /\ LET status == IF host.pc = "load_fail" THEN "LOAD_FAIL" ELSE sweep_status
         n == Len(sweep) + 1
     IN /\ sweep' = Append(sweep, [app |-> host.app, status |-> status, imgs |-> Imgs, img |-> loads,
                                   ips |-> Has(serial_buf, "perf"), program_started |-> host.program_started,
                                   wired |-> loader.target = workload.wired])
        /\ host' = IF n < Len(SweepApps) THEN Fresh("launch", SweepApps[n + 1])
                   ELSE [host EXCEPT !.pc = "sweep_judge"]
  /\ UNCHANGED << workload, benchVars, serial_buf, results >>

(* The official mark needs an iteration rate from every workload.          *)
coremark_pro_mark == \A i \in DOMAIN sweep : sweep[i].status = "PASS" /\ sweep[i].ips

(* The sweep closes the port and exits; its exit code and its mark decide. *)
JudgeSweep ==
  /\ host.pc = "sweep_judge"
  /\ ClosePort("sweep")
  /\ \E mark \in {90, 100} :
       LET ok == /\ \A i \in DOMAIN sweep : sweep[i].status = "PASS"
                 /\ coremark_pro_mark /\ check_score(SWEEP_STAGE, mark)
           status == IF ok THEN "PASS" ELSE "FAIL"
       IN /\ Record(SWEEP_STAGE, status, UNION {sweep[i].imgs : i \in DOMAIN sweep})
          /\ host' = [host EXCEPT !.pc = After(status), !.app = None]
  /\ UNCHANGED << workload, board, loader, pipe, orphan, loads, serial_buf, sweep >>

------------------------------------------------------------------------------
Init ==
  /\ BenchInit
  /\ host = Fresh("start", None)
  /\ serial_buf = << >> /\ results = << >> /\ sweep = << >>

HostNext ==
  \/ CheckHolders \/ StartStage \/ Finish \/ Stop
  \/ Launch \/ SelectAndReadSerial \/ ReadLoader \/ send_uart_probe \/ CheckLoaderExit
  \/ CheckBreak \/ Deadline \/ KillLoader \/ JudgeUartStage
  \/ SweepCheck \/ SweepOpen \/ JudgeWorkload \/ JudgeSweep

BenchNext == (LoaderNext \/ BoardNext \/ OutsiderNext) /\ UNCHANGED << workload, host, serial_buf, results, sweep >>

Next == HostNext \/ BenchNext

(* The scripts are scheduled processes; nothing is assumed of the loader,  *)
(* of Vivado or of the board.                                              *)
Spec == Init /\ [][Next]_vars /\ WF_vars(HostNext)

------------------------------------------------------------------------------
(* Properties.                                                             *)

Listening == host.pc \in {"select", "loader", "stimulus", "exit", "break"}

(* The state stays within its types.                                       *)
TypeOK ==
  /\ host.polls \in 0 .. MaxPolls
  /\ board.hold \in 0 .. ResetPolls
  /\ holders \subseteq {"regression", "sweep", "soak", "outsider"}
  /\ ~ ({"regression", "sweep"} \subseteq holders)
  /\ loader.st \in {"none", "setup", "prompt", "build", "vivado", "write", "loaded", "closing",
                    "stuck", "exited", "killed"}
  /\ \A i \in DOMAIN results : results[i].stage = IF workload.script = "soak" THEN "soak" ELSE selected[i]

(* A PASS or FAIL of run_uart_stage rests on the output of the image that  *)
(* stage loaded and on nothing an earlier program printed, however the     *)
(* loader was slow, hung, failed or was killed; likewise a workload the    *)
(* sweep judged after it saw the load complete.                            *)
VerdictIsOwnOutput ==
  /\ \A i \in DOMAIN results :
       LET r == results[i]
       IN r.stage \notin {SWEEP_STAGE, "soak"} /\ r.status \in {"PASS", "FAIL"} /\ r.wired => r.imgs = {r.img}
  /\ \A i \in DOMAIN sweep :
       LET r == sweep[i]
       IN r.status \in {"PASS", "FAIL"} /\ r.program_started /\ r.wired => r.imgs = {r.img}

(* Dropping the stale capture never drops output of the fresh image: once  *)
(* the sentinel was seen, all the image printed so far is captured or      *)
(* about to be read.                                                       *)
FreshOutputKept ==
  LET own(s) == Len(SelectSeq(s, LAMBDA b : b.img = board.img))
  IN Listening /\ host.program_started /\ board.img = loads /\ ~workload.outsider
     => own(serial_buf) + own(tty) = board.sent

(* The uart_echo probe is typed to the image the stage loaded, never to an *)
(* earlier program showing the same prompt.                                *)
ProbeReachesItsImage ==
  [][host'.stimulus_sent /\ ~host.stimulus_sent /\ host'.pc = "exit" /\ loader.target = workload.wired
     => board.img = loads /\ board'.running]_vars

(* The sweep finds the port free unless a process outside the regression   *)
(* has it: the regression lets go of it in time.                           *)
RefusedOnlyForOutsiders ==
  /\ \A i \in DOMAIN results : results[i].status = "REFUSED" => workload.outsider
  /\ host.pc = "refused" => workload.outsider

(* The regression comes to an end whatever the loader, Vivado and the      *)
(* board do: every wait is bounded.                                        *)
RegressionEnds == workload.script = "regression" => <>(host.pc \in {"done", "refused"})

=============================================================================
