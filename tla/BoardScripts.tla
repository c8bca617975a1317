----------------------------- MODULE BoardScripts -----------------------------
(***************************************************************************)
(* The scripts around the board, one of them per behaviour: the regression *)
(* or the boot soak on the lab bench, or the making of the Linux image     *)
(* that both of them load.                                                 *)
(*                                                                         *)
(* fpga/linux_boot_soak.py is modelled here: load linux_boot again and     *)
(* again and score each boot from the UART.  The port stays open for the   *)
(* whole soak, without exclusive use; what is waiting in it is flushed     *)
(* before each load and nothing is dropped after it.                       *)
(***************************************************************************)
EXTENDS HwRegression, LinuxImage

(* open_uart: no look at who else has the port.                            *)
open_uart ==
  /\ workload.script = "soak" /\ host.pc = "start"
  /\ holders' = holders \cup {"soak"} /\ tty' = << >>
  /\ host' = Fresh("soak", LINUX_STAGE)
  /\ UNCHANGED << workload, board, loader, pipe, orphan, loads, serial_buf, results, sweep >>

(* tcflush, then run_load starts the loader.  `quiet' is history: whether  *)
(* the program on the board had nothing left to print.                     *)
SoakLaunch ==
  /\ host.pc = "soak" /\ Len(results) < workload.boots
  /\ Popen(host.app, {})
  /\ tty' = << >> /\ serial_buf' = << >>
  /\ host' = [Fresh("soak_load", host.app) EXCEPT !.quiet = board.running /\ board.out = << >>]
  /\ UNCHANGED << workload, board, orphan, holders, results, sweep >>

(* subprocess.run waits without a timeout.                                 *)
SoakWait ==
  /\ host.pc = "soak_load" /\ loader.st # "exited" /\ loader.left > 0
  /\ Elapse
  /\ UNCHANGED << workload, pipe, orphan, loads, tty, holders, host, serial_buf, results, sweep >>

Boot(status, transcript) ==
  /\ results' = Append(results, [stage |-> "soak", status |-> status, img |-> loads,
                                 imgs  |-> {transcript[i].img : i \in DOMAIN transcript},
                                 wired |-> loader.target = workload.wired, quiet |-> host.quiet])
  /\ host' = [host EXCEPT !.pc = "soak"]

run_load ==
  /\ host.pc = "soak_load" /\ loader.st = "exited"
  /\ pipe' = FALSE
  /\ IF loader.rc # 0 THEN Boot("LOAD_FAIL", << >>)
     ELSE host' = [host EXCEPT !.pc = "score"] /\ UNCHANGED results
  /\ UNCHANGED << workload, board, loader, orphan, loads, tty, holders, serial_buf, sweep >>

CRASH_MARKERS == {"panic", "<<TRAP>>", "stress_fail"}

(* The first summary line of the transcript decides about the counters.    *)
counters_unavailable(buf) ==
  LET lines == SelectSeq(buf, LAMBDA b : b.tok \in {"summary", "no_counters"})
  IN ~workload.login_only /\ lines # << >> /\ Head(lines).tok = "no_counters"

(* One pass of score_boot's loop; crash signatures are looked for first.   *)
score_boot ==
  /\ host.pc = "score" /\ host.polls > 0
  /\ serial_buf' = serial_buf \o tty /\ tty' = << >>
  /\ IF HasAny(serial_buf', CRASH_MARKERS) THEN Boot("FAIL", serial_buf')
     ELSE IF Has(serial_buf', "login")
     THEN Boot(IF /\ workload.login_only \/ Has(serial_buf', "stress")
                  /\ ~counters_unavailable(serial_buf') THEN "PASS" ELSE "FAIL", serial_buf')
     ELSE host' = [host EXCEPT !.polls = host.polls - 1] /\ UNCHANGED results
  /\ Elapse
  /\ UNCHANGED << workload, pipe, orphan, loads, holders, sweep >>

SoakTimeout ==
  /\ host.pc = "score" /\ host.polls = 0
  /\ Boot("TIMEOUT", serial_buf)
  /\ UNCHANGED << workload, benchVars, serial_buf, sweep >>

SoakDone ==
  /\ host.pc = "soak" /\ Len(results) = workload.boots
  /\ host' = [host EXCEPT !.pc = "done"]
  /\ ClosePort("soak")
  /\ UNCHANGED << workload, board, loader, pipe, orphan, loads, serial_buf, results, sweep >>

SoakNext == open_uart \/ SoakLaunch \/ SoakWait \/ run_load \/ score_boot \/ SoakTimeout \/ SoakDone

LabNext == Next \/ SoakNext

------------------------------------------------------------------------------
(* The composition.                                                        *)

NoImage ==
  /\ site = Absent /\ env = Absent /\ src = Absent /\ newer = FALSE /\ mem = Absent /\ txt = Absent
  /\ flow = NoCommand /\ packed = Absent /\ calls = 0

ScriptsInit == Init /\ IF workload.script = "image" THEN ImageInit ELSE NoImage

ScriptsNext == \/ LabNext /\ UNCHANGED imageVars
               \/ workload.script = "image" /\ ImageNext /\ UNCHANGED vars

(* A script on the bench keeps going; the user may stop at any time.       *)
ScriptsSpec == ScriptsInit /\ [][ScriptsNext]_<< vars, imageVars >> /\ WF_vars(HostNext /\ UNCHANGED imageVars)

------------------------------------------------------------------------------
(* Properties.                                                             *)

(* A boot that passes or fails was scored on its own output, whatever was  *)
(* left unread of the boot before, provided the program on the board was   *)
(* running with nothing left to print when the loader was started.  (A     *)
(* boot that timed out may still print its login prompt while the next one *)
(* is being built; the soak then scores the next one on it.)               *)
QuietSoakVerdictIsOwn ==
  \A i \in DOMAIN results :
    LET r == results[i]
    IN r.stage = "soak" /\ r.status \in {"PASS", "FAIL"} /\ r.wired /\ r.quiet => r.imgs = {r.img}

(* A verdict of the scripts is justified.  PASS and FAIL rest on the       *)
(* output of the image that was loaded for them: see VerdictIsOwnOutput    *)
(* for the stages and the sweep, QuietSoakVerdictIsOwn for the soak.  And  *)
(* the sweep is refused the port only because a process outside the        *)
(* regression has it: the regression lets go of it in time.                *)
VerdictsAreJustified ==
  VerdictIsOwnOutput /\ QuietSoakVerdictIsOwn /\ RefusedOnlyForOutsiders

=============================================================================
