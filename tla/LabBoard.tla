------------------------------- MODULE LabBoard -------------------------------
(***************************************************************************)
(* The lab bench the board scripts drive: the FPGA board on its UART, and  *)
(* one run of fpga/load_software/load_software.py, which picks a JTAG      *)
(* target, builds an application and has Vivado write it into the board.   *)
(*                                                                         *)
(* A UART byte stream is a sequence of tokens [img, tok]: tok is one of    *)
(* the texts the harness looks for, img the load (1, 2, ...; 0 is whatever *)
(* ran before) whose program printed it.  The img is history only: no      *)
(* script can see it.                                                      *)
(***************************************************************************)
EXTENDS Integers, Sequences, FiniteSets, SequencesExt

CONSTANTS None,
          Workloads,   \* what the bench is asked to do, one per behaviour
          LoadPolls,   \* polls of a capture loop that a JTAG load takes at least
          ResetPolls   \* polls that the reset outlasts the last write, at least

VARIABLES workload,
          board,       \* [img, app, whole, running, hold, out, sent, rx]
          loader,      \* the load_software.py process, [st, rc, app, options, target, img, left]
          pipe,        \* FROST_LOAD_COMPLETE is in the loader's stdout, unread
          orphan,      \* a Vivado that outlived a killed loader: its image or None
          loads,       \* loads started so far
          tty,         \* bytes received on the UART and not yet read
          holders      \* processes that have the UART open

benchVars == << board, loader, pipe, orphan, loads, tty, holders >>

(* A poll is at most 0.1 s; a load takes seconds, and the one-shot reset   *)
(* about 4 s from the last write.                                          *)
ASSUME PollsAssumption == LoadPolls \in Nat \ {0} /\ ResetPolls \in Nat \ {0, 1}

------------------------------------------------------------------------------
(* Applications and their registry.                                        *)

CoremarkPro == {"coremark_pro_core", "coremark_pro_parser", "coremark_pro_zip"}

is_coremark_pro_program(app) == app \in CoremarkPro

app_build_directory_name(app) ==
  IF is_coremark_pro_program(app) THEN "coremark_pro" ELSE app

------------------------------------------------------------------------------
(* load_software.py: its arguments and the choice of the JTAG target.      *)

Diagnostics == {"disable_free", "guard_free", "evict_free", "fence_writes", "gen_ref", "parser_size"}

(* The argument errors main() reports before it touches anything.          *)
ArgumentError(app, options) ==
  LET pro == is_coremark_pro_program(app)
      parserOnly == options \cap {"gen_ref", "parser_size"} # {}
  IN \/ {"-v0", "-v1"} \subseteq options
     \/ {"disable_free", "guard_free"} \subseteq options
     \/ pro /\ options \cap {"-v0", "-v1"} = {}
     \/ ~pro /\ options \cap {"-v0", "-v1"} # {}
     \/ ~pro /\ options \cap Diagnostics # {}
     \/ {"disable_free", "evict_free"} \subseteq options
     \/ parserOnly /\ app # "coremark_pro_parser"
     \/ parserOnly /\ "-v1" \notin options

(* A target is the set of texts its name contains; a pattern is an index   *)
(* into the list or a text.                                                *)
filter_targets(targets, pattern) ==
  IF pattern.isdigit
  THEN IF pattern.index < Len(targets) THEN << targets[pattern.index + 1] >> ELSE << >>
  ELSE SelectSeq(targets, LAMBDA t : pattern.text \in t)

(* The targets left to choose from: none is an exit, one is taken, more    *)
(* than one is put to the user.                                            *)
select_target(targets, pattern, vendor) ==
  LET ours == filter_targets(targets, [isdigit |-> FALSE, index |-> 0, text |-> vendor])
  IN IF pattern = None THEN ours ELSE filter_targets(ours, pattern)

(* linux_boot needs the Buildroot submodule and the host tools.            *)
linux_boot_preflight(app) == app = "linux_boot" => workload.linux_ready

NoLoader == [st |-> "none", rc |-> 0, app |-> None, options |-> {}, target |-> None, img |-> 0,
             left |-> 0]

Popen(app, options) ==
  /\ loader' = [st |-> "setup", rc |-> 0, app |-> app, options |-> options, target |-> None,
                img |-> loads + 1, left |-> 0]
  /\ loads' = loads + 1
  /\ pipe' = FALSE

Exits(rc) == [loader EXCEPT !.st = "exited", !.rc = rc]

(* main() up to the target: argument errors and a failed pre-flight or     *)
(* target search exit, several targets prompt.                             *)
LoaderSetup ==
  /\ loader.st = "setup"
  /\ LET found == select_target(workload.targets, workload.pattern, workload.vendor)
     IN loader' = IF \/ ArgumentError(loader.app, loader.options)
                     \/ ~linux_boot_preflight(loader.app)
                     \/ found = << >>
                  THEN Exits(1)
                  ELSE IF Len(found) = 1
                       THEN [loader EXCEPT !.st = "build", !.target = found[1]]
                       ELSE [loader EXCEPT !.st = "prompt"]
  /\ UNCHANGED << board, pipe, orphan, loads, tty, holders >>

(* The prompt loops until an index in range is typed; end of file exits.   *)
prompt_target_selection ==
  /\ loader.st = "prompt"
  /\ LET found == select_target(workload.targets, workload.pattern, workload.vendor)
     IN \/ \E i \in DOMAIN found :
             loader' = [loader EXCEPT !.st = "build", !.target = found[i]]
        \/ loader' = Exits(1)
  /\ UNCHANGED << board, pipe, orphan, loads, tty, holders >>

(* make clean and make, each under its own timeout; a failed or late build *)
(* exits 1.                                                                *)
compile_app_for_board ==
  /\ loader.st = "build"
  /\ \/ loader' = [loader EXCEPT !.st = "vivado"]
     \/ "build" \in workload.faults /\ loader' = Exits(1)
  /\ UNCHANGED << board, pipe, orphan, loads, tty, holders >>

------------------------------------------------------------------------------
(* Vivado running load_software.tcl, and the board (external).             *)

(* Programs the application may turn out to be: what each one prints.  An  *)
(* image written only in part prints what a crashed program prints.        *)
Prints(app) == workload.prints[app_build_directory_name(app)]

(* Vivado opens the target, or finds it held by another client and fails.  *)
(* The first low-BRAM write puts the CPU in reset.                         *)
VivadoStart ==
  /\ loader.st = "vivado"
  /\ IF orphan # None
     THEN loader' = Exits(1) /\ UNCHANGED board
     ELSE /\ loader' = [loader EXCEPT !.st = "write", !.left = LoadPolls]
          /\ board' = IF loader.target # workload.wired THEN board
                      ELSE [board EXCEPT !.img = loader.img, !.app = loader.app, !.whole = FALSE,
                                         !.running = FALSE, !.hold = ResetPolls, !.out = << >>,
                                         !.sent = 0, !.rx = FALSE]
  /\ UNCHANGED << pipe, orphan, loads, tty, holders >>

(* The last write: the image is whole and the reset has been re-armed.     *)
VivadoLoaded ==
  /\ loader.st = "write" /\ loader.left = 0
  /\ loader' = [loader EXCEPT !.st = "loaded"]
  /\ board' = IF loader.target # workload.wired THEN board
              ELSE [board EXCEPT !.whole = TRUE, !.hold = ResetPolls]
  /\ UNCHANGED << pipe, orphan, loads, tty, holders >>

(* puts "FROST_LOAD_COMPLETE"; flush stdout: the script's last line.       *)
VivadoSentinel ==
  /\ loader.st = "loaded"
  /\ loader' = [loader EXCEPT !.st = "closing"]
  /\ pipe' = TRUE
  /\ UNCHANGED << board, orphan, loads, tty, holders >>

VivadoExit ==
  /\ loader.st = "closing"
  /\ loader' = Exits(0)
  /\ UNCHANGED << board, pipe, orphan, loads, tty, holders >>

(* JTAG trouble: Vivado fails, or never returns.                           *)
VivadoFault ==
  /\ loader.st \in {"vivado", "write", "loaded", "closing"}
  /\ \/ "fail" \in workload.faults /\ loader.st # "closing" /\ loader' = Exits(1)
     \/ "hang" \in workload.faults /\ loader' = [loader EXCEPT !.st = "stuck"]
  /\ UNCHANGED << board, pipe, orphan, loads, tty, holders >>

(* A Vivado that survived its loader finishes its load and lets go.        *)
OrphanFinishes ==
  /\ orphan # None
  /\ board' = IF board.img = orphan THEN [board EXCEPT !.whole = TRUE, !.hold = ResetPolls]
              ELSE board
  /\ orphan' = None
  /\ UNCHANGED << loader, pipe, loads, tty, holders >>

Writing == loader.st \in {"write", "loaded"} \/ orphan # None

(* A poll interval goes by.                                                *)
CountdownPastZero(n) == n - 1  \* mutant: the timer is not stopped at zero
Countdown(n) == IF n = 0 THEN 0 ELSE n - 1
Elapse ==
  /\ board' = [board EXCEPT !.hold = IF Writing THEN board.hold ELSE Countdown(board.hold)]
  /\ loader' = [loader EXCEPT !.left = Countdown(loader.left)]

(* The one-shot reset runs out; the program starts.                        *)
LeaveReset ==
  /\ ~board.running /\ ~Writing /\ board.hold = 0
  /\ \E out \in IF board.whole THEN Prints(board.app) ELSE workload.prints["crashed"] :
       board' = [board EXCEPT !.running = TRUE, !.out = out]
  /\ UNCHANGED << loader, pipe, orphan, loads, tty, holders >>

(* The running program prints.  uart_echo answers only what was typed; a   *)
(* byte nobody has the port open for is lost.                              *)
BoardPrints ==
  /\ board.running /\ board.out # << >>
  /\ Head(board.out) = "echo" => board.rx
  /\ board' = [board EXCEPT !.out = Tail(board.out), !.sent = board.sent + 1]
  /\ tty' = IF holders = {} THEN tty
            ELSE Append(tty, [img |-> board.img, tok |-> Head(board.out)])
  /\ UNCHANGED << loader, pipe, orphan, loads, holders >>

(* A terminal program: TIOCEXCL keeps it out while the regression or the   *)
(* sweep has the port; the soak does not ask for it.                       *)
OutsiderOpens ==
  /\ workload.outsider /\ holders \subseteq {"soak"}
  /\ holders' = holders \cup {"outsider"}
  /\ UNCHANGED << board, loader, pipe, orphan, loads, tty >>

OutsiderCloses ==
  /\ "outsider" \in holders
  /\ holders' = holders \ {"outsider"}
  /\ UNCHANGED << board, loader, pipe, orphan, loads, tty >>

(* The tty layer gives each byte to one reader.                            *)
OutsiderReads ==
  /\ "outsider" \in holders /\ tty # << >>
  /\ tty' = Tail(tty)
  /\ UNCHANGED << board, loader, pipe, orphan, loads, holders >>

BenchInit ==
  /\ workload \in Workloads
  /\ board = [img |-> 0, app |-> None, whole |-> TRUE, running |-> TRUE, hold |-> 0,
              out |-> workload.before, sent |-> 0, rx |-> FALSE]
  /\ loader = NoLoader /\ pipe = FALSE /\ orphan = None /\ loads = 0
  /\ tty = << >> /\ holders = {}

LoaderNext == \/ LoaderSetup \/ prompt_target_selection \/ compile_app_for_board
              \/ VivadoStart \/ VivadoLoaded \/ VivadoSentinel \/ VivadoExit \/ VivadoFault

BoardNext == OrphanFinishes \/ LeaveReset \/ BoardPrints

OutsiderNext == OutsiderOpens \/ OutsiderCloses \/ OutsiderReads

=============================================================================
