------------------------------ MODULE LinuxImage ------------------------------
(***************************************************************************)
(* The Linux DDR image: packed by build_fpga_boot.py as sw_ddr.mem (sparse *)
(* for simulation) and sw_ddr.txt (dense, for the board), then rewritten   *)
(* in place by patch_linux_image.py, under sw/apps/linux_boot/Makefile or  *)
(* by hand.                                                                *)
(*                                                                         *)
(* Data comes in units of two bytes (every patch is two units, at an even  *)
(* address); a word is two units.  A compiled tree or a compressed archive *)
(* is a blob: its units name what it holds and their place in it, and only *)
(* the whole blob can be read back.  A line of a file is a directive       *)
(* << "@", word >> or a word << "w", unit, unit >>.  Absent stands for a   *)
(* missing file, and for the failure of an operation.                      *)
(***************************************************************************)
EXTENDS Integers, Sequences, FiniteSets, SequencesExt, FiniteSetsExt

CONSTANTS Absent,
          DTB_WORD, INITRD_WORD,
          HookAddrs,     \* unit addresses of the checked hooks; cpu_relax's are relative to __delay
          SizeOf,        \* units that a text takes in a blob
          Sites,         \* what the image is built from, one per behaviour
          MaxCalls       \* commands the user gives

VARIABLES site,          \* [envs, srcs, system_map]
          env,           \* the environment variables of the next command
          src,           \* kernel and rootfs that Buildroot produced last
          newer,         \* src is newer than sw_ddr.mem
          mem, txt,      \* sw_ddr.mem and sw_ddr.txt
          flow,          \* the command in progress, [pc, todo, hand, wrote, before, ok]
          packed,        \* history: what both files were packed from and for, [src, env]
          calls

imageVars == << site, env, src, newer, mem, txt, flow, packed, calls >>

------------------------------------------------------------------------------
(* Units, words, blobs.                                                    *)

Zero == << "zero" >>
Blob(kind, content, size) == [i \in 1..size |-> << kind, content, i >>]
At(word) == << "@", word >>

to_words(units) ==
  LET padded == IF Len(units) % 2 = 1 THEN Append(units, Zero) ELSE units
  IN [i \in 1..(Len(padded) \div 2) |-> << "w", padded[2 * i - 1], padded[2 * i] >>]

words_to_bytes(words) == [i \in 1..(2 * Len(words)) |-> words[(i + 1) \div 2][2 + ((i + 1) % 2)]]

Zeros(n) == [i \in 1..n |-> << "w", Zero, Zero >>]

(* An operation on what an earlier one gives, unless that failed.          *)
OrAbsent(x, F(_)) == IF x = Absent THEN Absent ELSE F(x)

Upto(s, n) == SubSeq(s, 1, IF n < Len(s) THEN n ELSE Len(s))

(* A blob that starts here, and one that is whole; what follows is not     *)
(* looked at.                                                              *)
Starts(kind, units) == units # << >> /\ units[1][1] = kind /\ units[1][3] = 1
Whole(blob, units)  == Upto(units, Len(blob)) = blob

(* The word address of a line that holds a word, and the line of a word:   *)
(* of several, the last.                                                   *)
AddrOf(file, i) ==
  LET directives == {j \in 1..i : file[j][1] = "@"}
  IN IF directives = {} THEN i - 1 ELSE file[Max(directives)][2] + i - Max(directives) - 1

word_line_by_addr(file, word) == {i \in DOMAIN file : file[i][1] = "w" /\ AddrOf(file, i) = word}

UnitAt(file, a) ==
  LET lines == word_line_by_addr(file, a \div 2)
  IN IF lines = {} THEN Absent ELSE file[Max(lines)][2 + (a % 2)]

------------------------------------------------------------------------------
(* The device tree and the archive.                                        *)

(* dtc and fdtput: the size of a tree.                                     *)
DtbSize(d) == 3 + SizeOf[d.bootargs] + (IF d.irq THEN 1 ELSE 0)
DtbBlob(d) == Blob("dtb", d, DtbSize(d))

(* gzip: the size of an archive; decompression wants the whole stream and  *)
(* skips zeros after it.                                                   *)
GzSize(archive) == 1 + FoldLeft(LAMBDA n, e : n + SizeOf[e.data], 0, archive)
GzBlob(archive) == Blob("gz", archive, GzSize(archive))
decompress(units) ==
  IF /\ Starts("gz", units) /\ Whole(GzBlob(units[1][2]), units)
     /\ \A i \in (GzSize(units[1][2]) + 1)..Len(units) : units[i] = Zero
  THEN units[1][2] ELSE Absent

gen_dtb(initrd, clk) == [bootargs |-> "default", initrd |-> Len(initrd), irq |-> FALSE, clk |-> clk]

(* The tree, if the slot holds one: fdt_total_size and fdtget.  `initrd'   *)
(* is linux,initrd-end less linux,initrd-start.                            *)
get_initrd_bounds(slot) ==
  IF Starts("dtb", slot) /\ Whole(DtbBlob(slot[1][2]), slot) THEN slot[1][2] ELSE Absent

rewrite_dtb(d, e, size) ==
  LET new == [d EXCEPT !.bootargs = IF e.bootargs = Absent THEN d.bootargs ELSE e.bootargs,
                       !.initrd = size, !.irq = e.irq_mode = "cpu-local-meip"]
  IN IF e.irq_mode \notin {"poll", "cpu-local-meip"} \/ DtbSize(new) > 2 * (INITRD_WORD - DTB_WORD)
     THEN Absent ELSE new

CPIO_TRAILER == [name |-> "TRAILER!!!", meta |-> "none", data |-> "empty"]
INITRD_DEVICES == << "dev/console", "dev/null" >>

Names(entries) == {entries[i].name : i \in DOMAIN entries}

(* The entries before the trailer; an archive without one is refused.      *)
find_newc_trailer(archive) ==
  LET trailers == {i \in DOMAIN archive : archive[i].name = CPIO_TRAILER.name}
  IN IF trailers = {} THEN Absent ELSE SubSeq(archive, 1, Min(trailers) - 1)

(* What the environment asks of the initramfs: names to contents.          *)
get_initramfs_replacements(e) ==
  [n \in {"etc/init.d/S01seedrng"} \cup (IF e.busybox THEN {"bin/busybox"} ELSE {})
                     \cup (IF e.inittab # {} THEN {"etc/inittab"} ELSE {}) |->
     IF n = "etc/init.d/S01seedrng" THEN "stub" ELSE IF n = "bin/busybox" THEN "new_busybox"
     ELSE CHOOSE t \in e.inittab : TRUE]
get_initramfs_additions(e) == IF e.diag_init THEN << "frost_diag_init" >> ELSE << >>
get_initramfs_deletions(e) == e.deletions

(* An inittab and a preset together, or a preset nobody knows.             *)
EnvironmentError(e) == Cardinality(e.inittab) > 1 \/ "unknown" \in e.inittab

missing_devices(names) == SelectSeq(INITRD_DEVICES, LAMBDA n : n \notin names)
AddedAgain(additions, names) == additions  \* mutant: files already there are added again
added_files(additions, names) == SelectSeq(additions, LAMBDA n : n \notin names)

(* Deleted entries go, replaced ones keep their metadata, missing device   *)
(* nodes and files come last.                                              *)
patch_initramfs(archive, e) ==
  LET replacements == get_initramfs_replacements(e)
      additions == get_initramfs_additions(e)
      deletions == get_initramfs_deletions(e)
      old == find_newc_trailer(archive)
      Rebuilt(n) == IF n.name \in DOMAIN replacements THEN [n EXCEPT !.data = replacements[n.name]]
                    ELSE IF n.name \in ToSet(additions) THEN [n EXCEPT !.data = "diag"] ELSE n
      kept == SelectSeq(old, LAMBDA n : n.name \notin deletions)
      missing == missing_devices(Names(old))
      added == added_files(additions, Names(old))
  IN IF \/ (DOMAIN replacements \cup ToSet(additions)) \cap deletions # {}
        \/ old = Absent \/ ~(DOMAIN replacements \cup deletions \subseteq Names(old))
     THEN Absent
     ELSE [i \in DOMAIN kept |-> Rebuilt(kept[i])]
          \o [i \in DOMAIN missing |-> [name |-> missing[i], meta |-> "device", data |-> "empty"]]
          \o [i \in DOMAIN added |-> [name |-> added[i], meta |-> "regular", data |-> "diag"]]
          \o << CPIO_TRAILER >>

------------------------------------------------------------------------------
(* The two file formats.                                                   *)

(* main() of the packer: what it writes, if kernel and tree fit.           *)
PackedKernel == to_words(src.kernel)
PackedDtb == to_words(DtbBlob(gen_dtb(GzBlob(src.rootfs), env.clk)))
PackFits == Len(PackedKernel) <= DTB_WORD /\ DTB_WORD + Len(PackedDtb) <= INITRD_WORD

PackSparse == << At(0) >> \o PackedKernel \o << At(DTB_WORD) >> \o PackedDtb
              \o << At(INITRD_WORD) >> \o to_words(GzBlob(src.rootfs))
PackDense == PackedKernel \o Zeros(DTB_WORD - Len(PackedKernel)) \o PackedDtb
             \o Zeros(INITRD_WORD - DTB_WORD - Len(PackedDtb)) \o to_words(GzBlob(src.rootfs))

(* Code patches, << address, unit >> in order; a word the file does not    *)
(* have fails.  Nothing to patch leaves the file unread.                   *)
patch_code_bytes(file, patches) ==
  IF patches = << >> THEN file
  ELSE FoldLeft(LAMBDA f, p :
                  IF f = Absent THEN Absent
                  ELSE LET lines == word_line_by_addr(f, p[1] \div 2)
                       IN IF lines = {} THEN Absent
                          ELSE [f EXCEPT ![Max(lines)][2 + (p[1] % 2)] = p[2]],
                file, patches)

read_code_bytes(file, a, n) == [k \in 1..n |-> UnitAt(file, a + k - 1)]

Instr(text) == Blob("code", text, 2)
PatchesAt(addrs, text) ==
  FlattenSeq([i \in DOMAIN addrs |-> << << addrs[i], Instr(text)[1] >>, << addrs[i] + 1, Instr(text)[2] >> >>])

resolve_system_map_symbols(names) ==
  IF ToSet(names) \subseteq DOMAIN site.system_map
  THEN [i \in DOMAIN names |-> site.system_map[names[i]]] ELSE Absent

patch_noop_return_zero(file, names) ==
  LET symbols == resolve_system_map_symbols(names)
  IN IF symbols = Absent THEN Absent ELSE patch_code_bytes(file, PatchesAt(symbols, "li0_ret"))

(* The hooks that look before they patch, in main()'s order.               *)
Hooks == << [name |-> "CPU_RELAX_DIV", old |-> "div", new |-> "nop"],
            [name |-> "CPU_RELAX_PAUSE", old |-> "pause", new |-> "nop"],
            [name |-> "PROC_GET_INODE_MODE_RELOAD", old |-> "reload", new |-> "load"],
            [name |-> "PROC_GET_INODE_MODE_REG", old |-> "load", new |-> "force_reg"],
            [name |-> "PROC_LOOKUP_REF_CONST", old |-> "amo", new |-> "const"],
            [name |-> "PROC_LOOKUP_DE_ADJUST", old |-> "adjust", new |-> "adjusted"] >>
CPU_RELAX_DIV_SYMBOL == << "__delay" >>

HookSites(h) ==
  IF h.name \notin {"CPU_RELAX_DIV", "CPU_RELAX_PAUSE"} THEN HookAddrs[h.name]
  ELSE LET delay == resolve_system_map_symbols(CPU_RELAX_DIV_SYMBOL)
       IN IF delay = Absent THEN Absent ELSE [i \in DOMAIN HookAddrs[h.name] |-> delay[1] + HookAddrs[h.name][i]]

(* Old and new text are both accepted at every site, or nothing is done.   *)
patch_checked(file, h) ==
  LET sites == HookSites(h)
  IN IF \/ file = Absent \/ sites = Absent
        \/ \E i \in DOMAIN sites : read_code_bytes(file, sites[i], 2) \notin {Instr(h.old), Instr(h.new)}
     THEN Absent ELSE patch_code_bytes(file, PatchesAt(sites, h.new))

(* Tree slot and initrd of a file, in units.                               *)
DenseSlots(file) ==
  IF Len(file) < INITRD_WORD THEN Absent
  ELSE [dtb    |-> words_to_bytes(SubSeq(file, DTB_WORD + 1, INITRD_WORD)),
        initrd |-> words_to_bytes(SubSeq(file, INITRD_WORD + 1, Len(file)))]

is_gzip_first_word(word) == word[2][1] = "gz" /\ word[2][3] = 1

Directive(file, word) == {i \in DOMAIN file : file[i] = At(word)}

(* Without an initrd directive the initrd is sought at its place in the    *)
(* payload, then at the first word that looks like gzip.                   *)
SparseSlots(file) ==
  LET dtb == Directive(file, DTB_WORD)
      initrd == Directive(file, INITRD_WORD)
      payload == SubSeq(file, Min(dtb) + 1, Len(file))
      heads == {i \in DOMAIN payload : is_gzip_first_word(payload[i])}
      slot == INITRD_WORD - DTB_WORD
      split == IF slot + 1 \in heads THEN slot ELSE Min(heads) - 1
      Parts(n, m) == [dtb    |-> words_to_bytes(SubSeq(payload, 1, n)),
                      initrd |-> words_to_bytes(SubSeq(payload, m, Len(payload)))]
  IN IF dtb = {} THEN Absent
     ELSE IF initrd = {} THEN IF heads = {} THEN Absent ELSE Parts(split, split + 1)
     ELSE IF Min(initrd) <= Min(dtb) THEN Absent
     ELSE Parts(Min(initrd) - Min(dtb) - 1, Min(initrd) - Min(dtb) + 1)

(* The new contents of the slots, in words.                                *)
Repatched(slots, e) ==
  OrAbsent(slots, LAMBDA old :
    OrAbsent(get_initrd_bounds(old.dtb), LAMBDA d :
      OrAbsent(decompress(Upto(old.initrd, d.initrd)), LAMBDA archive :
        OrAbsent(patch_initramfs(archive, e), LAMBDA new :
          OrAbsent(rewrite_dtb(d, e, GzSize(new)), LAMBDA dtb :
            [dtb |-> to_words(DtbBlob(dtb)), initrd |-> to_words(GzBlob(new))])))))

UnclearedDenseImage(file, e) ==  \* mutant: the rest of the tree's slot is not cleared
  OrAbsent(Repatched(DenseSlots(file), e), LAMBDA new :
    SubSeq(file, 1, DTB_WORD) \o new.dtb \o SubSeq(file, DTB_WORD + Len(new.dtb) + 1, INITRD_WORD)
    \o new.initrd)

patch_dense_image(file, e) ==
  OrAbsent(Repatched(DenseSlots(file), e), LAMBDA new :
    SubSeq(file, 1, DTB_WORD) \o new.dtb \o Zeros(INITRD_WORD - DTB_WORD - Len(new.dtb))
    \o new.initrd)

patch_sparse_image(file, e) ==
  OrAbsent(Repatched(SparseSlots(file), e), LAMBDA new :
    SubSeq(file, 1, Min(Directive(file, DTB_WORD))) \o new.dtb \o << At(INITRD_WORD) >> \o new.initrd)

patch_linux_image(file, e) ==
  IF file = Absent \/ file = << >> THEN Absent
  ELSE IF file[1][1] = "@" THEN patch_sparse_image(file, e) ELSE patch_dense_image(file, e)

------------------------------------------------------------------------------
(* The recipe: pack, then the script's passes, each over both files.       *)

Passes(e) == (IF e.initcalls = << >> THEN << >> ELSE << "initcalls" >>)
             \o (IF e.functions = << >> THEN << >> ELSE << "functions" >>)
             \o SelectSeq([i \in DOMAIN Hooks |-> Hooks[i].name], LAMBDA n : n \in e.hooks)
             \o << "image" >>
OverBoth(passes) == FlattenSeq([i \in DOMAIN passes |-> << << passes[i], "mem" >>, << passes[i], "txt" >> >>])

Hook(name) == CHOOSE h \in ToSet(Hooks) : h.name = name

(* What a pass makes of a file.                                            *)
Result(pass, name) ==
  LET file == IF name = "mem" THEN mem ELSE txt
  IN CASE pass = "pack" -> IF ~PackFits THEN Absent ELSE IF name = "mem" THEN PackSparse ELSE PackDense
       [] pass = "initcalls" -> patch_noop_return_zero(file, env.initcalls)
       [] pass = "functions" -> patch_noop_return_zero(file, env.functions)
       [] pass = "image" -> IF EnvironmentError(env) THEN Absent ELSE patch_linux_image(file, env)
       [] OTHER -> patch_checked(file, Hook(pass))

Idle == flow.pc # "run" /\ calls < MaxCalls /\ calls' = calls + 1

NoCommand == [pc |-> "idle", todo |-> << >>, hand |-> FALSE, wrote |-> FALSE, before |-> Absent,
              ok |-> FALSE]
NewRun(todo, hand, before) ==
  flow' = [NoCommand EXCEPT !.pc = "run", !.todo = todo, !.hand = hand, !.before = before]

(* make: the recipe runs if sw_ddr.mem is missing or older than a          *)
(* prerequisite; a failed recipe leaves its target behind.                 *)
Make ==
  /\ Idle
  /\ IF mem = Absent \/ newer THEN NewRun(OverBoth(<< "pack" >> \o Passes(env)), FALSE, Absent)
     ELSE flow' = [flow EXCEPT !.pc = "done", !.hand = FALSE]
  /\ UNCHANGED << site, env, src, newer, mem, txt, packed >>

MakeClean ==
  /\ Idle
  /\ mem' = Absent /\ txt' = Absent /\ packed' = Absent
  /\ flow' = [flow EXCEPT !.pc = "idle", !.ok = FALSE]
  /\ UNCHANGED << site, env, src, newer >>

(* patch_linux_image.py run by hand on what is there.  `before' is         *)
(* history: the finished images it found.                                  *)
RunScript ==
  /\ Idle
  /\ LET same == packed # Absent /\ packed.env = env
     IN /\ NewRun(OverBoth(Passes(env)), TRUE, IF same /\ flow.ok THEN << mem, txt >> ELSE Absent)
        /\ packed' = IF same THEN packed ELSE Absent
  /\ UNCHANGED << site, env, src, newer, mem, txt >>

SetEnvironment ==
  /\ Idle
  /\ \E e \in site.envs \ {env} : env' = e
  /\ UNCHANGED << site, src, newer, mem, txt, flow, packed >>

(* Buildroot makes another kernel or rootfs.                               *)
Rebuild ==
  /\ Idle
  /\ \E s \in site.srcs \ {src} : src' = s
  /\ newer' = (mem # Absent)
  /\ UNCHANGED << site, env, mem, txt, flow, packed >>

(* The file of the pass at hand becomes `new'; its time is now.            *)
Write(new) ==
  LET name == Head(flow.todo)[2]
  IN /\ mem' = IF name = "mem" THEN new ELSE mem
     /\ txt' = IF name = "txt" THEN new ELSE txt
     /\ newer' = (newer /\ name # "mem")

Pass ==
  /\ flow.pc = "run"
  /\ \E new \in {Result(Head(flow.todo)[1], Head(flow.todo)[2])} \ {Absent} : Write(new)
  /\ packed' = IF Head(flow.todo) = << "pack", "mem" >> THEN Absent
               ELSE IF Head(flow.todo) = << "pack", "txt" >> THEN [src |-> src, env |-> env] ELSE packed
  /\ flow' = [flow EXCEPT !.todo = Tail(flow.todo), !.wrote = TRUE,
                          !.pc = IF Len(flow.todo) = 1 THEN "done" ELSE "run",
                          !.ok = Len(flow.todo) = 1]
  /\ UNCHANGED << site, env, src, calls >>

Fail ==
  /\ flow.pc = "run"
  /\ Result(Head(flow.todo)[1], Head(flow.todo)[2]) = Absent
  /\ flow' = [flow EXCEPT !.pc = "failed", !.todo = << >>, !.ok = flow.before # Absent]
  /\ UNCHANGED << site, env, src, newer, mem, txt, packed, calls >>

(* What a write cut short leaves: write_text truncates, then writes.       *)
CutShort(new) == IF new = Absent THEN {} ELSE {SubSeq(new, 1, n) : n \in {0, Len(new) \div 2, Len(new) - 1}}
Torn == CutShort(Result(Head(flow.todo)[1], Head(flow.todo)[2]))

(* The command dies between two writes or in the middle of one.            *)
Killed ==
  /\ flow.pc = "run"
  /\ \/ UNCHANGED << mem, txt, newer, packed >>
     \/ /\ \E torn \in Torn : Write(torn)
        /\ packed' = IF Head(flow.todo)[1] = "pack" THEN Absent ELSE packed
  /\ flow' = [flow EXCEPT !.pc = "idle", !.todo = << >>]
  /\ UNCHANGED << site, env, src, calls >>

(* Ctrl-C in make: it removes its target if the recipe has touched it.     *)
Interrupted ==
  /\ flow.pc = "run" /\ ~flow.hand
  /\ \E touched \in {flow.wrote, TRUE} :
       mem' = (IF touched THEN Absent ELSE mem) /\ newer' = (newer /\ ~touched)
  /\ txt' \in {txt} \cup (IF Head(flow.todo)[2] = "txt" THEN Torn ELSE {})
  /\ flow' = [flow EXCEPT !.pc = "idle", !.todo = << >>]
  /\ UNCHANGED << site, env, src, packed, calls >>

ImageInit ==
  /\ site \in Sites /\ env \in site.envs /\ src \in site.srcs
  /\ newer = FALSE /\ mem = Absent /\ txt = Absent /\ packed = Absent /\ calls = 0
  /\ flow = NoCommand

ImageNext == \/ Make \/ MakeClean \/ RunScript \/ SetEnvironment \/ Rebuild
             \/ Pass \/ Fail \/ Killed \/ Interrupted

------------------------------------------------------------------------------
(* Both files were packed for this environment and the last command to     *)
(* touch them ran to its end.                                              *)
Finished == flow.pc = "done" /\ flow.ok /\ packed # Absent /\ packed.env = env

(* DDR contents: what a file does not mention is zero.                     *)
Ddr(file, a) == LET u == UnitAt(file, a) IN IF u = Absent THEN Zero ELSE u
DdrFrom(file, word, n) == [i \in 1..n |-> Ddr(file, 2 * word + i - 1)]

(* The simulation and the board boot the same memory: whenever make or the *)
(* script reports success on images packed for this environment and not    *)
(* left half done, also when an earlier run was killed in between or in    *)
(* the middle of a write, both files give every word the same value.       *)
ImagesAgree ==
  Finished => \A a \in 0..(2 * (INITRD_WORD + Len(txt)) - 1) : Ddr(mem, a) = Ddr(txt, a)

(* Then the tree says what was asked and bounds the archive exactly, the   *)
(* archive holds the entries of the rootfs in order, less the deleted and  *)
(* with the replaced contents, and each missing node and file once, and    *)
(* the kernel differs from the one Buildroot made only at patched sites.   *)
Tree == get_initrd_bounds(DdrFrom(mem, DTB_WORD, 2 * (INITRD_WORD - DTB_WORD)))
Archive == decompress(DdrFrom(mem, INITRD_WORD, Tree.initrd))

SiteUnits(text, addrs) == {<< addrs[i] + k, Instr(text)[k + 1] >> : i \in DOMAIN addrs, k \in {0, 1}}
PatchedUnits ==
  SiteUnits("li0_ret", resolve_system_map_symbols(env.initcalls \o env.functions))
  \cup UNION {SiteUnits(h.new, HookSites(h)) : h \in {g \in ToSet(Hooks) : g.name \in env.hooks}}

HoldsWhatWasAsked ==
  Finished =>
    LET old == find_newc_trailer(packed.src.rootfs)
        new == find_newc_trailer(Archive)
        Kept(entries, names) == SelectSeq(entries, LAMBDA n : n.name \in names)
        names == Names(old) \ env.deletions
        extra == (ToSet(INITRD_DEVICES) \cup ToSet(get_initramfs_additions(env))) \ Names(old)
        replaced == get_initramfs_replacements(env)
    IN /\ Tree.bootargs = (IF env.bootargs = Absent THEN "default" ELSE env.bootargs)
       /\ Tree.irq = (env.irq_mode # "poll") /\ Tree.clk = env.clk
       /\ Tree.initrd = GzSize(Archive)
       /\ Names(new) = names \cup extra
       /\ Len(Kept(new, names)) = Len(Kept(old, names))
       /\ \A i \in DOMAIN Kept(new, names) :
            LET was == Kept(old, names)[i]
                now == Kept(new, names)[i]
            IN /\ now.name = was.name /\ now.meta = was.meta
               /\ now.data = IF now.name \in DOMAIN replaced THEN replaced[now.name]
                             ELSE IF now.name \in ToSet(get_initramfs_additions(env)) THEN "diag"
                             ELSE was.data
       /\ \A n \in extra : Cardinality({i \in DOMAIN new : new[i].name = n}) = 1
       /\ \A a \in 0..(Len(packed.src.kernel) - 1) :
            LET patches == {p[2] : p \in {q \in PatchedUnits : q[1] = a}}
            IN Ddr(mem, a) \in IF patches = {} THEN {packed.src.kernel[a + 1]} ELSE patches

(* The image that make or the script reports as finished is the one that   *)
(* was asked for, whatever was killed, torn or made before: see            *)
(* ImagesAgree and HoldsWhatWasAsked (patch_linux_image.py and             *)
(* build_fpga_boot.py under the Makefile).                                 *)
BootsAsAsked == ImagesAgree /\ HoldsWhatWasAsked

(* Running the script again on finished images leaves both as they were,   *)
(* whether it succeeds or (a deleted name is gone) fails.                  *)
RerunChangesNothing ==
  flow.hand /\ flow.pc \in {"done", "failed"} /\ flow.before # Absent => flow.before = << mem, txt >>

=============================================================================
