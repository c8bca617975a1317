------------------------------ MODULE ImemFetch ------------------------------
(***************************************************************************)
(* A program's way from the encoders to the decoder: laid out in sw.mem,   *)
(* split into the predecoded banks by the init-file generator or by the    *)
(* programming port, fetched 64 bits at a time and cut into bundles of one *)
(* or two instructions (imem_predecode.sv, instruction_aligner.sv, the     *)
(* spanning assembly of if_stage.sv and the instruction selection of       *)
(* pd_stage.sv).                                                           *)
(*                                                                         *)
(* Left out: the stall replay and the prediction holdoffs of the front     *)
(* end, whose cycles carry a NOP, and taken control flow, for which the    *)
(* walk may start at any instruction.                                      *)
(***************************************************************************)
EXTENDS Predecode

VARIABLES program,       \* the instructions that run, laid out from word 0
          unwritten,     \* the programming writes still to come, <<address, word>>
          banks,         \* the five arrays of the even (0) and the odd (1) bank
          port_a_q,      \* the staged port-A write, or None
          port_b,        \* the registered port-B read, or None before the first
          pc,            \* pc_reg, in parcels
          instr_buffer   \* the word slot 1 is served from, or None

imem_vars == <<program, unwritten, banks, port_a_q, port_b, pc, instr_buffer>>

-----------------------------------------------------------------------------
(* The layout of a program, as the linker and objcopy leave it in sw.mem *)

Halves(w) == <<Lo(w), Hi(w)>>
ParcelsOf(i) == IF i.op \in C_OPS THEN <<encode_c(i)>> ELSE Halves(encode(i))
Parcels(prog) == FlattenSeq([k \in DOMAIN prog |-> ParcelsOf(prog[k])])
Paired(ps) == [k \in 1 .. Len(ps) \div 2 |-> ps[2 * k - 1] \cup { 16 + b : b \in ps[2 * k] }]
Words(prog) == Paired(Parcels(prog) \o <<{}>>)
Tokens(words) == <<<<"@", 0>>>> \o [k \in DOMAIN words |-> <<"word", words[k]>>]
sw_mem(prog) == Tokens(Words(prog))
Writes(words) == [k \in DOMAIN words |-> <<k - 1, words[k]>>]
Start(prog, k) == Len(Parcels(SubSeq(prog, 1, k - 1)))
End(prog) == Len(Parcels(prog))

-----------------------------------------------------------------------------
(* imem_predecode.sv *)

\* The arrays after a clock edge of port A: the staged write commits to the
\* bank of its address.
Committed ==
    IF port_a_q = None THEN banks
    ELSE [banks EXCEPT ![port_a_q[1] % 2][port_a_q[1] \div 2] = Entry(port_a_q[2])]

\* The port-B registers after a fetch at a word address.
Read(word_address) ==
    LET half == word_address \div 2
        even_read_addr == IF word_address % 2 = 1 THEN (half + 1) % (Depth \div 2) ELSE half
    IN  [even |-> banks[0][even_read_addr], odd |-> banks[1][half], bank_sel_r |-> word_address % 2]

\* A word with the bits in DOMAIN bits set to the given Booleans.
WithBits(w, bits) == (w \ DOMAIN bits) \cup { b \in DOMAIN bits : bits[b] }

\* A fetched word and its sideband, with the bits the replicas supply.
WithFast(e) ==
    LET fast == e.compressed
    IN  [word |-> WithBits(join_data_banks(e.cold, e.frontend_hot),
                           31 :> (3 \in fast) @@ 29 :> (5 \in fast) @@ 28 :> (4 \in fast)),
         sideband |-> WithBits(e.sideband,
                               0 :> (0 \in fast) @@ 1 :> (1 \in fast) @@ 9 :> (6 \in fast)
                               @@ 6 :> (1 \in fast /\ 6 \in fast) @@ 7 :> (1 \notin fast /\ 6 \in fast)
                               @@ 10 :> e.slot2_start_valid_lo),
         hi_rd_is_x2 |-> 2 \in fast]

\* o_port_b: the current and the next word.
o_port_b ==
    LET sel == port_b.bank_sel_r
    IN  [current |-> WithFast(IF sel = 0 THEN port_b.even ELSE port_b.odd),
         next |-> WithFast(IF sel = 0 THEN port_b.odd ELSE port_b.even)]

-----------------------------------------------------------------------------
(* instruction_aligner.sv, if_stage.sv 937-970, pd_stage.sv 60-215 *)

use_instr_buffer == instr_buffer # None
fetch_word_swapped == port_b.bank_sel_r # (pc \div 2) % 2
bram_current == o_port_b[IF fetch_word_swapped THEN "next" ELSE "current"]
bram_next == o_port_b[IF fetch_word_swapped THEN "current" ELSE "next"]
current_word == IF use_instr_buffer THEN instr_buffer ELSE bram_current
hi == pc % 2 = 1

ParcelAt(x, half) == IF half = 0 THEN Lo(x.word) ELSE Hi(x.word)
SourceHotAt(x, half) == { b \in 0 .. 2 : 12 + 3 * half + b \in x.sideband }

\* An instruction with its selected source bits taken from the metadata.
Overridden(instr, hot, bits) == WithBits(instr, [b \in DOMAIN bits |-> bits[b] \in hot])

Expanded(x, hot, bits) == [compressed |-> TRUE, illegal |-> x.illegal, instr |-> Overridden(x.instr, hot, bits)]
Native(word) == [compressed |-> FALSE, illegal |-> FALSE, instr |-> word]

\* The native instruction in the high half of a word and the low half of its successor.
Spanning(word, next) == Hi(word) \cup { 16 + b : b \in Lo(next) }

\* o_is_compressed, by which the PC and the buffer move.
is_compressed_slot1 == pc % 2 \in current_word.sideband

\* Slot 1, expanded by PD from the parcel or assembled by IF.  PD tells them
\* apart by the parcel, not by the sideband.
Slot1(at, half) ==
    IF is_compressed(ParcelAt(at, half))
    THEN Expanded(rvc_decompressor(ParcelAt(at, half), Field(ParcelAt(at, half), 11, 7) = 2),
                  SourceHotAt(at, half), 17 :> 1 @@ 16 :> 0)
    ELSE Native(IF half = 1 THEN Spanning(at.word, bram_next.word) ELSE at.word)
slot1 == Slot1(current_word, pc % 2)

\* The pair-shape table.  "invalid" is a buffered slot 1 at the low half.
Slot2PosIgnoringSize ==  \* mutant: slot 2 starts in the next word whatever slot 1's size
    CASE ~use_instr_buffer /\ ~hi /\ is_compressed_slot1 -> "current_hi"
      [] use_instr_buffer /\ ~hi -> "invalid"
      [] OTHER -> "next_lo"
slot2_pos ==
    CASE ~use_instr_buffer /\ ~hi /\ is_compressed_slot1 -> "current_hi"
      [] ~use_instr_buffer /\ ~hi /\ ~is_compressed_slot1 -> "next_lo"
      [] hi /\ is_compressed_slot1 -> "next_lo"
      [] hi /\ ~is_compressed_slot1 -> "next_hi"
      [] OTHER -> "invalid"

\* Slot 2's candidate, expanded before the position select.
Slot2(pos, at, half) ==
    IF half \in at.sideband
    THEN Expanded(rvc_decompressor(ParcelAt(at, half),
                                   IF half = 1 THEN at.hi_rd_is_x2 ELSE Field(ParcelAt(at, half), 11, 7) = 2),
                  SourceHotAt(at, half), 17 :> 1 @@ 21 :> 2)
    ELSE Native(CASE pos = "current_hi" -> Spanning(at.word, bram_next.word)
                  [] pos = "next_lo" -> at.word
                  [] OTHER -> {0, 1, 4})   \* riscv_pkg::NOP
slot2 == Slot2(slot2_pos, IF slot2_pos = "current_hi" THEN bram_current ELSE bram_next,
               IF slot2_pos \in {"current_hi", "next_hi"} THEN 1 ELSE 0)

\* o_slot2_valid_for_pc, from the sideband alone.
slot2_bram_unsafe == ~use_instr_buffer /\ fetch_word_swapped
Slot2Valid(cur, next, served) ==
    LET current_hi == ~use_instr_buffer /\ ~hi /\ 2 \in cur
        next_lo == (~use_instr_buffer /\ ~hi /\ 3 \in cur) \/ (hi /\ 6 \in served)
        next_hi == hi /\ 7 \in served
    IN  \/ current_hi /\ ~(slot2_bram_unsafe /\ 1 \notin cur)
        \/ next_lo /\ ~slot2_bram_unsafe /\ 10 \in next
        \/ next_hi /\ ~slot2_bram_unsafe /\ 1 \in next
slot2_valid == Slot2Valid(bram_current.sideband, bram_next.sideband, current_word.sideband)

Size(compressed) == IF compressed THEN 1 ELSE 2

-----------------------------------------------------------------------------
(* The bank init files hold one program; the programming port may load     *)
(* another over it before the core leaves reset.                           *)
ImemInit(boot, load) ==
    /\ program = IF load = <<>> THEN boot ELSE load
    /\ unwritten = Writes(Words(load))
    /\ banks = main(sw_mem(boot))
    /\ port_a_q = None
    /\ port_b = None
    /\ pc \in {0} \cup { Start(program, k) : k \in DOMAIN program }
    /\ instr_buffer = None

\* image_load_reset holds the core while writes are under way.
InReset == unwritten # <<>> \/ port_a_q # None

\* An edge of the programming clock, with the next write or without one.
PortAClock ==
    /\ InReset
    /\ banks' = Committed
    /\ \/ /\ unwritten # <<>>
          /\ port_a_q' = Head(unwritten)
          /\ unwritten' = Tail(unwritten)
       \/ /\ port_a_q # None
          /\ port_a_q' = None
          /\ UNCHANGED unwritten
    /\ UNCHANGED <<program, port_b, pc, instr_buffer>>

\* A fetch aligned with pc_reg, or one word ahead of it when the buffer
\* still holds the word of a compressed instruction at the low half.
Fetch ==
    /\ ~InReset /\ port_b = None /\ pc < End(program)
    /\ \/ instr_buffer' = None /\ port_b' = Read(pc \div 2)
       \/ /\ use_instr_buffer
          /\ instr_buffer' = instr_buffer
          /\ port_b' = Read((pc \div 2) + 1)
    /\ UNCHANGED <<program, unwritten, banks, port_a_q, pc>>

\* The bundle leaves for PD and the PC moves past it.
Bundle ==
    /\ port_b # None
    /\ pc' = pc + Size(is_compressed_slot1) + (IF slot2_valid THEN Size(slot2.compressed) ELSE 0)
    /\ instr_buffer' = IF ~hi /\ is_compressed_slot1 /\ ~slot2_valid THEN current_word ELSE None
    /\ port_b' = None
    /\ UNCHANGED <<program, unwritten, banks, port_a_q>>

ImemNext == PortAClock \/ Fetch \/ Bundle

-----------------------------------------------------------------------------
(* Properties *)

\* The index of the instruction at pc.
Current == CHOOSE k \in DOMAIN program : Start(program, k) = pc
Word(i) == encode(IF i.op \in C_OPS THEN full_form(i) ELSE i)
Is(slot, i) == slot.instr = Word(i) /\ ~slot.illegal
Operation(k) == IF program[k].op \in C_OPS THEN full_form(program[k]).op ELSE program[k].op
Fetched == port_b # None
Carries(x, w) == x.word = w /\ x.sideband = make_sideband(w) /\ x.hi_rd_is_x2 = (Field(w, 27, 23) = 2)

\* The two words port B returns are the image's, with the sideband the
\* generator gives them, whichever path wrote the banks: the split into
\* cold and hot arrays, the interleaving and the timing replicas
\* (imem_predecode.sv 490-540) are invisible to the core.
FetchReturnsTheImage ==
    LET first == (pc \div 2) + (IF use_instr_buffer THEN 1 ELSE 0)
    IN  Fetched =>
            \A words \in {Words(program)} : \A k \in { k \in 0 .. 1 : first + k < Len(words) } :
                Carries(o_port_b[IF k = 0 THEN "current" ELSE "next"], words[first + k + 1])

\* Every bundle starts at an instruction and carries it and, in slot 2, its
\* successor: sizes, positions, spanning halves, expansion and the
\* predecoded source bits all agree with what the encoders meant.
BundleIsTheProgram ==
    Fetched =>
        /\ \E k \in DOMAIN program : Start(program, k) = pc
        /\ Is(slot1, program[Current])
        /\ slot2_valid /\ Current < Len(program) => Is(slot2, program[Current + 1])

ControlFlow == Names(BRANCHES) \cup {"jal", "jalr"}
Serializing == Names(CSRS) \cup Names(TRAP_INSTRS) \cup Names(FENCES) \cup Names(AMO_LR_SC) \cup Names(AMO)
FpCompute == UNION { Names(t) : t \in {FP_ARITH_2OP, FP_FMA, FP_SGNJ, FP_MINMAX, FP_CMP, FP_CVT, FP_MV_CLASS} }

\* Two neighbours form a bundle exactly when the aligner's rules allow it:
\* slot 1 neither control flow nor serialising, slot 2 neither serialising
\* nor FP compute, and slot 2 within the 64-bit window (the comment in
\* instruction_aligner.sv 520-546).
PairingIsExact ==
    Fetched /\ Current < Len(program) =>
        (slot2_valid <=> (/\ Operation(Current) \notin ControlFlow \cup Serializing
                          /\ Operation(Current + 1) \notin Serializing \cup FpCompute
                          /\ ~(hi /\ program[Current].op \notin C_OPS /\ program[Current + 1].op \notin C_OPS)))

=============================================================================
