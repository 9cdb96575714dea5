---------------------------- MODULE JitBackend ----------------------------
(***************************************************************************)
(* The in-memory JIT backend of src/src/backend/x86_64/jit.c: the emission *)
(* log (jit.jcode), the label table (jit.labels), the running logical      *)
(* address (jit_addr), the two-phase fix-up of jit_fix_code (relocation,   *)
(* then materialization into an allocated region), running and            *)
(* finalization.                                                           *)
(*                                                                         *)
(* Bytes are abstracted: a record keeps the byte count each function       *)
(* derives for it, the 32-bit patch written into it and the 64-bit value   *)
(* of an address slot.  Logical addresses stay far below 2^31, so the      *)
(* (uint32_t) casts of jit_update_jump never wrap in the model.            *)
(***************************************************************************)
EXTENDS Integers, Sequences, SequencesExt, FiniteSets

CONSTANTS
  Symbols,       \* the symbols the front end declares, each exactly once
  Instrs,        \* the instructions it may emit (after encode())
  Datas,         \* the data immediates it may emit
  LibEntries,    \* names the support library returns for index 1, 2, ...
  Regions,       \* addresses jit_create may return; 0 is a failed mapping
  MaxEmits,      \* bound on emit_instruction + emit_data calls
  MaxFixes,      \* bound on jit_run/jit_print calls of the driver
  NoLabel, NoSym, NoPatch

ASSUME MaxEmits \in Nat /\ MaxFixes \in Nat \ {0}
ASSUME Regions \subseteq Nat

VARIABLES
  phase,      \* driver protocol: "uninit", "emitting", "fixed", "finalized"
  jcode,      \* jit.jcode, the append-only emission log
  labels,     \* jit.labels
  jitAddr,    \* jit_addr
  passed,     \* jit.passed: records already relocated
  symCurr,    \* jit_sym_curr
  symPrev,    \* jit_sym_prev
  buffer,     \* jit.buffer
  size,       \* jit.size
  placed,     \* offset at which materialization wrote each record
  startJmp,   \* displacement written into buffer bytes 1..4
  live,       \* regions jit_create returned and jit_destroy did not free
  executed,   \* <<region, offset>> pairs jit_execute was called on
  library,    \* jit_builtin_library loaded or not
  feSym,      \* the symbol the front end declared last
  declared,   \* the symbols the front end has declared
  emits, fixes

vars == <<phase, jcode, labels, jitAddr, passed, symCurr, symPrev, buffer,
          size, placed, startJmp, live, executed, library, feSym, declared,
          emits, fixes>>

OpTypes == {"NONE", "REG", "REG_REG", "IMM", "IMM_REG", "MEM", "MEM_REG",
            "REG_MEM", "IMM_MEM"}

\* The operand shapes whose address operand jit_text looks a label up in.
LabelOpTypes == {"IMM", "MEM", "MEM_REG", "REG_MEM", "IMM_MEM"}

(***************************************************************************)
(* A log record: struct jit_code.  kind stands for the one flag set among *)
(* is_string_value, is_ascii_value, is_table_entry, int_value_size > 0,    *)
(* is_float_value, is_double_value, is_address_value, is_label_value, or   *)
(* "code" for an instruction.  n is label_text.len for strings,            *)
(* int_value_size for integers and code.len for instructions.             *)
(***************************************************************************)
Rec(kind, name, n, base, ref, disp, hidden, value, op) ==
  [kind |-> kind, name |-> name, addr |-> jitAddr, base |-> base, n |-> n,
   ref |-> ref, disp |-> disp, hidden |-> hidden, value |-> value,
   op |-> op, patch |-> NoPatch]

\* index = array_len(&jit.jcode) > 0 ? array_back(&jit.jcode).base : 0
LastBase == IF jcode = <<>> THEN 0 ELSE Last(jcode).base

Label(name, index) == [name |-> name, index |-> index, builtin |-> 0]

\* jit_get_label_address: the index of the first label of that name, or -1.
LabelAddress(lbls, name) ==
  LET i == SelectInSeq(lbls, LAMBDA l : l.name = name)
  IN IF i = 0 THEN -1 ELSE lbls[i].index

\* jit_get_builtin_function: the native pointer of a builtin label, or 0.
BuiltinFunction(lbls, name) ==
  LET i == SelectInSeq(lbls, LAMBDA l : l.name = name /\ l.index < 0)
  IN IF i = 0 THEN 0 ELSE lbls[i].builtin

\* The native pointer builtin_get_func(i) returns; far from any region.
NativeAddr(i) == 1000000 * i

(***************************************************************************)
(* jit_setup_builtin: each missing piece of the library stops the setup;   *)
(* with all four lookups found, entries 1..k become labels -1..-k.         *)
(***************************************************************************)
LibOutcomes == {"absent", "no_func", "no_name", "no_flbit", "no_args", "ok"}

BuiltinLabels(outcome) ==
  IF outcome = "ok"
  THEN [i \in 1..Len(LibEntries) |->
          [name |-> LibEntries[i], index |-> -i, builtin |-> NativeAddr(i)]]
  ELSE <<>>

(***************************************************************************)
(* jit_gen_builtin_startup: label records and the fixed byte blobs, one    *)
(* code record per routine (the code splits each into 8-byte records).     *)
(* The first code record is the 5-byte "jmp main" placeholder.            *)
(***************************************************************************)
StartupRoutines ==
  <<[name |-> "__startup", n |-> 5], [name |-> "__kcc_get_rip", n |-> 7],
    [name |-> "setjmp", n |-> 93], [name |-> "longjmp", n |-> 24],
    [name |-> "strlen", n |-> 14], [name |-> "memcpy", n |-> 33]>>

RECURSIVE StartupLog(_, _)
StartupLog(i, a) ==
  IF i > Len(StartupRoutines) THEN <<>>
  ELSE LET r == StartupRoutines[i]
           lab == [kind |-> "label", name |-> r.name, addr |-> 0, base |-> a,
                   n |-> 0, ref |-> NoLabel, disp |-> 0, hidden |-> FALSE,
                   value |-> 0, op |-> "NONE", patch |-> NoPatch]
           blob == [lab EXCEPT !.kind = "code", !.name = NoLabel, !.addr = a,
                               !.base = a + r.n, !.n = r.n,
                               !.op = IF i = 1 THEN "IMM" ELSE "NONE"]
       IN <<lab, blob>> \o StartupLog(i + 1, a + r.n)

StartupLabels ==
  LET starts[i \in 0..Len(StartupRoutines)] ==
        IF i = 0 THEN 0 ELSE starts[i - 1] + StartupRoutines[i].n
  IN [i \in 1..Len(StartupRoutines) |-> Label(StartupRoutines[i].name, starts[i - 1])]

StartupEnd == LET log == StartupLog(1, 0) IN log[Len(log)].base

JitInit ==
  /\ phase = "uninit"
  /\ \E outcome \in LibOutcomes :
       /\ labels' = BuiltinLabels(outcome) \o StartupLabels
       /\ library' = (outcome # "absent")
  /\ jcode' = StartupLog(1, 0)
  /\ jitAddr' = StartupEnd
  /\ phase' = "emitting"
  /\ UNCHANGED <<passed, symCurr, symPrev, buffer, size, placed, startJmp,
                 live, executed, feSym, declared, emits, fixes>>

(***************************************************************************)
(* jit_gen_label: a label entry and a byte-less label record whose base is *)
(* jit_addr (its addr field is left 0).                                    *)
(***************************************************************************)
GenLabel(index, name) ==
  /\ labels' = Append(labels, Label(name, index))
  /\ jcode' = Append(jcode, [Rec("label", name, 0, jitAddr, NoLabel, 0, FALSE,
                                 0, "NONE") EXCEPT !.addr = 0])
  /\ UNCHANGED jitAddr

\* Append a record of byte count len for symbol data and advance jit_addr.
Reserve(r, len) ==
  /\ jcode' = Append(jcode, r)
  /\ jitAddr' = jitAddr + len

\* Mutant: the label is taken after the storage has been reserved.
SymTentativeLabelAfter(s) ==
  /\ labels' = Append(labels, Label(s.name, LastBase + s.size))
  /\ Reserve(Rec("int", s.name, s.size, jitAddr + s.size, NoLabel, 0, FALSE,
                 0, "NONE"), s.size)
  /\ UNCHANGED symCurr

\* SYM_TENTATIVE: a label and size_of(type) zero bytes; jit_sym_curr is kept.
SymTentative(s) ==
  /\ labels' = Append(labels, Label(s.name, LastBase))
  /\ Reserve(Rec("int", s.name, s.size, jitAddr + s.size, NoLabel, 0, FALSE,
                 0, "NONE"), s.size)
  /\ UNCHANGED symCurr

\* SYM_DEFINITION of an object: it only becomes jit_sym_curr.
SymObject(s) ==
  /\ symCurr' = s
  /\ UNCHANGED <<labels, jcode, jitAddr>>

\* Mutant: the fall-through case forgets to reset jit_sym_curr.
SymLabelKeepsSym(s) ==
  /\ GenLabel(LastBase, s.name)
  /\ symCurr' = s

\* SYM_DEFINITION of a function (falling through), SYM_LABEL and SYM_TABLE.
SymLabel(s) ==
  /\ GenLabel(LastBase, s.name)
  /\ symCurr' = NoSym

\* SYM_TABLE_ENTRY: an 8-byte slot referring to the label of its own name.
SymTableEntry(s) ==
  /\ Reserve(Rec("table", s.name, 8, jitAddr + 8, s.name, 0, FALSE, 0,
                 "NONE"), 8)
  /\ symCurr' = NoSym
  /\ UNCHANGED labels

\* SYM_STRING_VALUE: a label and the string with its terminating zero.
SymString(s) ==
  /\ labels' = Append(labels, Label(s.name, LastBase))
  /\ Reserve(Rec("string", s.name, s.size, jitAddr + s.size + 1, NoLabel, 0,
                 FALSE, 0, "NONE"), s.size + 1)
  /\ symCurr' = NoSym

\* SYM_CONSTANT, jit_gen_data: the label in every case, then 4 bytes for a
\* float, 8 for a double and none for a long double ("TODO: long double").
ConstBytes == [float |-> 4, double |-> 8, ldouble |-> 0]

GenData(s) ==
  /\ labels' = Append(labels, Label(s.name, LastBase))
  /\ IF s.kind = "ldouble" THEN UNCHANGED <<jcode, jitAddr>>
     ELSE Reserve(Rec(s.kind, s.name, ConstBytes[s.kind],
                      jitAddr + ConstBytes[s.kind], NoLabel, 0, FALSE, 0,
                      "NONE"), ConstBytes[s.kind])
  /\ symCurr' = NoSym

(***************************************************************************)
(* jit_symbol: the front end declares each symbol once.                    *)
(***************************************************************************)
JitSymbol(s) ==
  /\ phase = "emitting"
  /\ s \notin declared
  /\ CASE s.kind = "tentative" -> SymTentative(s)
       [] s.kind = "data" -> SymObject(s)
       [] s.kind \in {"function", "label", "table"} -> SymLabel(s)
       [] s.kind = "entry" -> SymTableEntry(s)
       [] s.kind = "string" -> SymString(s)
       [] s.kind \in {"float", "double", "ldouble"} -> GenData(s)
  /\ feSym' = s
  /\ declared' = declared \cup {s}
  /\ UNCHANGED <<phase, passed, symPrev, buffer, size, placed, startJmp, live,
                 executed, library, emits, fixes>>

(***************************************************************************)
(* jit_text: the encoded instruction is appended at jit_addr; for the      *)
(* operand shapes with an address operand, a non-empty label name in it    *)
(* marks the record as a label reference.                                  *)
(***************************************************************************)
JitText(i) ==
  /\ phase = "emitting"
  /\ feSym # NoSym /\ feSym.kind \in {"function", "label"}
  /\ emits < MaxEmits
  /\ LET ref == IF i.op \in LabelOpTypes THEN i.target ELSE NoLabel
     IN Reserve(Rec("code", NoLabel, i.len, jitAddr + i.len, ref, i.disp,
                    FALSE, 0, i.op), i.len)
  /\ emits' = emits + 1
  /\ UNCHANGED <<phase, labels, passed, symCurr, symPrev, buffer, size,
                 placed, startJmp, live, executed, library, feSym, declared, fixes>>

\* Mutant: every data piece registers its symbol's label.
LabelHiddenNever == FALSE

\* Mutant: the comparison is inverted, so a symbol's first piece registers
\* no label.
LabelHiddenInverted == symPrev # symCurr

\* label_hidden = jit_sym_prev == jit_sym_curr
LabelHidden == symPrev = symCurr

(***************************************************************************)
(* jit_data: ignored without a current data symbol; a piece of the same   *)
(* symbol as the previous piece hides its label, otherwise the symbol's    *)
(* label is registered at the current position.                            *)
(***************************************************************************)
JitData(d) ==
  LET name == symCurr.name
      hidden == LabelHidden
      len == CASE d.type = "int" -> d.w
               [] d.type = "addr" -> 8
               [] d.type = "string" -> IF d.w = d.len THEN d.len ELSE d.len + 1
      r == CASE d.type = "int" ->
                  Rec("int", name, d.w, jitAddr + len, NoLabel, 0, hidden, 0, "NONE")
             [] d.type = "addr" ->
                  Rec("addr", name, 8, jitAddr + len, d.target, d.disp, hidden,
                      d.disp, "NONE")
             [] d.type = "string" ->
                  Rec(IF d.w = d.len THEN "ascii" ELSE "string", name, d.len,
                      jitAddr + len, NoLabel, 0, hidden, 0, "NONE")
  IN
  /\ phase = "emitting"
  /\ feSym # NoSym /\ feSym.kind = "data"
  /\ emits < MaxEmits
  /\ symCurr # NoSym
  /\ labels' = IF hidden THEN labels ELSE Append(labels, Label(name, LastBase))
  /\ Reserve(r, len)
  /\ symPrev' = symCurr
  /\ emits' = emits + 1
  /\ UNCHANGED <<phase, passed, symCurr, buffer, size, placed, startJmp, live,
                 executed, library, feSym, declared, fixes>>

(***************************************************************************)
(* jit_update_jump over the records not yet relocated.  Address slots and *)
(* jump-table entries get buffer + label index added unconditionally; an  *)
(* instruction longer than 4 bytes gets target - end (+ disp for the three *)
(* shapes that add it) in its 4-byte field, or is skipped when neither its *)
(* label text nor its name resolves.                                       *)
(***************************************************************************)
DispShapes == {"IMM_MEM", "REG_MEM", "MEM_REG"}

\* Mutant: the displacement is taken from the start of the instruction.
PatchValueFromStart(r, laddr) ==
  laddr - r.addr + (IF r.op \in DispShapes THEN r.disp ELSE 0)

PatchValue(r, laddr) ==
  laddr - r.base + (IF r.op \in DispShapes THEN r.disp ELSE 0)

\* Mutant: address slots get the logical offset without the buffer base.
RelocateLogical(r, lbls, buf) ==
  LET l0 == LabelAddress(lbls, r.ref)
      laddr == IF l0 < 0 THEN LabelAddress(lbls, r.name) ELSE l0
  IN CASE r.kind \in {"addr", "table"} -> [r EXCEPT !.value = @ + l0]
       [] r.kind = "code" /\ r.n > 4 /\ laddr >= 0 ->
            [r EXCEPT !.patch = PatchValue(r, laddr)]
       [] OTHER -> r

Relocate(r, lbls, buf) ==
  LET l0 == LabelAddress(lbls, r.ref)
      laddr == IF l0 < 0 THEN LabelAddress(lbls, r.name) ELSE l0
  IN CASE r.kind \in {"addr", "table"} ->
            [r EXCEPT !.value = @ + buf + l0]
       [] r.kind = "code" /\ r.n > 4 /\ laddr >= 0 ->
            [r EXCEPT !.patch = PatchValue(r, laddr)]
       [] OTHER -> r

UpdateJump(jc, lbls, buf, from) ==
  [i \in 1..Len(jc) |->
     IF i > from /\ jc[i].ref # NoLabel THEN Relocate(jc[i], lbls, buf)
     ELSE jc[i]]

(***************************************************************************)
(* The materialization loop of jit_fix_code: the bytes each branch writes *)
(* and the write cursor p at every record.                                 *)
(***************************************************************************)
\* Mutant: a jump-table entry is written as a 4-byte value.
WrittenTableEntry32(r) ==
  CASE r.kind = "string" -> r.n + 1
    [] r.kind = "ascii" -> r.n
    [] r.kind \in {"int", "code"} -> r.n
    [] r.kind \in {"float", "table"} -> 4
    [] r.kind \in {"double", "addr"} -> 8
    [] r.kind = "label" -> 0

\* Mutant: a raw (ascii) string is written with a terminator like .string.
WrittenAsciiTerminated(r) ==
  CASE r.kind \in {"string", "ascii"} -> r.n + 1
    [] r.kind \in {"int", "code"} -> r.n
    [] r.kind = "float" -> 4
    [] r.kind \in {"table", "double", "addr"} -> 8
    [] r.kind = "label" -> 0

Written(r) ==
  CASE r.kind = "string" -> r.n + 1
    [] r.kind = "ascii" -> r.n
    [] r.kind \in {"int", "code"} -> r.n
    [] r.kind = "float" -> 4
    [] r.kind \in {"table", "double", "addr"} -> 8
    [] r.kind = "label" -> 0

RECURSIVE Offsets(_, _, _)
Offsets(jc, i, p) ==
  IF i > Len(jc) THEN <<>>
  ELSE <<p>> \o Offsets(jc, i + 1, p + Written(jc[i]))

DataKinds == {"string", "ascii", "int", "float", "double", "table"}

\* The records the branch strcmp(name, "main") == 0 sees; the last one wins.
IsMain(r) == r.name = "main" /\ r.kind \notin DataKinds

MainIdx(jc) == SelectLastInSeq(jc, IsMain)

\* d = p - jit.buffer - 5: main's offset less the length of the jump.
MainDisp(off, m) == off[m] - 5

Pad8(x) == ((x + 7) \div 8) * 8

(***************************************************************************)
(* jit_fix_code(): jit_create into region b (0 when mapping fails, after  *)
(* which it returns 1 having done nothing else), jit_update_code, then the *)
(* materialization, which patches the placeholder jump through px into    *)
(* the buffer and into array_get(&jit.jcode, 0).                           *)
(***************************************************************************)
FixCode(b) ==
  /\ size' = Pad8(jitAddr + 16)
  /\ buffer' = b
  /\ IF b = 0
     THEN UNCHANGED <<jcode, passed, placed, startJmp, live>>
     ELSE LET jc == UpdateJump(jcode, labels, b, passed)
              m == MainIdx(jc)
              off == Offsets(jc, 1, 0)
          IN /\ live' = live \cup {b}
             /\ passed' = Len(jcode)
             /\ placed' = off
             /\ startJmp' = IF m = 0 THEN startJmp ELSE MainDisp(off, m)
             /\ jcode' = IF m = 0 THEN jc
                         ELSE [jc EXCEPT ![1].patch = MainDisp(off, m)]

\* The value jit_fix_code returns: 1 on a failed mapping, else main_found.
FixResult(b) == b = 0 \/ MainIdx(jcode) # 0

FixReady(b) ==
  /\ phase \in {"emitting", "fixed"}
  /\ declared = Symbols
  /\ fixes < MaxFixes
  /\ b \in Regions \ live

(***************************************************************************)
(* jit_run: fix, then (when jit_fix_code returned non-zero) the on-start  *)
(* hook, the code at the buffer base, the atexit runner when its label    *)
(* address is positive, and the on-exit hook.                              *)
(***************************************************************************)
AtExit == LabelAddress(labels, "__kcc_call_atexit_funcs")

AtExitCalls(b) == IF AtExit > 0 THEN {b + AtExit} ELSE {}

Hooks == {BuiltinFunction(labels, "__kcc_builtin_onstart"),
          BuiltinFunction(labels, "__kcc_builtin_onexit")} \ {0}

JitRun(b) ==
  /\ FixReady(b)
  /\ FixCode(b)
  /\ executed' = IF FixResult(b)
                 THEN executed \cup Hooks \cup {b}
                        \cup AtExitCalls(b)
                 ELSE executed
  /\ phase' = "fixed"
  /\ fixes' = fixes + 1
  /\ UNCHANGED <<labels, jitAddr, symCurr, symPrev, library, feSym, declared,
                 emits>>

\* jit_print: fix, then print the log (output is not modelled).
JitPrint(b) ==
  /\ FixReady(b)
  /\ FixCode(b)
  /\ phase' = "fixed"
  /\ fixes' = fixes + 1
  /\ UNCHANGED <<labels, jitAddr, symCurr, symPrev, executed, library, feSym,
                 declared, emits>>

(***************************************************************************)
(* jit_finalize: jit_destroy(jit.buffer, jit.size), both arrays cleared,  *)
(* the library unloaded; jit.passed, jit.buffer and jit_addr are kept.    *)
(***************************************************************************)
\* Mutant: the region is not destroyed.
JitFinalizeKeepsRegion ==
  /\ phase \in {"emitting", "fixed"}
  /\ labels' = <<>>
  /\ jcode' = <<>>
  /\ library' = FALSE
  /\ phase' = "finalized"
  /\ UNCHANGED <<jitAddr, passed, symCurr, symPrev, buffer, size, placed,
                 startJmp, executed, feSym, declared, emits, fixes, live>>

JitFinalize ==
  /\ phase \in {"emitting", "fixed"}
  /\ live' = live \ {buffer}
  /\ labels' = <<>>
  /\ jcode' = <<>>
  /\ library' = FALSE
  /\ phase' = "finalized"
  /\ UNCHANGED <<jitAddr, passed, symCurr, symPrev, buffer, size, placed,
                 startJmp, executed, feSym, declared, emits, fixes>>

Init ==
  /\ phase = "uninit"
  /\ jcode = <<>>
  /\ labels = <<>>
  /\ jitAddr = 0
  /\ passed = 0
  /\ symCurr = NoSym
  /\ symPrev = NoSym
  /\ buffer = 0
  /\ size = 0
  /\ placed = <<>>
  /\ startJmp = NoPatch
  /\ live = {}
  /\ executed = {}
  /\ library = FALSE
  /\ feSym = NoSym
  /\ declared = {}
  /\ emits = 0
  /\ fixes = 0

Next ==
  \/ JitInit
  \/ \E s \in Symbols : JitSymbol(s)
  \/ \E i \in Instrs : JitText(i)
  \/ \E d \in Datas : JitData(d)
  \/ \E b \in Regions : JitRun(b)
  \/ \E b \in Regions : JitPrint(b)
  \/ JitFinalize

Spec == Init /\ [][Next]_vars

-----------------------------------------------------------------------------
(***************************************************************************)
(* Properties.                                                             *)
(***************************************************************************)
Kinds == {"label", "code", "string", "ascii", "int", "float", "double",
          "table", "addr"}

\* Log records and labels have their shapes; jit_sym_curr only ever holds a
\* non-function definition (jit_symbol resets it for every other kind that
\* may receive emissions).
TypeOK ==
  /\ phase \in {"uninit", "emitting", "fixed", "finalized"}
  /\ \A i \in 1..Len(jcode) :
       /\ jcode[i].kind \in Kinds
       /\ jcode[i].n \in Nat /\ jcode[i].base \in Nat
       /\ jcode[i].op \in OpTypes
       /\ jcode[i].patch \in Int \cup {NoPatch}
  /\ \A j \in 1..Len(labels) : labels[j].index \in Int
  /\ jitAddr \in Nat /\ passed \in Nat
  /\ symCurr \in {s \in Symbols : s.kind = "data"} \cup {NoSym}
  /\ live \subseteq Regions \ {0}

Fixed == phase = "fixed" /\ buffer # 0

\* Materialization reaches every record at the logical address
\* jit_symbol/jit_data/jit_text gave it (a label record's is its base) and
\* writes inside the jit.size bytes jit_fix_code mapped: the byte counts of
\* the emitting functions and of the writing loop agree for every kind.
LogicalStart(r) == IF r.kind = "label" THEN r.base ELSE r.addr

PlacedAtLogicalAddress ==
  Fixed =>
    /\ \A i \in 1..Len(jcode) : placed[i] = LogicalStart(jcode[i])
    /\ placed[Len(jcode)] + Written(jcode[Len(jcode)]) <= size

\* The label a reference should reach: the unit's own definition of the
\* name when there is one (as the static link of the text backend's output
\* binds it), else whatever the label table holds for the name.
OwnLabel(name) ==
  LET i == SelectInSeq(labels, LAMBDA l : l.name = name /\ l.index >= 0)
  IN IF i = 0 THEN -1 ELSE labels[i].index

Target(name) == IF OwnLabel(name) >= 0 THEN OwnLabel(name) ELSE LabelAddress(labels, name)

\* After the fix-up, every rip-relative reference longer than 4 bytes to a
\* name the unit defines addresses that definition plus the operand's
\* displacement, and a reference to no label in the buffer is left as
\* encoded.
RelocationCorrect ==
  Fixed =>
    \A i \in 1..Len(jcode) :
      LET r == jcode[i]
          t == Target(r.ref)
      IN r.kind = "code" /\ r.ref # NoLabel /\ r.n > 4 =>
           IF t >= 0 THEN r.patch # NoPatch /\ r.base + r.patch = t + r.disp
                     ELSE r.patch = NoPatch

\* After the fix-up every 8-byte address slot and jump-table entry holds the
\* absolute runtime address of its target (plus the datum's displacement):
\* the current buffer plus the label's offset for a label in the buffer, the
\* native pointer for a builtin.
AbsoluteAddress(name) ==
  LET t == Target(name)
  IN IF t >= 0 THEN buffer + t ELSE BuiltinFunction(labels, name)

AddressSlotsAbsolute ==
  Fixed =>
    \A i \in 1..Len(jcode) :
      jcode[i].kind \in {"addr", "table"} =>
        jcode[i].value = AbsoluteAddress(jcode[i].ref) + jcode[i].disp

\* Every symbol that owns storage has at most one label, and a label of it
\* that lies in the buffer addresses a record of that symbol's own bytes, so
\* consecutive pieces of one definition share a single label (label hiding)
\* and no label aliases another symbol's storage.
StorageKinds == {"tentative", "data", "string", "float", "double", "ldouble"}

LabelsOf(name) == {j \in 1..Len(labels) : labels[j].name = name}

LabelsAddressOwnStorage ==
  \A s \in Symbols : s.kind \in StorageKinds =>
    /\ Cardinality(LabelsOf(s.name)) <= 1
    /\ \A j \in LabelsOf(s.name) :
         labels[j].index >= 0 =>
           \E i \in 1..Len(jcode) :
             /\ jcode[i].name = s.name
             /\ jcode[i].kind \in DataKinds \cup {"addr"}
             /\ jcode[i].addr = labels[j].index

-----------------------------------------------------------------------------
(***************************************************************************)
(* Refinement: the unit as JitUnit sees it.  A fix-up whose mapping       *)
(* failed leaves the unit open with no region and no length; the region  *)
(* is the mapped one while it is live, its length the size it was mapped  *)
(* with.                                                                   *)
(***************************************************************************)
UnitState ==
  CASE phase = "uninit" -> "empty"
    [] phase = "emitting" -> "open"
    [] phase = "fixed" -> IF buffer = 0 THEN "open" ELSE "fixed"
    [] phase = "finalized" -> "closed"

Unit == INSTANCE JitUnit WITH
          state <- UnitState,
          region <- IF live = {} THEN 0 ELSE buffer,
          len <- IF buffer = 0 THEN 0 ELSE size,
          calls <- executed,
          Natives <- {NativeAddr(i) : i \in 1..Len(LibEntries)}

\* jit_init, the emitting calls, jit_fix_code, jit_run, jit_print and
\* jit_finalize together implement JitUnit for a unit that is fixed up
\* once: the region is mapped by the fix-up and released by jit_finalize, a run transfers control to the
\* region's start and otherwise only into the region or to native builtins
\* (the on-start/on-exit hooks, the atexit runner), and a fix-up whose
\* mapping failed executes nothing.
ImplementsUnit == Unit!USpec
=============================================================================
