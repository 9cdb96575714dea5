# TLA+ models of the kcs x86-64 backends

This directory holds TLA+ models of the code-generation backends of kcs
(`src/src/backend/`), checked with TLC:

* the in-memory JIT backend (`x86_64/jit.c`);
* the textual assembler backend (`x86_64/assemble.c`);
* the linker driver (`linker.c`).

The models also include an abstract specification of a JIT unit that the
JIT model is shown to refine, and a composition that runs both backends
on the same call sequence.

## 1. The system

The front end (not in this repository) lowers a C translation unit to
symbols and machine instructions. Then it drives one backend with the
same sequence of calls: init, then `symbol`/`text`/`data` in program
order, then the end of the unit.

* **JIT backend** (`jit.c`). `jit_init` sets up the builtin library and
  appends the startup blob. Each `jit_symbol`, `jit_text` and `jit_data`
  call does three things:
  * appends records to the emission log `jit.jcode`;
  * appends labels to `jit.labels`;
  * advances the logical address `jit_addr`.

  `jit_run` and `jit_print` call `jit_fix_code`, which maps a region of
  `PAD8(jit_addr+16)` bytes. Then `jit_update_jump` relocates every
  record from `jit.passed` on:
  * absolute slots get `buffer + label`;
  * rel32 fields get `label - end of instruction`, plus the displacement
    for some operand shapes. The field's position is guessed from the
    prefix bytes.

  After relocation the records are copied into the region, and the
  startup jump is back-patched to `main`. `jit_run` executes the region,
  and `jit_finalize` unmaps it.
* **Text backend** (`assemble.c`). `asm_symbol`, `asm_text` and
  `asm_data` write GNU assembler directives. A non-label symbol first
  calls `asm_flush`, which closes the current function (`current_symbol`)
  with `.size f, .-f`.
* **Linker** (`linker.c`). `add_linker_arg` grows the process-wide
  `ld_args`, which `init_linker` seeds on first use. `invoke_linker`
  terminates the list with `-lc` and NULL, forks, execs `ld` and returns
  its exit status. `clear_linker_args` empties the list.

The spec requires the two backends to agree on the bytes of every
symbol. Labels carry an index into the region. Builtins, which are host
functions reached through the library's lookup, carry `-i`, so a
negative index means "not in the buffer".

## 2. Modules

| Module | Models |
|---|---|
| `JitBackend` | Every state-changing operation of `jit.c`: `jit_init` (with `jit_setup_builtin` and `jit_gen_builtin_startup`), `jit_symbol` (each `symtype`), `jit_text`, `jit_data`, `jit_update_jump`, `jit_fix_code`, `jit_run`, `jit_print` and `jit_finalize`. It also holds the refinement mapping to `JitUnit`. |
| `JitUnit` | The abstract JIT unit: empty → open → fixed (one fix-up acquires the region) → closed (region released). The spec's RUNNING → FIXED loop is left out on purpose: the code maps a fresh region on every `jit_fix_code`, which is what the `jit_refix` run shows. Control enters only at the start of the region; the other addresses it reaches are in the region or are native builtins. |
| `PatchOffset` | The rel32 patch of one instruction: the real layout of x86 prefixes, REX, escape, opcode, ModRM and disp32, and `jit_update_jump`'s guess at where disp32 starts (lines 186-199). The guess is checked against the layout. |
| `TextBackend` | `asm_init`, `asm_symbol` (each case of its switch), `asm_text`, `asm_data` and the final `asm_flush`, with `current_symbol` and the directive stream. |
| `AsmOperand` | The operand text of `assemble.c`: `mnemonic`, `asm_address`, `immediate`, the `SUFFIX`/`X87SFX`/`X87IFX` size letters, and how `asm_text` picks and prints its source and destination (pure operators). |
| `BackendParity` | Composes `JitBackend` and `TextBackend`. Each driver call is the conjunction of the two backends' actions on shared driver state. The driver gives an initialized object at least one datum before it moves on (`ObjectFilled`), because in C an initializer has at least one byte. |
| `Linker` | `add_linker_arg`/`init_linker`, `invoke_linker` with its three outcomes, and `clear_linker_args`, over several builds and retries. The driver may also invoke before adding anything: then `ld_args` is still NULL, `invoke_linker` appends `-lc` and NULL to an uninitialised list, and `execvp` is asked to start `-lc`, which fails. |
| `MC*` | Constants for TLC: small translation units, instruction and data lists, encodings, linker arguments. |

### `JitBackend`

* `jcode` is `jit.jcode`. Each record carries `kind`, `name`, byte count
  `n`, logical address `base`, referenced label `ref`, operand shape
  `op`, displacement `disp`, `value` and the `patch` of a jump.
  Instruction bytes are abstracted to their count.
* `labels` is `jit.labels`, searched first-match as
  `jit_get_label_address` does.
* `jitAddr`, `passed`, `buffer`, `size`, `symCurr` and `symPrev` are the
  C globals of the same names.
* `library` records which of the four library lookups succeeded.
* `placed` is where the materialization loop wrote each record.
* `live` is the set of mapped regions, and `executed` the set of
  addresses jumped to.
* `phase`, `feSym`, `declared`, `emits` and `fixes` are the front end's
  driving order.
* `JitRun(b)` and `JitPrint(b)` include the whole of `jit_fix_code`. The
  region `b` comes from `Regions`, and `0` is a failing `jit_create`.
* The startup blob keeps the exact routine lengths 5/7/93/24/14/33, and
  ends at 176.

### Refinement

`JitBackend` instantiates `JitUnit` with this mapping:

* `state` is derived from `phase`. A fixed phase whose buffer is 0 is
  still "open", because the mapping failed.
* `region` is `buffer` while a region is live, else 0.
* `len` is `size` once a region is mapped, and 0 after a failed `jit_create`. A failed mapping therefore changes nothing in `JitUnit` unless something is executed.
* `calls` is `executed`.
* `Natives` are the native builtin pointers.

`ImplementsUnit == Unit!USpec` is checked as a PROPERTY.

### `TextBackend`

Text is abstracted to one record per directive group: the kind, the
symbol it belongs to, and the bytes it assembles to. `fn` is the
function whose body the front end is emitting.

`AsmText(i)` keeps only whose line it writes. The line itself is
`InsnLine(i)` of `AsmOperand`. A text there is the sequence of pieces
that `sprintf` writes: a symbol, a relocation, a number with its sign
characters, `(` with a register, `,` with a register and scale, and `)`.
A register is its row and column of `reg_name`. `asm_address` and
`immediate` each return one static buffer. `Deref` reads a pointer
when the line is printed, so it sees what was last written into that
buffer. `OperandTextFaithful` reads each line back with a reader of GNU
`as` syntax (`ReadAddress`, `ReadOperand`, `SizeRead`). It compares the
result with the instruction's meaning. The reader and the meaning are
written from the AT&T syntax, not from `assemble.c`, so the check does
not reproduce the code's own mistakes.

The constant `InBody` names the symbol kinds the front end may declare
inside a body without ending it. It is `{}` in the passing runs, which
is the front end's ordinary order.

## 3. Properties

| Property | Module | States |
|---|---|---|
| `TypeOK`, `TTypeOK`, `LTypeOK` | each | The type invariants (`TypeOK` in `jit_core` only). |
| `PlacedAtLogicalAddress` | JitBackend | The materialization loop writes every record at the logical address it got at emission, and the unit fits in the region. |
| `RelocationCorrect` | JitBackend | Every relocated rel32 reference reaches the unit's own definition plus the operand displacement. An unresolved one is left as encoded. |
| `AddressSlotsAbsolute` | JitBackend | Every address datum and table slot holds the absolute runtime address of its target. |
| `LabelsAddressOwnStorage` | JitBackend | Every data label addresses bytes of its own symbol. |
| `ImplementsUnit` | JitBackend | The refinement, for a unit fixed up once (`jit_core`): the region is acquired by the fix-up and released by finalize, and execution starts at its start and stays in it or in native code. In `jit_alloc_failure` it catches the null-buffer execution: with `jit_run` corrected to execute nothing on a failed mapping, that run passes. |
| `DispFieldPatched` | PatchOffset | After the patch, the four disp32 bytes of the encoding hold the displacement (two's complement, little endian), and no other byte changed. |
| `SizeClosesBody` | TextBackend | No function gets two `.size`, and no instruction of a function follows its `.size`. |
| `OperandTextFaithful` | TextBackend | Action property: every instruction line that `asm_text` writes reads back as its instruction. The size letter gives the sized operand's width. Source and destination, read after both static buffers were written, are the right registers, addresses (symbol, relocation, signed displacement, base, index, scale), immediates and call targets. |
| `FunctionsEventuallySized` | TextBackend | Liveness: every declared function is eventually closed by exactly one `.size`. |
| `BytesAgree` | BackendParity | While emitting and after fix-up, every declared symbol has as many bytes in the JIT log as its text assembles to. |
| `LabelsAgree` | BackendParity | While the JIT log exists, the JIT's in-buffer labels define exactly the names that the assembler output defines (`name:` or `.comm`), apart from the startup routines. The one exception is the object just declared whose first datum has not come yet, because `jit_data` registers the label while `asm_symbol` writes it at once. |
| `LinkerSeesBuild` | Linker | Whenever `ld` runs, in any build and on any retry, its argv is the preset, then the caller's arguments in order, then `-lc`. |
| `StartFailureReported` | Linker | Success is reported only if `ld` actually ran: after a failed `execvp`, including one where the driver invoked before adding, so argv begins with `-lc` (violation run only). |

## 4. Runs

| Run | Cfg | Expect | Shows |
|---|---|---|---|
| jit_core | `MCJitBackend.cfg` | pass | `main`, a label, an object, a string and a double, with a jump, `MEM_REG`/`IMM_MEM` operands and calls to a builtin and an unknown function. Every library outcome is tried. 171,487 states, about 65 s. |
| jit_tables | `MCJitTable.cfg` | pass | A tentative definition, a jump table with an entry, a float, an indirect `MEM` jump and a `REG_MEM` store. Checks placement, relocation, address slots and label storage. 70,447 states. |
| jit_alloc_failure | `MCJitAllocFail.cfg` | violation | When `jit_create` fails, `jit_run` executes the null buffer (`ImplementsUnit`). |
| jit_refix | `MCJitRefix.cfg` | violation | A second run maps a new region, leaks the old one and skips relocation, so address slots go stale. |
| jit_builtin_address | `MCJitBuiltinAddr.cfg` | violation | `&printf` in data becomes `buffer - 1`. |
| jit_mem_disp | `MCJitMemDisp.cfg` | violation | An `OPT_MEM` operand loses its displacement. |
| patch_offset | `MCPatchOffset.cfg` | pass | 14 encodings the heuristic handles (plain, 66, REX.W, F2/F3 0F with and without prefixes, `IMM_MEM` with 1-, 2- and 4-byte immediates), each with 4 displacements, including negative and multi-byte values. |
| patch_offset_rex | `MCPatchRex.cfg` | violation | For `mov %r8d,g(%rip)` (44 89 05) and others, the patch overwrites the opcode and ModRM. |
| text_backend | `MCTextBackend.cfg` | pass | Two functions, a label, data, a tentative, a string and a double, declared in every order, with instructions and data. There are 14 instruction forms: register, `%rip`-relative with a negative or positive displacement, `@GOTPCREL`, `@PLT` call, based-indexed-scaled, immediates of widths 1 and 2, a jump label, and the `U2S`, `X1`, `Y1`, `U1`, `I2` and `I0` formats. 288,977 states, about 2 min. |
| linker | `MCLinker.cfg` | pass | Two builds of up to two arguments, with two invokes each and every outcome. |
| linker_exec_failure | `MCLinkerExecFail.cfg` | violation | A failed `execvp` is reported as success (`_exit(0)`). |
| backend_parity | `MCBackendParity.cfg` | pass | Both backends on one unit with data, a tentative, a string, a float, a label inside `main`, an int, `.ascii` and `.string` strings, and an address. Checks `BytesAgree` and `LabelsAgree`. 262,855 states, about 2 min. Adding a double as well takes over 10 min. |

Every run uses `CHECK_DEADLOCK FALSE`, because each system really does
stop: after `jit_finalize` or the last flush the unit is inert, the
linker's driver exits after its last build, and a patch is one step.

**Fairness.** Only `TextBackend` claims liveness. It assumes weak
fairness on the front end's `AsmInit`, `AsmSymbol` and `AsmFinalize`:
the driver runs a unit to its end, declaring every symbol and then
closing. Instruction and data emission get no fairness, because they
are bounded choices of the driver. The other modules claim only safety
and the refinement, whose abstract specification has no fairness.

**Bounds.** Each run includes every symbol kind and operand shape that
its code treats differently. At least one reference goes forward, and
the declaration order is free, so every branch of `jit_update_jump`,
the materialization loop and `asm_symbol`'s switch is taken.
`MaxEmits=2` lets a function have instructions both before and after a
label. `MaxInvokes=2` and `MaxBuilds=2` exercise a retry and the reuse
of `ld_args` after a clear.

**Mutants.** Each property of a passing run has a mutant in
`PROJECT.json`: a plausible bug in a mapped definition, which the run's
property catches.

## 5. Findings without a run of their own

The following are listed as hazards in `PROJECT.json`. They were
confirmed with TLC while modelling.

* A builtin shadows a unit's own function of the same name
  (`jit.c:82`, first match), so calls to it are not relocated
  (`RelocationCorrect` with a unit that defines `printf`).
* A jump table declared inside a function closes the function early in
  the text backend (`assemble.c:175`), so its `.size` precedes the rest
  of its code (`SizeClosesBody` with `InBody = {"table","entry"}`).
* The text backend writes nothing for `SYM_TABLE`/`SYM_TABLE_ENTRY`
  (`assemble.c:237`), while the JIT lays out 8-byte slots and a label
  (`BytesAgree` and `LabelsAgree` fail with a table in the parity unit).
* An object declared with no data call gets no JIT label (`jit.c:837`),
  while the text backend defines it. The spec's driver contract allows
  zero emits. Without `ObjectFilled`, `LabelsAgree` fails at once. Only
  a zero-sized object would reach this, and the front end is not in this
  repository.
* A long double constant gets a label but no storage (`jit.c:458`). With one in the tables unit, `LabelsAddressOwnStorage` fails.
* `asm_address` prints the index register only inside `if (addr.base)`
  (`assemble.c:123`), so a base-less indexed address loses its index.
  Such a form added to `MCTextInstrs` makes `OperandTextFaithful` fail.
  The instruction selection that would emit it is not in this
  repository, so the run leaves it out. (An IMM_ADDR source would share
  `asm_address`'s static buffer with a memory destination, but
  `immediate()` prints such a source as a bare call target, so no
  instruction has both.)
* The startup back-patch goes to log record 0, not the jump record
  (`jit.c:391`). The bytes in the region are still correct; only
  `jit_print_code`'s listing would show the unpatched jump.

## 6. Not modelled, and why

* `jit_print_code` only formats output.
* The `DEF_GET_REGISTER` probes hold no backend state.
* The encoder, `struct instruction` and the symbol table live outside
  this repository. Their data is abstracted to the fields that are
  branched on.
* `timer.hpp` is never included by the backends, and it measures wall
  time in doubles. `xunistd.h` and `token.h` hold only declarations
  (macros, typedefs, an enum). None of them has state to model.
* The opcode name of each line (the 100-odd cases of `asm_text`'s last
  switch) is not modelled. Only its format macro is modelled, since it
  decides the size letter and operand count. The value of an immediate
  is kept, but not which union member is read for its width.
* The Windows build of the linker is not modelled: every call there is
  a no-op.

Left for later:

* reuse of the JIT after `jit_finalize`;
* the union read of the immediate at `jit.c:905`;
* short (rel8) jumps;
* instances of the composed model with more symbol kinds at once (a double on top of the current unit takes 11 min).
