--------------------------- MODULE BackendParity ---------------------------
(***************************************************************************)
(* The two backends driven by one front end: every call of the driver     *)
(* (declare a symbol, emit an instruction, emit a datum, close the unit)  *)
(* is a step of both JitBackend and TextBackend, which share the driver's *)
(* variables feSym, declared and emits.  jit_run/jit_print only exist for *)
(* the JIT and leave the text stream as it is.                             *)
(***************************************************************************)
EXTENDS Integers, Sequences, FiniteSetsExt

CONSTANTS Symbols, Instrs, Datas, LibEntries, Regions, MaxEmits, MaxFixes,
          InBody, NoLabel, NoSym, NoPatch

VARIABLES phase, jcode, labels, jitAddr, passed, symCurr, symPrev, buffer,
          size, placed, startJmp, live, executed, library, feSym, declared,
          emits, fixes, asmPhase, current, out, fn

J == INSTANCE JitBackend
T == INSTANCE TextBackend

textOnly == <<asmPhase, current, out, fn>>

allVars == <<J!vars, textOnly>>

PInit == J!Init /\ T!TInit

\* An initialized object of standard C has at least one byte of initializer,
\* and the front end emits it as data right after the object's declaration:
\* it moves on (declares, fixes up or closes) only once the object it
\* declared last has had a datum.
ObjectFilled ==
  feSym # NoSym /\ feSym.kind = "data" =>
    \E k \in 1..Len(out) : out[k].d = "data" /\ out[k].sym = feSym.name

PNext ==
  \/ J!JitInit /\ T!AsmInit
  \/ \E s \in Symbols : ObjectFilled /\ J!JitSymbol(s) /\ T!AsmSymbol(s)
  \/ \E i \in Instrs : J!JitText(i) /\ T!AsmText(i)
  \/ \E d \in Datas : J!JitData(d) /\ T!AsmData(d)
  \/ \E b \in Regions : ObjectFilled /\ (J!JitRun(b) \/ J!JitPrint(b))
                        /\ UNCHANGED textOnly
  \/ ObjectFilled /\ J!JitFinalize /\ T!AsmFinalize

PSpec == PInit /\ [][PNext]_allVars

-----------------------------------------------------------------------------
\* The bytes each backend gives a symbol's storage: the JIT's written log
\* records of that name, and the text directives attributed to it.
JitBytes(nm) ==
  MapThenSumSet(LAMBDA i : J!Written(jcode[i]),
                {i \in 1..Len(jcode) : jcode[i].name = nm
                                       /\ jcode[i].kind \notin {"label", "code"}})

TextBytes(nm) ==
  MapThenSumSet(LAMBDA k : out[k].n, {k \in 1..Len(out) : out[k].sym = nm})

\* Parity of the backends (the constants of one unit assemble to the same
\* bytes whichever backend emits them): while the JIT log exists, every
\* declared symbol occupies as many bytes in the JIT buffer as the
\* directives of the text backend assemble to.
BytesAgree ==
  phase \in {"emitting", "fixed"} =>
    \A s \in declared : JitBytes(s.name) = TextBytes(s.name)

\* The names each backend defines: a "name:" line (or .comm) of the text
\* output, and a label of the JIT table that lies in the buffer, other than
\* the startup routines' own.
TextDefines == {out[k].sym : k \in {k \in 1..Len(out) :
                  out[k].d \in {"comm", "func", "object", "string", "const", "label"}}}

JitDefines == {labels[j].name : j \in {j \in 1..Len(labels) : labels[j].index >= 0}}
                \ {J!StartupRoutines[i].name : i \in 1..Len(J!StartupRoutines)}

\* The object declared last whose initializer has not started yet: the
\* text backend has written its label, the JIT registers it with its
\* first datum (jit_data), so the two are compared once it has one.
Unfilled == IF ObjectFilled THEN {} ELSE {feSym.name}

\* Label parity: while the JIT log exists, the JIT's label table defines,
\* in the buffer, exactly the names the assembler output defines, so a
\* reference that links in the text build resolves in the JIT and one that
\* does not link is not silently bound (jit_symbol/jit_data/jit_gen_label
\* against asm_symbol).
LabelsAgree ==
  phase \in {"emitting", "fixed"} => JitDefines = TextDefines \ Unfilled
=============================================================================
