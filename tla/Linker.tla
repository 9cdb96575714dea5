------------------------------- MODULE Linker -------------------------------
(***************************************************************************)
(* The linker collaborator of src/src/backend/linker.c: the process-wide  *)
(* argument list ld_args, seeded by init_linker on the first              *)
(* add_linker_arg, terminated with "-lc" and NULL by invoke_linker, which *)
(* forks, execs argv[0] in the child and waits for it; clear_linker_args  *)
(* frees and empties the list.                                            *)
(*                                                                         *)
(* The child is one step: fork fails, the exec fails (the child runs      *)
(* _exit(0)), or ld runs on the argv up to the first NULL and exits with  *)
(* a status.  The non-Unix build (KCC_WINDOWS), where every call is a     *)
(* no-op, is not modelled.                                                 *)
(***************************************************************************)
EXTENDS Integers, Sequences, SequencesExt

CONSTANTS
  UserArgs,     \* arguments the driver may add (input objects, -o, ...)
  LdStatus,     \* exit statuses ld may return
  MaxArgs,      \* bound on add_linker_arg calls per build
  MaxInvokes,   \* bound on invoke_linker calls per build (retries)
  MaxBuilds,    \* bound on builds (clear_linker_args ends one)
  NullArg,      \* the (char *) NULL terminator
  NoStatus

ASSUME NullArg \notin UserArgs /\ 0 \in LdStatus

VARIABLES
  ldArgs,     \* ld_args
  ret,        \* the value the last invoke_linker returned
  ran,        \* the argv ld was started with by the last invoke, or <<>>
  given,      \* driver: the arguments added since the last clear
  invokes,    \* driver: invoke_linker calls in this build
  builds      \* driver: builds completed

lvars == <<ldArgs, ret, ran, given, invokes, builds>>

\* init_linker, outside OpenBSD: loader, entry point, dynamic linker, C
\* runtime objects and library search paths.
Preset ==
  <<"/usr/bin/ld", "--eh-frame-hdr", "-e", "_start", "-dynamic-linker",
    "/lib/x86_64-linux-gnu/ld-linux-x86-64.so.2",
    "/usr/lib/x86_64-linux-gnu/crt1.o", "/usr/lib/x86_64-linux-gnu/crti.o",
    "/usr/lib/x86_64-linux-gnu/crtn.o", "-L/usr/local/lib", "-L/usr/lib">>

\* Mutant: the preset is added on every call, not only to an empty list.
SeededEveryCall(args) == args \o Preset

\* if (!array_len(&ld_args)) init_linker();
Seeded(args) == IF args = <<>> THEN Preset ELSE args

\* add_linker_arg(opt): seed an empty list, then append a copy of opt.
AddLinkerArg(o) ==
  /\ builds < MaxBuilds
  /\ invokes = 0
  /\ Len(given) < MaxArgs
  /\ ldArgs' = Append(Seeded(ldArgs), o)
  /\ given' = Append(given, o)
  /\ UNCHANGED <<ret, ran, invokes, builds>>

\* The arguments execvp passes on: argv up to the first NULL.
ArgvOf(args) ==
  LET k == SelectInSeq(args, LAMBDA a : a = NullArg)
  IN IF k = 0 THEN args ELSE SubSeq(args, 1, k - 1)

\* Mutant: NULL is pushed before "-lc".
TerminatedNullFirst(args) == args \o <<NullArg, "-lc">>

\* add_option("-lc"); array_push_back(&ld_args, NULL);
Terminated(args) == args \o <<"-lc", NullArg>>

\* _exit(0) after execvp returns.
ExecFailureStatus == 0

\* Mutant: a failed fork returns fork()'s own -1.
ForkFailureStatusNegative == -1

\* case -1: ret = 1;
ForkFailureStatus == 1

(***************************************************************************)
(* invoke_linker: terminate the list, then the outcome of fork/execvp/    *)
(* waitpid: 1 when fork fails, the child's _exit status when execvp       *)
(* fails, else WEXITSTATUS of ld.  The driver may invoke before adding    *)
(* anything (the list is then only "-lc", which execvp cannot start), and *)
(* may invoke again in the same build.                                     *)
(***************************************************************************)
\* execvp(argv[0], argv) can start the program only when argv[0] names it.
StartsLoader(argv) == argv # <<>> /\ Head(argv) = Head(Preset)

InvokeLinker ==
  LET args == Terminated(ldArgs)
  IN /\ builds < MaxBuilds
     /\ invokes < MaxInvokes
     /\ ldArgs' = args
     /\ \/ /\ ret' = ForkFailureStatus        \* fork() == -1
           /\ ran' = <<>>
        \/ /\ ret' = ExecFailureStatus        \* execvp fails in the child
           /\ ran' = <<>>
        \/ /\ StartsLoader(ArgvOf(args))     \* ld runs and exits
           /\ \E st \in LdStatus : ret' = st
           /\ ran' = ArgvOf(args)
     /\ invokes' = invokes + 1
     /\ UNCHANGED <<given, builds>>

\* clear_linker_args: free every argument and empty the list; the driver's
\* build ends here, and ret and ran start over for the next one.
ClearLinkerArgs ==
  /\ builds < MaxBuilds
  /\ invokes > 0
  /\ ldArgs' = <<>>
  /\ given' = <<>>
  /\ invokes' = 0
  /\ builds' = builds + 1
  /\ ret' = NoStatus
  /\ ran' = <<>>

LInit ==
  /\ ldArgs = <<>>
  /\ ret = NoStatus
  /\ ran = <<>>
  /\ given = <<>>
  /\ invokes = 0
  /\ builds = 0

LNext ==
  \/ \E o \in UserArgs : AddLinkerArg(o)
  \/ InvokeLinker
  \/ ClearLinkerArgs

LSpec == LInit /\ [][LNext]_lvars

-----------------------------------------------------------------------------
(***************************************************************************)
(* Properties.                                                             *)
(***************************************************************************)
LTypeOK ==
  /\ ldArgs \in Seq(UserArgs \cup ToSet(Preset) \cup {"-lc", NullArg})
  /\ ret \in LdStatus \cup {0, 1, NoStatus}
  /\ ran \in Seq(UserArgs \cup ToSet(Preset) \cup {"-lc"})
  /\ invokes \in 0..MaxInvokes /\ builds \in 0..MaxBuilds

\* Whenever ld is started, in any build and on any retry, it sees exactly
\* the platform preset, then the caller's arguments in the order they were
\* added, then the C library flag ("pre-seeded on first use ... terminating
\* the pre-build set with the standard C library link flag").
LinkerSeesBuild ==
  ran # <<>> => ran = Preset \o given \o <<"-lc">>

\* invoke_linker reports success only when ld was started and exited with
\* status 0; a linker that could not be started is a failure ("or a
\* generic failure status if the process could not be started").
StartFailureReported ==
  ret = 0 => ran # <<>>
=============================================================================
