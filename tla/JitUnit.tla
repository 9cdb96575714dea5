------------------------------ MODULE JitUnit ------------------------------
(***************************************************************************)
(* What one JIT compilation unit promises, without its log: it is opened, *)
(* filled, fixed up once into one executable region (run or printed), and *)
(* finalized, which releases the region.  Running transfers control to    *)
(* the start of the region (where the startup code jumps to main) or,      *)
(* when there is no main, nowhere, and never to an address outside the    *)
(* region other than a native builtin.  A failed mapping leaves the unit  *)
(* open and executes nothing.  The spec's RUNNING -> FIXED loop (a second *)
(* run in the same region) is not part of it: jit_fix_code maps a fresh   *)
(* region on every call, which the jit_refix run shows.                   *)
(***************************************************************************)
EXTENDS Integers

CONSTANTS
  Regions,    \* addresses a mapping may return (0: failure)
  Natives     \* native entry points of the support library

VARIABLES
  state,      \* "empty", "open", "fixed", "closed"
  region,     \* the base of the mapped region, 0 when none
  len,        \* its length in bytes
  calls       \* the addresses control has been transferred to

uvars == <<state, region, len, calls>>

InRegion(a) == region' # 0 /\ region' <= a /\ a < region' + len'

\* Control enters the region at its start, or nowhere; any other address
\* it reaches lies in the region or is a native entry point.
Entered ==
  \/ calls' = calls
  \/ /\ region' \in calls'
     /\ calls \subseteq calls'
     /\ \A a \in calls' \ calls : InRegion(a) \/ a \in Natives

UInit ==
  /\ state = "empty"
  /\ region = 0
  /\ len = 0
  /\ calls = {}

Open ==
  /\ state = "empty"
  /\ state' = "open"
  /\ UNCHANGED <<region, len, calls>>

\* The fix-up maps the region (and a run enters it).
Acquire ==
  /\ state = "open"
  /\ region' \in Regions \ {0}
  /\ len' > 0
  /\ state' = "fixed"
  /\ Entered

\* Finalize releases the region exactly once.
Close ==
  /\ state \in {"open", "fixed"}
  /\ state' = "closed"
  /\ region' = 0
  /\ UNCHANGED <<len, calls>>

UNext == Open \/ Acquire \/ Close

USpec == UInit /\ [][UNext]_uvars
=============================================================================
