-------------------------------- MODULE DevEnv --------------------------------
(***************************************************************************)
(* gcc16-proveout/devenv: one checkout of GCC, one build tree per branch.  *)
(* configure.sh checks the branch out and configures its tree; build.sh    *)
(* makes a tree, or only its cc1plus, from whatever is checked out;        *)
(* test-reflection.sh drives a repro or the testsuite through the tree.    *)
(* A source is a branch with the edits made so far; git carries edits over *)
(* a checkout or refuses it.                                               *)
(***************************************************************************)
EXTENDS Naturals

CONSTANTS
  Branches,  \* master, gcc-16
  Trunk,     \* the one clone.sh checks out
  MaxEdits   \* bound: edits to gcc/cp

VARIABLES
  head,       \* the branch checked out in gcc/
  edits,      \* edits made to the sources
  configured, \* the build trees with a Makefile
  driver,     \* per tree, the source its xg++ was made from
  cc1plus,    \* per tree, the source its cc1plus was made from
  verdict     \* per branch, the sources of the compiler a test last ran through

vars == <<head, edits, configured, driver, cc1plus, verdict>>

Nothing == [branch |-> "none", edits |-> 0]

Source == [branch |-> head, edits |-> edits]

\* clone.sh
Init ==
  /\ head = Trunk /\ edits = 0 /\ configured = {}
  /\ driver = [b \in Branches |-> Nothing]
  /\ cc1plus = [b \in Branches |-> Nothing]
  /\ verdict = [b \in Branches |-> <<Nothing, Nothing>>]

Edit ==
  /\ edits < MaxEdits
  /\ edits' = edits + 1
  /\ UNCHANGED <<head, configured, driver, cc1plus, verdict>>

\* git checkout succeeds; configure itself may still fail before it writes the Makefile.
Configure(b) ==
  /\ head' = b
  /\ \/ configured' = configured \cup {b}
     \/ UNCHANGED configured
  /\ UNCHANGED <<edits, driver, cc1plus, verdict>>

\* make in the whole tree; it may stop after either program.
BuildAll(b) ==
  /\ b \in configured
  /\ \E d \in {driver[b], Source}, c \in {cc1plus[b], Source} :
       /\ driver' = [driver EXCEPT ![b] = d]
       /\ cc1plus' = [cc1plus EXCEPT ![b] = c]
  /\ UNCHANGED <<head, edits, configured, verdict>>

BuildCc1plus(b) ==
  /\ b \in configured
  /\ cc1plus' = [cc1plus EXCEPT ![b] = Source]
  /\ UNCHANGED <<head, edits, configured, driver, verdict>>

\* The tree's own driver is asked for, and runs the cc1plus beside it.
Test(b) ==
  /\ driver[b] # Nothing /\ cc1plus[b] # Nothing
  /\ verdict' = [verdict EXCEPT ![b] = <<driver[b], cc1plus[b]>>]
  /\ UNCHANGED <<head, edits, configured, driver, cc1plus>>

Next ==
  \/ Edit
  \/ \E b \in Branches : Configure(b) \/ BuildAll(b) \/ BuildCc1plus(b) \/ Test(b)

Spec == Init /\ [][Next]_vars

-----------------------------------------------------------------------------

\* configure.sh:6, "One build tree per branch (build-master/, build-gcc-16/) so you can flip
\* between trunk and the release branch without reconfiguring": what a test of a branch ran
\* through was compiled from that branch.
TestedBranch ==
  \A b \in Branches : verdict[b][2] # Nothing => verdict[b][2].branch = b
=============================================================================
