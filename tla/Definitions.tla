---------------------------- MODULE Definitions -----------------------------
(***************************************************************************)
(* Sequence definitions and the enrollments pinned to them                 *)
(* (services/sequencing/definitions.py, enrollments.py).  An edit that     *)
(* brings steps writes them under the next definition version; steps are   *)
(* never changed or deleted.  An edit reads the sequence, flushes (the     *)
(* UPDATE of the sequence first, which locks its row, then the steps, under *)
(* the unique version and order), and commits.  An enrollment takes the    *)
(* version it reads and the first step of that version.                    *)
(***************************************************************************)
EXTENDS Naturals, FiniteSets

CONSTANTS
  Editor,            \* edits that may be under way at once
  StepOrder,         \* the step orders a request may name
  DefinedEnrollment, \* enrollments
  MaxDefinition      \* bound on the definition version

ASSUME DefinitionsAssumption == StepOrder \subseteq Nat \ {0} /\ MaxDefinition \in Nat

VARIABLES
  sequences,     \* the sequence: its status and definition version
  steps,         \* the rows of sequence_steps: version and order
  edits,         \* edits under way
  pinned,        \* the enrollments: version and current step
  strayed        \* history: an edit flushed over a version it had not read

dvars == <<sequences, steps, edits, pinned, strayed>>

SequenceStatus == {"active", "paused", "archived"}
SequenceStep == [version : 1..MaxDefinition, order : StepOrder]
NoEdit == [stage |-> "none"]
NotEnrolled == [version |-> 0, step |-> 0]

DefinitionsInit ==
  /\ sequences = [status |-> "absent", version |-> 0]
  /\ steps = {}
  /\ edits = [e \in Editor |-> NoEdit]
  /\ pinned = [n \in DefinedEnrollment |-> NotEnrolled]
  /\ strayed = FALSE

StepsOf(version, orders) == {[version |-> version, order |-> o] : o \in orders}

\* At least one step; the key of the request makes a second call return the first's row.
create_sequence(orders) ==
  /\ sequences.status = "absent"
  /\ orders # {}
  /\ sequences' = [status |-> "active", version |-> 1]
  /\ steps' = StepsOf(1, orders)
  /\ UNCHANGED <<edits, pinned, strayed>>

\* archive_sequence, and an update without steps: one column of the row
SetSequence(status) ==
  /\ sequences.status # "absent"
  /\ \A e \in Editor : edits[e].stage # "flushed"
  /\ sequences' = [sequences EXCEPT !.status = status]
  /\ UNCHANGED <<steps, edits, pinned, strayed>>

\* update_sequence with steps: expected_version is checked against what was read, when the
\* request gives one, and the request may bring a status as well.
EditStarts(e, orders, expected, status) ==
  /\ edits[e] = NoEdit
  /\ sequences.status # "absent"
  /\ sequences.version < MaxDefinition
  /\ expected \in {0, sequences.version}
  /\ edits' = [edits EXCEPT ![e] = [stage |-> "read", seen |-> sequences.version,
                                    orders |-> orders, status |-> status]]
  /\ UNCHANGED <<sequences, steps, pinned, strayed>>

NextVersion(edit) == edit.seen + 1

\* The columns a request does not name keep what they have.
StatusAfter(edit) == IF edit.status = "unnamed" THEN sequences.status ELSE edit.status

NewSteps(e) == StepsOf(NextVersion(edits[e]), edits[e].orders)

\* Waits for the row while another edit has it; the unique key refuses an order already there.
EditFlushes(e) ==
  /\ edits[e].stage = "read"
  /\ \A o \in Editor : edits[o].stage # "flushed"
  /\ NewSteps(e) \cap steps = {}
  /\ edits' = [edits EXCEPT ![e].stage = "flushed"]
  /\ strayed' = (strayed \/ edits[e].seen # sequences.version)
  /\ UNCHANGED <<sequences, steps, pinned>>

EditRefused(e) ==
  /\ edits[e].stage = "read"
  /\ \A o \in Editor : edits[o].stage # "flushed"
  /\ NewSteps(e) \cap steps # {}
  /\ edits' = [edits EXCEPT ![e] = NoEdit]
  /\ UNCHANGED <<sequences, steps, pinned, strayed>>

EditCommits(e) ==
  /\ edits[e].stage = "flushed"
  /\ sequences' = [status |-> StatusAfter(edits[e]), version |-> NextVersion(edits[e])]
  /\ steps' = steps \cup NewSteps(e)
  /\ edits' = [edits EXCEPT ![e] = NoEdit]
  /\ UNCHANGED <<pinned, strayed>>

\* Mutant: the steps of every version are taken for those of this one.
_sequence_steps_any(version) == {s.order : s \in steps}

\* The active steps of a version
_sequence_steps(version) == {s.order : s \in {t \in steps : t.version = version}}

\* The first of the orders, if there is one
First(orders) == {o \in orders : \A p \in orders : o <= p}

EnrollPinned(n) ==
  /\ pinned[n] = NotEnrolled
  /\ sequences.status = "active"
  /\ \E o \in First(_sequence_steps(sequences.version)) :
       pinned' = [pinned EXCEPT ![n] = [version |-> sequences.version, step |-> o]]
  /\ UNCHANGED <<sequences, steps, edits, strayed>>

\* _advance_enrollment: the next step of the version the enrollment has
Later(row) == {o \in _sequence_steps(row.version) : o > row.step}

AdvancePinned(n) ==
  /\ pinned[n] # NotEnrolled
  /\ \E o \in First(Later(pinned[n])) :
       pinned' = [pinned EXCEPT ![n] = [version |-> @.version, step |-> o]]
  /\ UNCHANGED <<sequences, steps, edits, strayed>>

DefinitionsNext ==
  \/ \E orders \in SUBSET StepOrder : create_sequence(orders)
  \/ \E status \in SequenceStatus : SetSequence(status)
  \/ \E e \in Editor :
       \/ \E orders \in SUBSET StepOrder, expected \in 0..MaxDefinition,
             status \in SequenceStatus \cup {"unnamed"} : EditStarts(e, orders, expected, status)
       \/ EditFlushes(e) \/ EditRefused(e) \/ EditCommits(e)
  \/ \E n \in DefinedEnrollment : EnrollPinned(n) \/ AdvancePinned(n)

DefinitionsSpec == DefinitionsInit /\ [][DefinitionsNext]_dvars
-----------------------------------------------------------------------------
\* An enrollment stands at a step of the version it was pinned to, through all edits: its
\* next activity is of the definition that was approved (enrollments.py:78-79).
StandsOnOwnVersion ==
  \A n \in DefinedEnrollment : pinned[n] # NotEnrolled =>
    [version |-> pinned[n].version, order |-> pinned[n].step] \in steps

\* The steps of a version someone is enrolled in never change, as long as no edit was written
\* over one it had not read: only overlapping edits can put their steps into the same version,
\* when their orders happen to be disjoint (definitions.py:149-170).
EnrolledVersionIsFrozen ==
  [][\A n \in DefinedEnrollment : pinned[n] # NotEnrolled /\ ~strayed' =>
       {s \in steps' : s.version = pinned[n].version}
         = {s \in steps : s.version = pinned[n].version}]_dvars
=============================================================================
