----------------------------- MODULE LedChannel -----------------------------
(***************************************************************************)
(* What the daemon and a remote promise together for one LED: the values   *)
(* that were set are shown in the order they were set, a value that has    *)
(* not left yet may give way to a newer one, and the last is never lost.   *)
(***************************************************************************)
EXTENDS Naturals, Sequences, SequencesExt

CONSTANT Values

VARIABLES
  wanted,  \* the value that was set last
  queue,   \* the values that are on their way, the oldest first
  shown    \* the value the LED has

Init == wanted = 0 /\ queue = <<>> /\ shown = 0

Set ==
  /\ UNCHANGED shown
  /\ wanted' \in Values
  /\ queue' \in {Append(q, wanted') : q \in {queue} \cup (IF queue = <<>> THEN {} ELSE {Front(queue)})}

Show ==
  /\ UNCHANGED wanted
  /\ queue # <<>>
  /\ <<shown'>> \o queue' = queue

Next == Set \/ Show

Spec == Init /\ [][Next]_<<wanted, queue, shown>>
=============================================================================
