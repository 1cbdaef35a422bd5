----------------------------- MODULE EventMirror -----------------------------
(***************************************************************************)
(* What the event master promises its clients: a client's copy of the      *)
(* master data is the state the data had at some time, and it only ever    *)
(* moves on to later states, by whole lists or by single changes.          *)
(***************************************************************************)
EXTENDS Integers

CONSTANT Mirror,   \* those that keep a copy
         Nothing   \* the copy of one that has not got any data yet

VARIABLES version, \* the master data, as the number of changes made so far
          view     \* the copies: a version, or Nothing

mirrorVars == <<version, view>>

MirrorInit == version = 0 /\ view = [m \in Mirror |-> Nothing]

ChangeData == version' = version + 1 /\ UNCHANGED view

\* A copy is brought to a later state.
Follow(m) ==
  /\ \E v \in 0..version :
       /\ view[m] = Nothing \/ view[m] <= v
       /\ view' = [view EXCEPT ![m] = v]
  /\ UNCHANGED version

\* The client ends; a new one has no data.
Forget(m) == view' = [view EXCEPT ![m] = Nothing] /\ UNCHANGED version

MirrorNext == ChangeData \/ \E m \in Mirror : Follow(m) \/ Forget(m)
MirrorSpec == MirrorInit /\ [][MirrorNext]_mirrorVars
=============================================================================
