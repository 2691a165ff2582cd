------------------------------- MODULE NvStore -------------------------------
(* What the wear-levelled NV region promises its callers: parameters that     *)
(* change only when a thread saves them, all other parameters staying as they *)
(* are (xy_flash.h:144), and that come back after a reset or a power loss,    *)
(* at worst without the save that was under way.                              *)
EXTENDS Naturals

CONSTANTS Field, Val, Default, Thread

VARIABLES store,   \* the parameters as the flash holds them
          ram,     \* the parameters as the running system sees them
          pend,    \* the fields each thread is saving
          up       \* the system has started

vars == << store, ram, pend, up >>

NoPend == [t \in Thread |-> {}]

Merge(S) == [f \in Field |-> IF f \in S THEN ram[f] ELSE store[f]]

Init == store = Default /\ ram = Default /\ pend = NoPend /\ up = FALSE

\* A thread changes fields in RAM and starts to save them.
Begin(t, S) ==
  /\ up /\ pend[t] = {} /\ S # {}
  /\ pend' = [pend EXCEPT ![t] = S]
  /\ \E new \in [Field -> Val] :
       ram' = [f \in Field |-> IF f \in S THEN new[f] ELSE ram[f]]
  /\ UNCHANGED << store, up >>

\* The fields of t are saved, and no others change; t may have more to save.
Commit(t, rest) ==
  /\ up /\ pend[t] # {}
  /\ store' = Merge(pend[t])
  /\ pend' = [pend EXCEPT ![t] = rest]
  /\ UNCHANGED << ram, up >>

\* Reset or power loss: a save is done, or it never happened.
Crash ==
  /\ up' = FALSE
  /\ pend' = NoPend
  /\ store' \in {store} \cup {Merge(pend[t]) : t \in Thread}
  /\ UNCHANGED ram

\* nv_restore: the running system starts from what was saved.
Restart ==
  /\ ~ up
  /\ up' = TRUE
  /\ ram' = store
  /\ UNCHANGED << store, pend >>

Next == \/ \E t \in Thread, S \in SUBSET Field : Begin(t, S) \/ Commit(t, S)
        \/ Crash \/ Restart

Spec == Init /\ [][Next]_vars
=============================================================================
