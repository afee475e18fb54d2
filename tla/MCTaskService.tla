---------------------------- MODULE MCTaskService ----------------------------
(* Instances of TaskService small enough for TLC.                           *)
EXTENDS TaskService, TLC

Symmetry == Permutations(Procs)

Alias == [now |-> now, row |-> row, events |-> events, boot |-> boot, scan |-> scan,
          append |-> append, exec |-> exec, acked |-> acked]
=============================================================================
