---------------------------- MODULE OrderedRuns -----------------------------
(***************************************************************************)
(* What a conversion relies on: the runs of a range are handed to `emit`   *)
(* one at a time, in ascending rank order, however many threads process    *)
(* them.                                                                   *)
(***************************************************************************)
EXTENDS Naturals, Sequences

CONSTANTS RunStart, RunEnd      (* the range of ranks, RunEnd excluded      *)

VARIABLE emitted                (* the ranks emitted so far                 *)

OrderedInit == emitted = <<>>

EmitNext ==
  /\ RunStart + Len(emitted) < RunEnd
  /\ emitted' = Append(emitted, RunStart + Len(emitted))

OrderedSpec == OrderedInit /\ [][EmitNext]_emitted

=============================================================================
