----------------------------- MODULE Resolution -----------------------------
(***************************************************************************)
(* What ctx->resolving promises, and nothing of how the evaluator is       *)
(* written: definitions are resolved one inside the other, none inside     *)
(* itself; each resolution that has begun ends, innermost first, by a      *)
(* value or by the failure of the whole evaluation; and the evaluation     *)
(* returns only when none is under way.                                    *)
(***************************************************************************)
EXTENDS Naturals, Sequences, SequencesExt

VARIABLES
  chain,    \* the definitions being resolved, outermost first
  phase     \* "running", "failing" (unwinding after an error), "done", "failed"

absVars == <<chain, phase>>

AbsInit == chain = <<>> /\ phase = "running"

Begin(d) ==
  /\ phase = "running"
  /\ d \notin Range(chain)
  /\ chain' = Append(chain, d)
  /\ UNCHANGED phase

End ==
  /\ phase = "running"
  /\ chain # <<>>
  /\ chain' = Front(chain)
  /\ UNCHANGED phase

\* An error, in the innermost resolution or as it ends.
Break ==
  /\ phase = "running"
  /\ chain' \in {chain, Front(chain)}
  /\ phase' = "failing"

Drop ==
  /\ phase = "failing"
  /\ chain # <<>>
  /\ chain' = Front(chain)
  /\ UNCHANGED phase

Complete ==
  /\ chain = <<>>
  /\ phase \in {"running", "failing"}
  /\ phase' = IF phase = "running" THEN "done" ELSE "failed"
  /\ UNCHANGED chain

\* The definition that begins is whatever the next chain ends with.
AbsNext ==
  \/ chain' # <<>> /\ Begin(Last(chain'))
  \/ End
  \/ Break
  \/ Drop
  \/ Complete

AbsSpec == AbsInit /\ [][AbsNext]_absVars /\ <>(phase \in {"done", "failed"})
=============================================================================
