------------------------------ MODULE MaskOnce ------------------------------
(***************************************************************************)
(* What dbmask promises of a database copy: once a run has begun, sets of  *)
(* original rows are masked, every one under the run's key (its config and *)
(* secret), until none is left; then the copy is masked for good.  No row  *)
(* is ever masked twice and nothing is reported masked that is not.        *)
(***************************************************************************)
CONSTANTS Rows,      (* the rows that have a column to mask     *)
          Keys,      (* pairs of a config hash and a secret     *)
          Original   (* the content of a row nobody has masked  *)

VARIABLES content,   (* Original, or the key a row was masked with *)
          phase,     (* "fresh", "masking" or "masked"             *)
          key        (* the key of the run, once it has begun      *)

promise == <<content, phase, key>>

Fresh == {x \in Rows : content[x] = Original}

Init == /\ content = [x \in Rows |-> Original]
        /\ phase = "fresh"
        /\ key = Original

Begin == /\ phase = "fresh"
         /\ phase' = "masking"
         /\ key' \in Keys
         /\ UNCHANGED content

MaskRows == /\ phase = "masking"
            /\ \E batch \in (SUBSET Fresh) \ {{}} :
                 content' = [x \in Rows |-> IF x \in batch THEN key ELSE content[x]]
            /\ UNCHANGED <<phase, key>>

Complete == /\ phase = "masking"
            /\ Fresh = {}
            /\ phase' = "masked"
            /\ UNCHANGED <<content, key>>

Next == Begin \/ MaskRows \/ Complete

Spec == Init /\ [][Next]_promise
=============================================================================
