--------------------------- MODULE OrderedStream ----------------------------
(***************************************************************************)
(* What a RIST flow promises the two applications: payloads come out in    *)
(* the order they went in, none twice and none that was not sent, and a    *)
(* payload that does not follow its predecessor says so.                   *)
(***************************************************************************)
EXTENDS Naturals, Sequences

VARIABLES
  pushed,   \* payloads 1 .. pushed have been handed to the sender
  out       \* what the receiver has handed out, oldest first

Init == pushed = 0 /\ out = <<>>

Last == IF out = <<>> THEN 0 ELSE out[Len(out)].payload

Push == pushed' = pushed + 1 /\ UNCHANGED out

\* Any later payload may be next, the ones between are lost.  A receiver may
\* join late, so the first payload need not be payload 1.
Deliver ==
  \E x \in Last + 1 .. pushed, flag \in BOOLEAN :
    /\ out # <<>> => flag = (x # Last + 1)
    /\ out' = Append(out, [payload |-> x, discontinuity |-> flag])
    /\ UNCHANGED pushed

Next == Push \/ Deliver

Spec == Init /\ [][Next]_<<pushed, out>>

=============================================================================
