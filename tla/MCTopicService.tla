---------------------------- MODULE MCTopicService ----------------------------
(* Instances of TopicService for TLC. *)
EXTENDS TopicService, TLC

CONSTANTS q1, q2, t1, t2, t3, n1, n2, d1, d2

\* A new name, a new description, both off and on, and a text with a switch.
SomePatches == {[name |-> n2], [text |-> d2], [active |-> FALSE], [active |-> TRUE],
                [text |-> d1, active |-> TRUE]}

SomeChannels == {{"email"}, {"sms"}}

Symmetry == Permutations({q1, q2})
=============================================================================
