------------------------------- MODULE Inquiry -------------------------------
(***************************************************************************)
(* Behaviours about one subject.  When it is a topic, one question is      *)
(* asked: a choice of arguments for operations without a state of their    *)
(* own.                                                                    *)
(***************************************************************************)

CONSTANTS
    Topics,               \* what questions may be about
    Questions(_)          \* the questions on a topic

VARIABLES subject, probe

Ask ==
    /\ subject \in Topics /\ probe = <<>>
    /\ \E question \in Questions(subject) : probe' = question
    /\ UNCHANGED subject

Inquiring == probe = <<>> /\ [][Ask]_<<subject, probe>>

Asked(topic) == subject = topic /\ probe # <<>>
==============================================================================
