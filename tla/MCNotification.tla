--------------------------- MODULE MCNotification ---------------------------
(* Instances of Notification for TLC: one event. *)
EXTENDS Notification, TLC

CONSTANTS e1, NotifiedOn

SecondHandling == {<<e, 2, c>> : e \in Events, c \in NotifiedOn}
OneEvent == [e \in Events |-> NotifiedOn]
=============================================================================
