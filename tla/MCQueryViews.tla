---------------------------- MODULE MCQueryViews ----------------------------
(* Two organisations and two subjects.  Two choices of an organisation in this  *)
(* tab, one in another, a read of the session and a form where the page or the  *)
(* session matters; one choice, and only the read that the other tab's choice   *)
(* leads to, for the charts, whose answers may be old; none for the views that  *)
(* do not look at the organisation.                                             *)
EXTENDS QueryViews

MCBudget == [s \in Screens |->
    CASE s = "forms" -> [picks |-> 2, others |-> 1, reads |-> 1, writes |-> 1]
      [] s = "audit" -> [picks |-> 2, others |-> 1, reads |-> 1, writes |-> 0]
      [] s = "charts" -> [picks |-> 1, others |-> 1, reads |-> 0, writes |-> 0]
      [] OTHER -> [picks |-> 0, others |-> 0, reads |-> 0, writes |-> 0]]
=============================================================================
