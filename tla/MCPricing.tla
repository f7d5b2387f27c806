----------------------------- MODULE MCPricing ------------------------------
(* Three terms in two sessions, a class with a level and one without, a new  *)
(* student and three kinds of fees, for TLC.                                 *)
EXTENDS Pricing, TLC

MCCategory == {"tuition", "form", "party"}
Fee(compulsory, cycle) == [compulsory |-> compulsory, cycle |-> cycle]
MCCategory0 == [c \in MCCategory |->
                  Fee(TRUE, IF c = "form" THEN "ONE_TIME" ELSE "PER_TERM")]
MCCategoryForm == {Fee(TRUE, "ONE_TIME"), Fee(FALSE, "PER_TERM")}

MCClass == {"jss1", "creche"}
MCLevelOf == [k \in MCClass |-> IF k = "jss1" THEN "JSS" ELSE ""]
MCPlace0 == [s \in {"ada"} |-> [class |-> "jss1", session |-> 1]]
MCSessionOf == <<1, 1, 2>>
MCDay == {1, 2}

School(cat, term, type, amount, days) ==
  [scope |-> "SCHOOL_WIDE", class |-> NoClass, level |-> "", term |-> term,
   cat |-> cat, type |-> type, amount |-> amount, days |-> days]
For(class, level, price0) ==
  [price0 EXCEPT !.class = class, !.level = level,
                 !.scope = IF level = "" THEN "CLASS" ELSE "LEVEL"]

MCTable0 ==
  {<<School("tuition", 1, "ALL", 1, MCDay), School("form", 0, "ALL", 1, MCDay),
     School("party", 0, "RETURNING", 1, {2})>>}

MCForm ==
  {School("tuition", 1, "ALL", 2, MCDay),
   For("creche", "", School("party", 0, "NEW", 1, MCDay))}

MCTarget == {[scope |-> "LEVEL", class |-> NoClass, level |-> "JSS"]}

Symmetry == Permutations(Worker)

=============================================================================
