--------------------------- MODULE MCFrameContent ---------------------------
(* FrameContent for TLC: times 0..4, the windows 1 and 2, orders of no, one  *)
(* and two rows, with rows on either side of every boundary.  The name "C"  *)
(* holds a conclusion.                                                       *)
EXTENDS FrameContent, TLC

Row(name, criteria, due, submitted, rejected, accepted) ==
  [name |-> name, criteria |-> criteria, stamped |-> TRUE, due |-> due,
   submitted |-> submitted, rejected |-> rejected, accepted |-> accepted]

Older(name) == [Row(name, TRUE, 1, None, None, None) EXCEPT !.stamped = FALSE]

Shapes(name) ==
  {Row(name, TRUE, 1, s, r, None) : s \in {None} \cup 0..3, r \in {None} \cup 1..3}
  \cup {Row(name, FALSE, 1, 1, None, a) : a \in 2..4}

Few(name) == {Row(name, TRUE, 1, 0, None, None), Row(name, FALSE, 2, 4, 3, None),
              Row(name, TRUE, 1, None, None, 3), Older(name)}

MCOrders ==
  {<<>>, <<Older("A")>>} \cup {<<r>> : r \in Shapes("A")}
  \cup {<<r, q>> : r \in Few("A"), q \in Few("A") \cup Few("B")}
  \cup {<<r>> : r \in Few("C")} \cup {<<r, q>> : r \in Few("A"), q \in Few("C")}

MCCalendars ==
  {c \in [paid : {1, 3, 4}, opened : 2..4] : c.paid <= c.opened}

MCAllegations ==
  {[claim |-> "non_delivery", form |-> "whole", value |-> 2],
   [claim |-> "non_delivery", form |-> "decimal", value |-> 1],
   [claim |-> "non_delivery", form |-> "words", value |-> 1],
   [claim |-> "other", form |-> "whole", value |-> 1]}
=============================================================================
