----------------------------- MODULE MCKnowledge -----------------------------
(* Uploads for Knowledge: accepted and refused ones, ones that cannot be    *)
(* written or whose profile cannot be stored, files and sheets whose        *)
(* names collide, and values that overlap by four or three fifths.          *)
EXTENDS Knowledge

Sheet(stem, frame) == [stem |-> stem, textHeaders |-> TRUE, frame |-> frame]
Csv(name, size, parses, frame) ==
  [name |-> name, writable |-> TRUE, kind |-> "csv", size |-> size, parses |-> parses,
   sheets |-> <<Sheet(name, frame)>>]
Workbook(name, sheets) ==
  [name |-> name, writable |-> TRUE, kind |-> "excel", size |-> 1, parses |-> TRUE,
   sheets |-> sheets]

MCSanitize == [n \in {"a", "b", "A", "s", "t", "book"} |-> IF n = "A" THEN "a" ELSE n]

MCOffers ==
  {<<Csv("a", 1, FALSE, {1})>>,
   <<Csv("a", 3, TRUE, {1})>>,
   <<Csv("a", 2, TRUE, {1}), Csv("b", 2, TRUE, {1})>>,
   <<Csv("a", 1, TRUE, {1}), Csv("b", 1, TRUE, {1}), Csv("s", 1, TRUE, {1})>>,
   <<[Csv("a", 1, TRUE, {1}) EXCEPT !.kind = "other"]>>,
   <<[Csv("a", 1, TRUE, {1}) EXCEPT !.writable = FALSE]>>,
   <<Csv("a", 1, TRUE, {}), Csv("b", 1, TRUE, {1})>>,
   <<Workbook("book", <<[Sheet("a", {1}) EXCEPT !.textHeaders = FALSE]>>)>>,
   <<Csv("a", 0, TRUE, {1, 2}), Csv("a", 1, TRUE, {3})>>,
   <<Workbook("book", <<Sheet("a", {1}), Sheet("b", {}), Sheet("s", 1 .. 5), Sheet("A", 2 .. 6),
                        Sheet("t", 3 .. 8)>>)>>}

=============================================================================
