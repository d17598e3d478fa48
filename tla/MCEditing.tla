----------------------------- MODULE MCEditing -----------------------------
(* Forms for checking Editing: acceptable ones of both modes, and ones that  *)
(* only one of the checks refuses.                                           *)
EXTENDS Editing

Prize(stock, perRound) == [stock |-> stock, perRound |-> perRound, isAll |-> FALSE]
Form(mode, roster, ps) == [ok |-> TRUE, mode |-> mode, roster |-> roster,
                               start |-> 1, end |-> 2, prizes |-> ps]

MCInputs ==
  {Form("live", "", <<Prize(1, 0)>>),                  \* the batch size defaults to 1
   Form("live", "import", <<Prize(2, 2), Prize(1, 1)>>),
   Form("scheduled", "both", <<Prize(1, 2)>>),         \* would be refused for live
   Form("live", "both", <<Prize(1, 2)>>),              \* refused: batch beyond stock
   Form("live", "register", <<>>),                     \* refused: no prizes
   [Form("live", "both", <<Prize(1, 1)>>) EXCEPT !.end = 1]}
=============================================================================
