--------------------------- MODULE MCInvestigation ---------------------------
(* Small instances of Investigation for TLC.                               *)
EXTENDS Investigation

\* Two payments, one of which is corrected, and the delivery that should follow them, disputed.
MCFacts == {"pay1", "pay2", "ful", "con"}
MCSourceOf ==
  [f \in MCFacts |-> CASE f = "ful" -> "fulfillment_update"
                       [] f = "con" -> "contact_center_record"
                       [] OTHER     -> "payment"]
MCMaxVersions == [f \in MCFacts |-> IF f = "pay1" THEN 2 ELSE 1]

Proposes(category, supports, weakens, twice) ==
  [category |-> category, supports |-> supports, weakens |-> weakens, twice |-> twice]

\* No hypothesis, or two that compete, of which one names its record twice.  The rules propose
\* two of one category, which are merged, when both payments are overdue.
MCAnswers ==
  {{},
   {Proposes("another", {"pay1"}, {}, TRUE),
    Proposes("duplicate_charge", {"pay1", "pay2"}, {"ful", "con"}, FALSE)}}
=============================================================================
