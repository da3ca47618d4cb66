--------------------------- MODULE MCCasePipeline ---------------------------
(* Small instances of CasePipeline for TLC.                                *)
EXTENDS CasePipeline

Diagnosis(category, confidence) == [category |-> category, confidence |-> confidence]

\* A remedy for finance to approve, and a systemic-prone one below the action threshold
\* whose remedies cost a share of the exposure.
MCDiagnoses ==
  { Diagnosis("duplicate_charge", 70),
    Diagnosis("order_confirmed_fulfillment_never_started", 50) }

\* One diagnosis, below the action threshold as long as a flag is open.
MCOneDiagnosis == { Diagnosis("duplicate_charge", 55) }
=============================================================================
