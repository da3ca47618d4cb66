--------------------------- MODULE RecoveryCatalog ---------------------------
(***************************************************************************)
(* engine/recovery_catalog.py and the choice nba_engine makes from it:     *)
(* which remedies a hypothesis category offers, what each costs and        *)
(* whether a human has to approve it.                                      *)
(*                                                                         *)
(* Money is in cents.  The code rounds a binary float to two digits; an    *)
(* exact half cent, which the float rounds either way, is rounded up here. *)
(***************************************************************************)
EXTENDS Enums, Sequences

CONSTANT Threshold    \* settings.high_value_approval_threshold_usd, in cents

\* Positive: the apology costs nothing and is never gated.
ASSUME ThresholdAssumption == Threshold \in Nat \ {0}

OptionCodes ==
  {"apology_status_update", "reverse_duplicate_charge", "expedited_reshipment",
   "full_refund", "replacement_order", "goodwill_credit", "issue_outstanding_refund",
   "price_adjustment", "reroute_or_reattempt_delivery", "manual_reconciliation_credit",
   "exceptional_remedy"}

ApproverRoles == {"supervisor", "finance_approver"}

RecoveryOption ==
  [code : OptionCodes, cost : Nat, gated : BOOLEAN, role : ApproverRoles \cup {"none"}]

\* round(exposure * percent / 100, 2)
Share(exposure, percent) == (exposure * percent + 50) \div 100

AtMost(cap, amount) == IF amount < cap THEN amount ELSE cap

\* A remedy whose gate depends on what it costs.
Priced(code, cost, role) ==
  [code |-> code, cost |-> cost, gated |-> cost >= Threshold, role |-> role]

\* The delivery remedy: its builder passes requires_approval = False.
Ungated(code, cost) ==
  [code |-> code, cost |-> cost, gated |-> FALSE, role |-> "none"]

Apology == Ungated("apology_status_update", 0)

Exceptional ==
  [code |-> "exceptional_remedy", cost |-> 0, gated |-> TRUE, role |-> "supervisor"]

\* _CATEGORY_OPTIONS, primary remedy first.
CategoryOptions(category, exposure) ==
  CASE category = "duplicate_charge" ->
         << Priced("reverse_duplicate_charge", exposure, "finance_approver") >>
    [] category = "order_confirmed_fulfillment_never_started" ->
         << Priced("expedited_reshipment", Share(exposure, 30), "supervisor"),
            Priced("full_refund", exposure, "finance_approver") >>
    [] category = "fulfillment_shows_delivered_customer_disputes_receipt" ->
         << Priced("replacement_order", exposure, "supervisor"),
            Priced("goodwill_credit", AtMost(2500, Share(exposure, 10)), "supervisor") >>
    [] category = "return_received_refund_not_issued" ->
         << Priced("issue_outstanding_refund", exposure, "finance_approver") >>
    [] category = "promised_promotion_or_price_not_honored" ->
         << Priced("price_adjustment", exposure, "supervisor") >>
    [] category = "wrong_address_or_failed_delivery_attempt" ->
         << Ungated("reroute_or_reattempt_delivery", Share(exposure, 15)),
            Priced("full_refund", exposure, "finance_approver") >>
    [] category = "in_store_and_online_order_conflict" ->
         << Priced("manual_reconciliation_credit", Share(exposure, 20), "supervisor") >>
    [] OTHER -> << >>

RankRecoveryOptions(category, exposure) ==
  << Apology >> \o CategoryOptions(category, exposure) \o << Exceptional >>

(***************************************************************************)
(* nba_engine, branch 5: the first option that is neither the apology nor  *)
(* rejected, else the first option that is not rejected.                   *)
(***************************************************************************)
Remaining(options, rejected) ==
  {i \in DOMAIN options : options[i].code \notin rejected}

Substantive(options, rejected) ==
  {i \in Remaining(options, rejected) : options[i].code # "apology_status_update"}

IsChosen(options, rejected, i) ==
  LET candidates == IF Substantive(options, rejected) # {}
                    THEN Substantive(options, rejected)
                    ELSE Remaining(options, rejected)
  IN  /\ i \in candidates
      /\ \A j \in candidates : i <= j
=============================================================================
