--------------------------- MODULE MCEvidenceStore ---------------------------
(* Small instances of EvidenceStore for TLC.                               *)
EXTENDS EvidenceStore

Key(source, order, ref) == [source |-> source, order |-> order, ref |-> ref]

\* Two customers, with a case each.
MCCustomerOf == [case \in {"case1", "case2"} |-> IF case = "case1" THEN "alice" ELSE "bob"]

\* Two payments for different orders, and the delivery of the first, which is disputed.
Payment1 == Key("payment", "o1", 1)
Payment2 == Key("payment", "o2", 2)
Delivery1 == Key("fulfillment_update", "o1", 1)
Contact1 == Key("contact_center_record", "o1", 1)

MCKeys == {Payment1, Payment2, Delivery1, Contact1}

MCSays ==
  [key \in MCKeys |->
     CASE key = Payment1  -> {"authorized", "captured"}
       [] key = Payment2  -> {"captured"}
       [] key = Delivery1 -> {"delivered", "lost_in_transit"}
       [] key = Contact1  -> {"item_not_received"}]

\* One payment that is delivered again and again.
MCOneKey == {Payment1}
MCOneSays == [key \in MCOneKey |-> {"authorized", "captured"}]
=============================================================================
