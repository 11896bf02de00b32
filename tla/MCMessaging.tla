---- MODULE MCMessaging ----
(* LeadFlow, and with it Messaging, on a small instance. *)
EXTENDS LeadFlow

MCSaleLimit == [l \in Leads |-> 1]
====
