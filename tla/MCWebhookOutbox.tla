--------------------------- MODULE MCWebhookOutbox ---------------------------
(* Instance of WebhookOutbox for model checking.                           *)
EXTENDS WebhookOutbox, TLC


MCSubscribers == [v \in Events |-> Endpoints]
MCSchedule == <<1>>
Symmetry == Permutations(Workers) \cup Permutations(Events)
=============================================================================
