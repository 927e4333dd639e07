------------------------------- MODULE MCBroker -------------------------------
(* Instances of Broker for TLC.  Process names start with the letter of     *)
(* their ID.                                                                *)
EXTENDS BrokerRefinement

Sub(t, sf) == [kind |-> "subscribe", topic |-> t, SF |-> sf]
Unsub(t) == [kind |-> "unsubscribe", topic |-> t, SF |-> 0]

ProcIds == [a1 |-> "A", a2 |-> "A", a3 |-> "A", b |-> "B", c |-> "C"]
MCIdOf == [p \in Procs |-> ProcIds[p]]

(* "news" occurs in "newsletter" and in no other name. *)
MCSubstring == {<<t, t>> : t \in Topics} \cup ({<<"news", "newsletter">>}
                                                  \cap (Topics \X Topics))

One == [p \in Procs |-> 1]
Two == [p \in Procs |-> 2]
FirstOnly == [p \in Procs |-> IF p = "a1" THEN 1 ELSE 0]
None == [p \in Procs |-> 0]
FirstAndB == [p \in Procs |-> IF p \in {"a1", "b"} THEN 1 ELSE 0]

NoOrder == [p \in Procs |-> {}]
InTurn == [p \in Procs |-> CASE p = "a2" -> {"a1"} [] p = "a3" -> {"a1", "a2"} [] OTHER -> {}]

ZeroFill == [k \in 1 .. MaxTopics |-> 0]
DirtyFill == [k \in 1 .. MaxTopics |-> k - 1]   \* the first slot alone is clean

NewsAndSport == {Sub("news", 0), Sub("sport", 1), Unsub("news")}
StoreNews == {Sub("news", 1)}
NewsOrSport == {Sub("news", 1), Sub("sport", 0)}
SubUnsubNews == {Sub("news", 1), Unsub("news")}
=============================================================================
