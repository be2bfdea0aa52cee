----------------------------- MODULE Broadcast -----------------------------
(***************************************************************************)
(* What the message-queue chat promises: one order of messages for all.    *)
(* A member is shown the messages published after it joined, each once and *)
(* in that one order.                                                      *)
(***************************************************************************)
EXTENDS Naturals, Sequences

CONSTANTS Members, Texts

VARIABLES
    log,      \* the messages published, in order
    joined,   \* for each member who joined, how many were published before
    shown     \* the messages each member was shown

vars == <<log, joined, shown>>

Init ==
    /\ log = <<>>
    /\ joined = <<>>
    /\ shown = [c \in Members |-> <<>>]

Publish ==
    /\ \E m \in Texts : log' = Append(log, m)
    /\ UNCHANGED <<joined, shown>>

Join(c) ==
    /\ c \notin DOMAIN joined
    /\ joined' = [d \in DOMAIN joined \cup {c} |-> IF d = c THEN Len(log) ELSE joined[d]]
    /\ UNCHANGED <<log, shown>>

Show(c) ==
    /\ c \in DOMAIN joined
    /\ joined[c] + Len(shown[c]) < Len(log)
    /\ shown' = [shown EXCEPT ![c] = Append(@, log[joined[c] + Len(@) + 1])]
    /\ UNCHANGED <<log, joined>>

Next == Publish \/ \E c \in Members : Join(c) \/ Show(c)

Spec == Init /\ [][Next]_vars
=============================================================================
