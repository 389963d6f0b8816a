----------------------------- MODULE InboxQueue -----------------------------
(***************************************************************************)
(* What a session's inbox does for the two sides that share it             *)
(* (src/src/services/relay/inbox.py): the intake puts records behind those *)
(* that wait, relay_receive calls take those in front into their hands and *)
(* deliver them. A client that dies drops what it has in hand. A write     *)
(* that is cut short costs at most the next record put. A death can leave  *)
(* a position that no longer belongs to the queue (doubtful): once, all    *)
(* that waits may then be skipped. Nothing else ever happens to a record.  *)
(***************************************************************************)
EXTENDS Naturals

CONSTANTS Records, Clients

VARIABLES
    queue,   \* records put and not yet taken, each with its place: <<place, record>>
    hand,    \* what each client has taken and not delivered
    taken,   \* records handed to the session
    damaged, \* a write was cut short, and nothing was put since
    doubtful \* the position the next client starts from may not be the queue's

qvars == <<queue, hand, taken, damaged, doubtful>>

Empty == [c \in Clients |-> {}]

Init == queue = {} /\ hand = Empty /\ taken = {} /\ ~damaged /\ ~doubtful

Before(S, T) == \A p \in S, q \in T : p[1] < q[1]

Put ==
    /\ ~damaged
    /\ \E p \in queue' :
        /\ queue' = queue \union {p} /\ Before(queue, {p})
        /\ p[2] \in Records
    /\ UNCHANGED <<hand, taken, damaged, doubtful>>

Damage == damaged' = TRUE /\ UNCHANGED <<queue, hand, taken, doubtful>>

\* The record put after a damage shares its line and is lost with it.
Lose == damaged /\ damaged' = FALSE /\ UNCHANGED <<queue, hand, taken, doubtful>>

Take(c) ==
    /\ hand[c] = {}
    /\ queue' \subseteq queue /\ Before(queue \ queue', queue')
    /\ hand' = [hand EXCEPT ![c] = {p[2] : p \in queue \ queue'}]
    /\ doubtful' = FALSE
    /\ UNCHANGED <<taken, damaged>>

Deliver(c) ==
    /\ taken' = taken \union hand[c]
    /\ hand' = [hand EXCEPT ![c] = {}]
    /\ UNCHANGED <<queue, damaged, doubtful>>

\* The clients die. The position is in doubt only if one had just emptied the queue.
Drop ==
    /\ hand' = Empty
    /\ doubtful' = doubtful \/ (queue = {} /\ ~damaged /\ doubtful' = TRUE)
    /\ UNCHANGED <<queue, taken, damaged>>

\* A write makes the position in doubt one inside the queue, behind all that waits.
Skip ==
    /\ doubtful /\ doubtful' = FALSE
    /\ queue' = {}
    /\ damaged' \in BOOLEAN
    /\ UNCHANGED <<hand, taken>>

Next == Put \/ Damage \/ Lose \/ (\E c \in Clients : Take(c) \/ Deliver(c)) \/ Drop \/ Skip

Spec == Init /\ [][Next]_qvars
=============================================================================
