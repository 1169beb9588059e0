-------------------------- MODULE ReliableChannel --------------------------
(***************************************************************************)
(* What a connected pair of UDP sockets promises its two users: in each    *)
(* direction the payloads written come out once each and in the order they *)
(* were written.  How many are still under way is not limited.             *)
(***************************************************************************)
EXTENDS Naturals, Sequences

CONSTANTS Endpoint,   \* the two ends
          PeerOf,     \* the end at the other side
          Payload     \* what may be written

VARIABLES sent,       \* what was written, by the end that wrote it
          delivered   \* what was received, by the end that received it

vars == <<sent, delivered>>

Init ==
    /\ sent = [e \in Endpoint |-> <<>>]
    /\ delivered = [e \in Endpoint |-> <<>>]

\* The payload written is the last one of what was written then.
Write(e) ==
    /\ sent'[e] # <<>> /\ sent'[e][Len(sent'[e])] \in Payload
    /\ sent' = [sent EXCEPT ![e] = Append(@, sent'[e][Len(sent'[e])])]
    /\ UNCHANGED delivered

\* The next payload in the order of writing, never another one.
Receive(e) ==
    /\ Len(delivered[e]) < Len(sent[PeerOf[e]])
    /\ delivered' = [delivered EXCEPT
                        ![e] = Append(@, sent[PeerOf[e]][Len(@) + 1])]
    /\ UNCHANGED sent

Next == \E e \in Endpoint : Write(e) \/ Receive(e)

Spec == Init /\ [][Next]_vars
=============================================================================
