----------------------------- MODULE PduChannel -----------------------------
(***************************************************************************)
(* What two ImConns at the ends of a TCP connection promise each other:    *)
(* PDUs are handled in the order they were sent, none twice, none left out *)
(* in the middle and none whose header is broken.  A close may cut the     *)
(* stream off, at any PDU, in each direction by itself.                    *)
(***************************************************************************)
EXTENDS Integers, Sequences

CONSTANTS
    Ends,   \* the two ends
    Peer,   \* Peer[e]: the other end
    Pdus    \* PDUs, records with the length that their header gives

VARIABLES
    sent,   \* sent[e]: the PDUs e sent
    got,    \* got[e]: the PDUs e handled
    shut    \* shut[e]: e has closed its end

chanVars == <<sent, got, shut>>

ChanInit ==
    /\ sent = [e \in Ends |-> <<>>]
    /\ got = [e \in Ends |-> <<>>]
    /\ shut = [e \in Ends |-> FALSE]

ChanSend(e) ==
    /\ ~shut[e]
    /\ \E p \in Pdus : sent' = [sent EXCEPT ![e] = Append(@, p)]
    /\ UNCHANGED <<got, shut>>

\* The next PDU of the peer is handled, unless its header is broken.
ChanHandle(e) ==
    LET n == Len(got[e]) + 1 IN
    /\ n <= Len(sent[Peer[e]])
    /\ sent[Peer[e]][n].len > 0
    /\ got' = [got EXCEPT ![e] = Append(@, sent[Peer[e]][n])]
    /\ UNCHANGED <<sent, shut>>

ChanClose(e) ==
    /\ ~shut[e]
    /\ shut' = [shut EXCEPT ![e] = TRUE]
    /\ UNCHANGED <<sent, got>>

ChanNext == \E e \in Ends : ChanSend(e) \/ ChanHandle(e) \/ ChanClose(e)

ChanSpec == ChanInit /\ [][ChanNext]_chanVars
=============================================================================
