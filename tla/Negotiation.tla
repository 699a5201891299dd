----------------------------- MODULE Negotiation -----------------------------
(***************************************************************************)
(* The negotiation of permessage-deflate                                   *)
(* (src/ws/lib/permessage-deflate.js, offer() and accept()): the client    *)
(* makes an offer of its options, the server picks the first of the offers *)
(* it can honour and answers with its own parameters, and the client takes *)
(* the answer or fails the handshake.  Pure functions: an option or a      *)
(* parameter is a number, and what throws an error is the empty set of     *)
(* results.                                                                *)
(***************************************************************************)
EXTENDS Naturals, Sequences

CONSTANT Window   \* the sizes of a window that options and peers ask for

ASSUME WindowAssumption == Window \subseteq 8..15

\* An option is undefined, true, false or a window size; a parameter of an offer or
\* an answer is absent, there without a value, or a window size.
Unset == 0
On    == 1
Off   == 2

Options ==
    [serverNoContextTakeover : {Unset, On, Off}, clientNoContextTakeover : {Unset, On, Off},
     serverMaxWindowBits : {Unset, On, Off} \cup Window,
     clientMaxWindowBits : {Unset, On, Off} \cup Window]

Params ==
    [serverNoContextTakeover : {Unset, On}, clientNoContextTakeover : {Unset, On},
     serverMaxWindowBits : {Unset, On} \cup Window,
     clientMaxWindowBits : {Unset, On} \cup Window]

IsNumber(v) == v > Off

\* offer(); a missing clientMaxWindowBits advertises support for any.
Offer(c) ==
    [serverNoContextTakeover |-> IF c.serverNoContextTakeover = On THEN On ELSE Unset,
     clientNoContextTakeover |-> IF c.clientNoContextTakeover = On THEN On ELSE Unset,
     serverMaxWindowBits |->
        IF c.serverMaxWindowBits = Off THEN Unset ELSE c.serverMaxWindowBits,
     clientMaxWindowBits |->
        CASE c.clientMaxWindowBits = Off -> Unset
          [] c.clientMaxWindowBits = Unset -> On
          [] OTHER -> c.clientMaxWindowBits]

\* normalizeParams(): a window without a size is an error, but for the client's
\* own in an offer.
WellFormed(p, isServer) ==
    /\ p.serverMaxWindowBits # On
    /\ p.clientMaxWindowBits = On => isServer

-----------------------------------------------------------------------------
\* The test of `offers.find` in acceptAsServer().
Honours(s, p) ==
    /\ s.serverNoContextTakeover = Off => p.serverNoContextTakeover = Unset
    /\ p.serverMaxWindowBits # Unset =>
         /\ s.serverMaxWindowBits # Off
         /\ IsNumber(s.serverMaxWindowBits) =>
                s.serverMaxWindowBits <= p.serverMaxWindowBits
    /\ IsNumber(s.clientMaxWindowBits) => p.clientMaxWindowBits # Unset

\* The rest of acceptAsServer(): the accepted offer, changed into the answer.
Answered(s, p) ==
    [serverNoContextTakeover |->
        IF s.serverNoContextTakeover = On THEN On ELSE p.serverNoContextTakeover,
     clientNoContextTakeover |->
        IF s.clientNoContextTakeover = On THEN On ELSE p.clientNoContextTakeover,
     serverMaxWindowBits |->
        IF IsNumber(s.serverMaxWindowBits) THEN s.serverMaxWindowBits
        ELSE p.serverMaxWindowBits,
     clientMaxWindowBits |->
        CASE IsNumber(s.clientMaxWindowBits) -> s.clientMaxWindowBits
          [] ~IsNumber(s.clientMaxWindowBits)
                /\ (p.clientMaxWindowBits = On \/ s.clientMaxWindowBits = Off) -> Unset
          [] OTHER -> p.clientMaxWindowBits]

\* accept() of a server: one malformed offer spoils them all.
AcceptAsServer(s, offers) ==
    IF \E i \in DOMAIN offers : ~WellFormed(offers[i], TRUE) THEN {}
    ELSE {Answered(s, offers[i]) : i \in
            {i \in DOMAIN offers : Honours(s, offers[i])
                                   /\ \A j \in 1..(i - 1) : ~Honours(s, offers[j])}}

\* The errors of accept() of a client.
Rejects(c, answer) ==
    \/ ~WellFormed(answer, FALSE)
    \/ c.clientNoContextTakeover = Off /\ answer.clientNoContextTakeover = On
    \/ /\ answer.clientMaxWindowBits # Unset
       /\ \/ c.clientMaxWindowBits = Off
          \/ /\ IsNumber(c.clientMaxWindowBits)
             /\ answer.clientMaxWindowBits > c.clientMaxWindowBits

\* accept() of a client; an answer without a size for its window leaves it its own.
AcceptAsClient(c, answer) ==
    IF Rejects(c, answer) THEN {}
    ELSE {[answer EXCEPT !.clientMaxWindowBits =
              IF @ = Unset /\ IsNumber(c.clientMaxWindowBits) THEN c.clientMaxWindowBits
              ELSE @]}

\* The window a zlib stream gets in _compress() and _decompress().
WindowBits(v) == IF IsNumber(v) THEN v ELSE 15

-----------------------------------------------------------------------------
(***************************************************************************)
(* Properties                                                              *)
(***************************************************************************)

\* The options of the two ends that cannot be reconciled.
Conflict(c, s) ==
    \/ c.serverMaxWindowBits = On
    \/ c.serverNoContextTakeover = On /\ s.serverNoContextTakeover = Off
    \/ IsNumber(c.serverMaxWindowBits) /\ s.serverMaxWindowBits = Off
    \/ IsNumber(c.serverMaxWindowBits) /\ s.serverMaxWindowBits > c.serverMaxWindowBits
    \/ IsNumber(s.clientMaxWindowBits) /\ c.clientMaxWindowBits = Off
    \/ IsNumber(c.clientMaxWindowBits) /\ s.clientMaxWindowBits > c.clientMaxWindowBits
    \/ s.clientNoContextTakeover = On /\ c.clientNoContextTakeover = Off

\* What both ends do with their messages fits: whoever compresses never refers
\* further back than the other remembers, and both forget together.
Fits(atClient, atServer) ==
    /\ atClient.serverNoContextTakeover = atServer.serverNoContextTakeover
    /\ atClient.clientNoContextTakeover = atServer.clientNoContextTakeover
    /\ WindowBits(atClient.clientMaxWindowBits) <= WindowBits(atServer.clientMaxWindowBits)
    /\ WindowBits(atServer.serverMaxWindowBits) <= WindowBits(atClient.serverMaxWindowBits)

\* No end is asked for more than its own options allow.
Kept(c, s, atClient, atServer) ==
    /\ c.serverNoContextTakeover = On => atServer.serverNoContextTakeover = On
    /\ s.clientNoContextTakeover = On => atClient.clientNoContextTakeover = On
    /\ IsNumber(c.serverMaxWindowBits) =>
          WindowBits(atServer.serverMaxWindowBits) <= c.serverMaxWindowBits
    /\ IsNumber(s.serverMaxWindowBits) =>
          WindowBits(atServer.serverMaxWindowBits) = s.serverMaxWindowBits
    /\ \A e \in {c, s} : IsNumber(e.clientMaxWindowBits) =>
          WindowBits(atClient.clientMaxWindowBits) <= e.clientMaxWindowBits
    /\ s.serverNoContextTakeover = Off => atServer.serverNoContextTakeover = Unset
    /\ c.clientNoContextTakeover = Off => atClient.clientNoContextTakeover = Unset

\* The outcome for the options of a client and a server that both run this code.
Agreement(c, s) ==
    LET answers == AcceptAsServer(s, <<Offer(c)>>)
    IN /\ Conflict(c, s) <=> \A r \in answers : AcceptAsClient(c, r) = {}
       /\ \A r \in answers : \A q \in AcceptAsClient(c, r) :
             Fits(q, r) /\ Kept(c, s, q, r)

\* Two ends that run this code agree exactly when their options do not conflict,
\* on parameters that fit each other and keep the options of both.
NegotiationAgrees == \A c \in Options, s \in Options : Agreement(c, s)
=============================================================================
