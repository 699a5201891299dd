--------------------------- MODULE MCConnectTunnel ---------------------------
(***************************************************************************)
(* A preface of three letters.  The clients: TLS, HTTP/2, two words that   *)
(* begin like the preface, one that does not; alone or behind a CONNECT    *)
(* request, in chunks cut anywhere.                                        *)
(***************************************************************************)
EXTENDS ConnectTunnel

MCPreface == <<"P", "R", "I">>

Words == {<<"T", "x">>, <<"P", "R", "I", "x">>, <<"P", "x">>, <<"P", "R", "x", "x">>,
          <<"x", "P", "R">>}

MCStreams == Words \cup {<<"C">> \o word : word \in Words}
=============================================================================
