---------------------------- MODULE MCChainForm ----------------------------
(* A small instance of ChainForm for TLC: a token transfer on the second of *)
(* two chains whose hashes look alike, and on Tron a transaction that no    *)
(* address receives.                                                        *)
EXTENDS ChainForm, TLC

EthereumPolygonTron == <<"ethereum", "polygon", "tron">>
Where == ("swap" :> "polygon") @@ ("send" :> "tron")
Links2 == {NoLink, Junk, Hash("swap"), Page("send")}
Moves == ("swap" :> "USDT") @@ ("send" :> NoToken)
=============================================================================
