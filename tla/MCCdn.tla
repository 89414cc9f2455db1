------------------------------- MODULE MCCdn -------------------------------
(* One edge behind a shield, one file in two variants (browsers and httpx  *)
(* send different Accept-Encodings); the shield stands first in the        *)
(* management API's list.                                                  *)
EXTENDS Cdn

MCPaths == {<<"img/", "a">>}
MCUpstream == [n \in Nodes |-> IF n = "shield" THEN Origin ELSE "shield"]
MCEdgeUrls == <<"shield", "edge">>

ByKey == {[by |-> "prefix", text |-> <<"GET:", "img/">>],
          [by |-> "url", text |-> Key(<<"img/", "a">>, HttpxDefault)]}
ByUrl == {[by |-> "url", text |-> <<"/files/", "img/", "a">>]}
=============================================================================
