--------------------------- MODULE MCEdgeRequest ---------------------------
(* Every header of up to three tokens with one plain request; every pair   *)
(* of a 200's and a 304's header of some kinds; and every range, coding    *)
(* and Accept-Encoding with a few files under two headers.                 *)
EXTENDS EdgeRequest

Tokens == {[key |-> k, value |-> v] : k \in {"max_age", "s_maxage"}, v \in {0, 1, 2, None}}
          \cup {[key |-> "stale_while_revalidate", value |-> v] : v \in {1, None}}
          \cup {[key |-> "stale_if_error", value |-> 1]}
          \cup {[key |-> k, value |-> None] : k \in {"no_cache", "no_store", "private", "must_revalidate", "public"}}
Headers == UNION {[1..n -> Tokens] : n \in 0..3}

Window1 == [key |-> "stale_while_revalidate", value |-> 1]
Flag(k) == [key |-> k, value |-> None]
Refreshing == {<<>>, <<[key |-> "max_age", value |-> 2]>>, <<Window1>>, <<Flag("no_cache")>>,
               <<Flag("no_cache"), Window1>>, <<Flag("no_store")>>, <<Flag("private"), Window1>>}

Bytes(s, e) == [start |-> s, end |-> e]
Bounds == {None, 0, 1, 3, 5}
Ranges == {<<>>, <<Bytes(1, 2), Bytes(None, None)>>, <<Bytes(1, 2), Bytes(0, 0)>>}
          \cup {<<Bytes(s, e)>> : s \in Bounds, e \in Bounds}
Accepts == {<<{}, {}>>, <<{"gzip"}, {}>>, <<{"gzip"}, {"gzip"}>>, <<{"br", "deflate"}, {"br"}>>,
            <<{"deflate", "identity"}, {}>>}

MCInputs ==
    {[header |-> h, header304 |-> <<>>, etag |-> FALSE, found |-> TRUE, size |-> 3, coding |-> None,
      compressible |-> TRUE, range |-> <<>>, accept |-> {"gzip"}, refused |-> {}] : h \in Headers}
    \cup
    {[header |-> h, header304 |-> g, etag |-> TRUE, found |-> TRUE, size |-> 3, coding |-> None,
      compressible |-> TRUE, range |-> r, accept |-> {"gzip"}, refused |-> {}] :
        h \in Refreshing, g \in Refreshing, r \in {<<>>, <<Bytes(1, None)>>}}
    \cup
    {[header |-> h, header304 |-> <<>>, etag |-> t, found |-> f, size |-> n, coding |-> c,
      compressible |-> TRUE, range |-> r, accept |-> a[1], refused |-> a[2]] :
        h \in {<<>>, <<Window1>>}, f \in BOOLEAN, t \in {FALSE}, c \in {None, "gzip"},
        n \in {0, 1, 2, 4}, r \in Ranges, a \in Accepts}
    \cup
    {[header |-> <<>>, header304 |-> <<>>, etag |-> TRUE, found |-> TRUE, size |-> n, coding |-> None,
      compressible |-> FALSE, range |-> r, accept |-> a[1], refused |-> a[2]] :
        n \in {1, 4}, r \in {<<>>, <<Bytes(1, 3)>>}, a \in Accepts}

Packed(n) == 1 + n \div 2
=============================================================================
