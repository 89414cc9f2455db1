---------------------------- MODULE EdgeRequest ----------------------------
(***************************************************************************)
(* What one client sees of one file through an edge: the parsing of the    *)
(* upstream's Cache-Control (infrastructure/cache_control.py), the         *)
(* lifetime it gives the entry, byte ranges (domain/value_objects.py,      *)
(* CacheService.handle_range_request) and compression                      *)
(* (infrastructure/compression.py) in the edge's serve_file route, beside  *)
(* the answer the origin's own route would give.                           *)
(*                                                                         *)
(* The client repeats its request while time passes; the file does not     *)
(* change (CacheService has changing content).  The upstream answers in    *)
(* full, or 304 to a request that carries the entry's etag: the origin's   *)
(* route does the second, a shield the first.  Of the header fields the    *)
(* model has those that describe the body, and Cache-Control.  httpx       *)
(* decodes a coded body and hands its fields on as they were, in lower     *)
(* case; what the edge adds in title case stands beside them in its        *)
(* dictionary, and Starlette sends both.                                   *)
(*                                                                         *)
(* The specification has names of its own, because the proofs stand beside *)
(* those of EdgeApp.  A definition just before the one it resembles is a   *)
(* mutant of it.                                                           *)
(***************************************************************************)
EXTENDS Integers, Sequences, FiniteSetsExt

CONSTANTS
    Inputs,         \* the cases: [header, header304, etag, found, size, coding,
                    \*  compressible, range, accept, refused]
    DefaultTTL,     \* config.default_ttl
    MinCompress,    \* _MIN_COMPRESS_SIZE
    HasBrotli,      \* _HAS_BROTLI
    PackedLength(_),\* length of a coded body, from that of the content
    MaxClock,       \* bound: last tick of the clock
    None            \* None; the value of a directive without a number

Token == [key : STRING, value : Nat \cup {None}]
Part == [start : Nat \cup {None}, end : Nat \cup {None}]

(* The cases are requests and answers the two routes can meet: the         *)
(* Cache-Control of a 200 and of a 304, whether the upstream sends an ETag *)
(* and in which content coding, the names in Accept-Encoding and which of  *)
(* them have q=0.                                                          *)
ASSUME InputsOK ==
    /\ \A c \in Inputs :
         /\ c.header \in Seq(Token) /\ c.header304 \in Seq(Token) /\ c.range \in Seq(Part)
         /\ c.found \in BOOLEAN /\ c.etag \in BOOLEAN /\ c.size \in Nat
         /\ c.refused \subseteq c.accept
    /\ DefaultTTL \in Nat

VARIABLES
    input,      \* this behaviour's case
    clock,      \* time.time()
    unread,     \* tokens of the header the parser has not read
    directives, \* the parser's result so far
    reply,      \* the upstream's answer being handled, or None
    entry,      \* the cached entry, or None
    answer      \* the last answer, or None

requestVars == <<input, clock, unread, directives, reply, entry, answer>>

-----------------------------------------------------------------------------
(* parse_cache_control.  A header is a sequence of tokens [key, value]; a  *)
(* value that _parse_int refuses is None.                                  *)

Numeric == {"max_age", "s_maxage", "stale_while_revalidate", "stale_if_error"}
Flags == {"no_cache", "no_store", "private", "must_revalidate"}
NoDirectives == [d \in Numeric \cup Flags |-> IF d \in Flags THEN FALSE ELSE None]

(* One turn of its loop: a number that does not parse leaves the directive *)
(* alone, an unknown key is ignored.                                       *)
ReadFirstWins(ds, token) ==
    IF token.key \in Flags THEN [ds EXCEPT ![token.key] = TRUE]
    ELSE IF token.key \in Numeric /\ token.value # None /\ ds[token.key] = None
      THEN [ds EXCEPT ![token.key] = token.value]
      ELSE ds
ReadToken(ds, token) ==
    IF token.key \in Flags THEN [ds EXCEPT ![token.key] = TRUE]
    ELSE IF token.key \in Numeric /\ token.value # None
      THEN [ds EXCEPT ![token.key] = token.value]
      ELSE ds

IsCacheable(ds) == ~ds.no_store /\ ~ds.private

EffectiveTTLMaxAgeFirst(ds) ==
    IF ds.no_cache THEN 0
    ELSE IF ds.max_age # None THEN ds.max_age
    ELSE IF ds.s_maxage # None THEN ds.s_maxage ELSE DefaultTTL
EffectiveTTL(ds) ==
    IF ds.no_cache THEN 0
    ELSE IF ds.s_maxage # None THEN ds.s_maxage
    ELSE IF ds.max_age # None THEN ds.max_age ELSE DefaultTTL

EffectiveSWR(ds) ==
    IF ds.stale_while_revalidate # None THEN ds.stale_while_revalidate ELSE 0

-----------------------------------------------------------------------------
(* Byte ranges.  A Range header is a sequence of parts [start, end] either *)
(* of which may be None; one with a part that has neither does not parse.  *)

NoRange == <<>>
FromHeaderFails(range) ==
    \E i \in DOMAIN range : range[i].start = None /\ range[i].end = None

(* The two resolutions of a part against a length: by the edge and by the  *)
(* origin.                                                                 *)
Resolve(part, total) ==
    LET suffix == part.start = None
        start  == IF suffix THEN Max({total - part.end, 0}) ELSE part.start
        end    == IF suffix \/ part.end = None THEN total - 1 ELSE part.end
    IN  <<start, Min({end, total - 1})>>

OriginResolve(part, total) ==
    CASE part.start = None -> <<Max({total - part.end, 0}), total - 1>>
      [] part.end = None   -> <<part.start, total - 1>>
      [] OTHER             -> <<part.start, Min({part.end, total - 1})>>

(* ByteRange.content_range: the first and last position of Content-Range,  *)
(* and the total.  It does not clip the last to what there is.             *)
ContentRange(part, total) ==
    LET suffix == part.start = None
    IN  <<IF suffix THEN Max({total - part.end, 0}) ELSE part.start,
          IF suffix \/ part.end = None THEN total - 1 ELSE part.end, total>>

(* content[start : end + 1], both counted from zero. *)
Slice(content, bounds) == SubSeq(content, bounds[1] + 1, bounds[2] + 1)

-----------------------------------------------------------------------------
(* compress_response: the coding it chooses, or None.  Of Accept-Encoding  *)
(* it reads the names and drops what follows them, q=0 included.  Coding   *)
(* itself is the library's (external).                                     *)
Encoding(content, accept, compressible) ==
    IF Len(content) < MinCompress \/ ~compressible THEN None
    ELSE IF HasBrotli /\ "br" \in accept THEN "br"
    ELSE IF "gzip" \in accept THEN "gzip"
    ELSE IF "deflate" \in accept THEN "deflate"
    ELSE None

-----------------------------------------------------------------------------
(* What the upstream may answer the edge.  `fields` are Content-Length and *)
(* Content-Encoding as dict(response.headers) has them, `header` is the    *)
(* Cache-Control of the answer.                                            *)
Content == IF input.found THEN [i \in 1..input.size |-> i] ELSE <<"Not", "Found">>
Status == IF input.found THEN 200 ELSE 404
Fields(length, coding) == [length |-> length, coding |-> coding]
NoFields == Fields(None, None)
LengthOf(content, coding) == IF coding = None THEN Len(content) ELSE PackedLength(Len(content))

FullReply ==
    [status |-> Status, content |-> Content,
     fields |-> Fields(LengthOf(Content, input.coding), input.coding),
     etag |-> input.found /\ input.etag, header |-> input.header]
NotModified ==
    [status |-> 304, content |-> <<>>, fields |-> NoFields, etag |-> TRUE,
     header |-> input.header304]
Unavailable ==
    [status |-> 503, content |-> <<"Service", "Unavailable">>, fields |-> NoFields,
     etag |-> FALSE, header |-> <<>>]

(* serve_file and handle_range_request with what get_or_fetch returned: an *)
(* answer r of the upstream or an entry.  A range is cut out of whatever   *)
(* came back, always as 206; only a 200 is coded.  `fields` is what came   *)
(* with r and is sent on, `own` what the edge adds beside it.  `via`,      *)
(* `age` and `header` are history: which return statement, and of what.    *)
CompressAnyway(status) == TRUE
CompressesStatus(status) == status = 200

Serve(r, via, age) ==
    LET ranged == input.range # NoRange
        part   == input.range[1]
        total  == Len(r.content)
        body   == IF ranged THEN Slice(r.content, Resolve(part, total)) ELSE r.content
        code   == IF ranged THEN 206 ELSE r.status
        coding == IF CompressesStatus(code) /\ input.accept # {}
                    THEN Encoding(body, input.accept, input.compressible) ELSE None
    IN  [status |-> code, content |-> body, coding |-> coding, fields |-> r.fields,
         own |-> [length |-> IF ranged \/ coding # None THEN LengthOf(body, coding) ELSE None,
                  coding |-> coding,
                  range  |-> IF ranged THEN ContentRange(part, total) ELSE None],
         via |-> via, age |-> age, header |-> r.header]

(* The origin's serve_file and _handle_range for the client's own request. *)
OriginServe ==
    LET bounds == OriginResolve(input.range[1], input.size)
    IN  IF ~input.found THEN [status |-> 404, body |-> Content]
        ELSE IF input.range = NoRange THEN [status |-> 200, body |-> Content]
        ELSE IF FromHeaderFails(input.range) \/ bounds[1] > bounds[2]
          THEN [status |-> 416, body |-> <<>>]
        ELSE [status |-> 206, body |-> Slice(Content, bounds)]

-----------------------------------------------------------------------------
RequestInit ==
    /\ input \in Inputs
    /\ clock = 0
    /\ unread = <<>>
    /\ directives = NoDirectives
    /\ reply = None
    /\ entry = None
    /\ answer = None

Age == clock - entry.created_at
Fresh == entry # None /\ Age <= entry.ttl
StaleServable == entry # None /\ Age > entry.ttl /\ Age <= entry.ttl + entry.swr

(* The client's request arrives. *)
Asked == reply = None /\ ~FromHeaderFails(input.range)

(* The upstream answers, and its header is to be read. *)
Replies == {FullReply} \cup (IF entry # None /\ entry.etag THEN {NotModified} ELSE {})
BeginFetch ==
    /\ reply' \in Replies
    /\ unread' = reply'.header
    /\ directives' = NoDirectives

(* get_or_fetch: a fresh hit; a stale one, revalidated behind the answer;  *)
(* the entry or a 503 while the circuit is open; or a fetch.               *)
Hit ==
    /\ Asked /\ Fresh
    /\ answer' = Serve(entry, "hit", Age)
    /\ UNCHANGED <<input, clock, unread, directives, reply, entry>>

HitStale ==
    /\ Asked /\ StaleServable
    /\ answer' = Serve(entry, "hit", Age)
    /\ BeginFetch
    /\ UNCHANGED <<input, clock, entry>>

CircuitOpen ==
    /\ Asked /\ ~Fresh /\ ~StaleServable
    /\ answer' = IF entry # None THEN Serve(entry, "circuit_open", Age)
                 ELSE Serve(Unavailable, "unavailable", 0)
    /\ UNCHANGED <<input, clock, unread, directives, reply, entry>>

Fetch ==
    /\ Asked /\ ~Fresh /\ ~StaleServable
    /\ BeginFetch
    /\ answer' = None
    /\ UNCHANGED <<input, clock, entry>>

(* handle_range_request raises ValueError before the lookup; the server    *)
(* answers 500.                                                            *)
RangeError ==
    /\ reply = None /\ FromHeaderFails(input.range)
    /\ answer' = [status |-> 500, content |-> <<>>, coding |-> None, fields |-> NoFields,
                  own |-> [length |-> None, coding |-> None, range |-> None],
                  via |-> "error", age |-> 0, header |-> <<>>]
    /\ UNCHANGED <<input, clock, unread, directives, reply, entry>>

Parse ==
    /\ reply # None /\ unread # <<>>
    /\ directives' = ReadToken(directives, Head(unread))
    /\ unread' = Tail(unread)
    /\ UNCHANGED <<input, clock, reply, entry, answer>>

(* The header is read.  The answer to a request that fetched, and what is  *)
(* stored: nothing, if the upstream says no-store or private, a 304 too;   *)
(* the entry with a lifetime from the 304's own directives; or what came,  *)
(* whatever its status.                                                    *)
AnswerFetch(r, via) == answer' = IF answer = None THEN Serve(r, via, 0) ELSE answer

PassOn ==
    /\ ~IsCacheable(directives)
    /\ AnswerFetch(reply, IF reply.status = 304 THEN "not_modified" ELSE "miss")
    /\ UNCHANGED entry

Refresh ==
    /\ IsCacheable(directives) /\ reply.status = 304
    /\ entry' = [entry EXCEPT !.created_at = clock, !.ttl = EffectiveTTL(directives),
                              !.swr = EffectiveSWR(directives), !.header = reply.header]
    /\ AnswerFetch(entry', "miss")

StoreNew ==
    /\ IsCacheable(directives) /\ reply.status # 304
    /\ entry' = [status |-> reply.status, content |-> reply.content, fields |-> reply.fields,
                 etag |-> reply.etag, created_at |-> clock, ttl |-> EffectiveTTL(directives),
                 swr |-> EffectiveSWR(directives), header |-> reply.header]
    /\ AnswerFetch(reply, "miss")

StoreAndAnswer ==
    /\ reply # None /\ unread = <<>>
    /\ PassOn \/ Refresh \/ StoreNew
    /\ reply' = None
    /\ UNCHANGED <<input, clock, unread, directives>>

Tick ==
    /\ reply = None /\ clock < MaxClock
    /\ clock' = clock + 1
    /\ UNCHANGED <<input, unread, directives, reply, entry, answer>>

RequestNext ==
    \/ Hit \/ HitStale \/ CircuitOpen \/ Fetch \/ RangeError
    \/ Parse \/ StoreAndAnswer \/ Tick

RequestSpec == RequestInit /\ [][RequestNext]_requestVars

-----------------------------------------------------------------------------
(* What a header says, without the parser: of each numeric directive the   *)
(* last valid value, of each flag whether it occurs.                       *)
LastValue(h, d) ==
    LET valid == {i \in DOMAIN h : h[i].key = d /\ h[i].value # None}
    IN  IF valid = {} THEN None ELSE h[Max(valid)].value
Has(h, d) == \E i \in DOMAIN h : h[i].key = d

(* The parser's loop computes what the header says, in the order of its    *)
(* tokens, with duplicates and malformed values ("last value wins").       *)
ParsedAsDirected ==
    reply # None /\ unread = <<>> =>
        \A d \in DOMAIN directives :
            directives[d] = IF d \in Flags THEN Has(reply.header, d) ELSE LastValue(reply.header, d)

(* The lifetime and the window the code documents for a header: the most   *)
(* specific lifetime, none with no-cache.                                  *)
Lifetime(h) ==
    IF Has(h, "no_cache") THEN 0
    ELSE IF LastValue(h, "s_maxage") # None THEN LastValue(h, "s_maxage")
    ELSE IF LastValue(h, "max_age") # None THEN LastValue(h, "max_age") ELSE DefaultTTL
Window(h) ==
    IF LastValue(h, "stale_while_revalidate") = None THEN 0
    ELSE LastValue(h, "stale_while_revalidate")

(* How old a hit may be: "no-cache (must always revalidate)" leaves no age  *)
(* at all, the window included.                                            *)
Allowed(h) == IF Has(h, "no_cache") THEN 0 ELSE Lifetime(h) + Window(h)

(* Which the code does not keep: the window of a header with no-cache      *)
(* makes stale hits of its entry.                                          *)
StaleDespiteNoCache(a) ==
    Has(a.header, "no_cache") /\ 0 < a.age /\ a.age <= Window(a.header)

(* From the header of the upstream's last answer, 200 or 304, to a later   *)
(* answer from the cache, after any refreshes: an answer with no-store or  *)
(* private leaves nothing of its own to serve, and no hit is older than    *)
(* its header allows, unless it is one of the stale hits of no-cache,      *)
(* which are within the window.                                            *)
ServedAsDirected ==
    answer # None /\ answer.via \in {"hit", "circuit_open"} =>
        /\ \A h \in {answer.header, input.header} : ~Has(h, "no_store") /\ ~Has(h, "private")
        /\ answer.via = "hit" =>
             answer.age <= Allowed(answer.header) \/ StaleDespiteNoCache(answer)

(* What the fields of the answer a say of its body: the lengths, the       *)
(* codings in order, the positions of a part.                              *)
Lengths(a) == {a.fields.length, a.own.length} \ {None}
Framed(a) ==
    /\ Lengths(a) \subseteq {LengthOf(a.content, a.coding)}
    /\ a.fields.coding = None /\ a.own.coding = a.coding
    /\ a.own.range # None => a.own.range[2] + 1 = a.own.range[1] + Len(a.content)

(* Whenever the origin itself would answer the request with content, the   *)
(* edge's answer has the same status and, under the coding the edge put on *)
(* it, the same bytes, through whatever was stored, refreshed or handed on *)
(* to get there.  The coding is one the client names, and never that of a  *)
(* part; the length and coding the edge writes are those of the body; and  *)
(* the fields of a whole body that nobody coded describe it.  Left out are *)
(* the 503 without an entry and the 304 handed on.  What of the upstream's *)
(* own fields stays beside the edge's is FieldsDescribeBody's, and what    *)
(* q=0 says NotRefused's: they fail.                                       *)
AnswersLikeOrigin ==
    answer # None /\ answer.via \notin {"unavailable", "not_modified"}
      /\ OriginServe.status \in {200, 206} =>
        /\ answer.status = OriginServe.status
        /\ answer.content = OriginServe.body
        /\ answer.coding \in input.accept \cup {None}
        /\ answer.status = 206 => answer.coding = None
        /\ answer.own.length \in {None, LengthOf(answer.content, answer.coding)}
        /\ answer.own.coding = answer.coding
        /\ input.coding = None /\ answer.coding = None /\ answer.status = 200 => Framed(answer)

-----------------------------------------------------------------------------
(* What the code does not keep of what it says.  TLC refutes each of these *)
(* as an INVARIANT of the run of this module.                              *)

(* "HTTP Range requests (RFC 7233)" and "transparent" compression: the     *)
(* fields of a 200 or 206 with bytes of the file describe them, once.      *)
FieldsDescribeBody ==
    answer # None /\ input.found /\ answer.via # "unavailable"
      /\ answer.status \in {200, 206} /\ answer.content # <<>> => Framed(answer)

(* "the set of accepted encoding names": the coding is not one the client  *)
(* refuses with q=0.                                                       *)
NotRefused == answer # None => answer.coding \notin input.refused

(* "no-cache (must always revalidate)": no hit is a stale one of no-cache, *)
NoCacheNotStale == answer # None /\ answer.via = "hit" => ~StaleDespiteNoCache(answer)

(* and none is of a file that the upstream sent with no-cache and has      *)
(* since only declared unchanged.                                          *)
NoCacheOutlasts304 ==
    answer # None /\ answer.via = "hit" /\ Has(input.header, "no_cache")
      /\ ~Has(answer.header, "no_cache") => answer.age = 0

(* "Not Modified -- refresh TTL on existing entry": a client that asked    *)
(* for the file, without a condition, is not told it has it.               *)
NoBareNotModified == answer # None => answer.status # 304
=============================================================================
