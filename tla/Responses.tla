------------------------------- MODULE Responses --------------------------------
(***************************************************************************)
(* What the server answers: handleDNS of oobsrv/dns.go, serveDefault of    *)
(* oobsrv/httpapi.go, and the name the TLS listeners ask certmagic for.    *)
(* One question is chosen in the initial state and answered by one step.   *)
(*                                                                         *)
(* A name is a sequence of labels, an answer section a set of records, and *)
(* a header, status or body the class of it the code tells apart.  TTLs,   *)
(* texts and the order of records are left out.                            *)
(***************************************************************************)
EXTENDS Integers, Sequences, SequencesExt, FiniteSets

CONSTANTS
    Domains,        \* cfg.Domains, lower case
    Width,          \* Width[label]: its characters
    Names,          \* names asked for
    IPv4, IPv6,     \* addresses the server may have
    OperatorFiles,  \* contents of --custom-records: [subdomains -> records]
    Statuses,       \* values of the status parameter and of StatusCode
    Values,         \* values of a Location header: "url", "//host", "host"
    NotANumber,     \* a status that is not a number
    Absent

ASSUME RespAssumption ==
    /\ Domains # {} /\ IsFiniteSet(Domains)
    /\ \A n \in Domains \union Names : n \in Seq(ToSet(n))
    /\ Absent \notin Domains \union {"location", "ok", "-"}

VARIABLES
    order,     \* cfg.Domains as New left it
    ips,       \* s.ips
    question,
    answer

respVars == <<order, ips, question, answer>>

-------------------------------------------------------------------------------
(* Domains. *)

LengthOf(name) == FoldSeq(LAMBDA l, n : Width[l] + 1 + n, 0, name)

\* A suffix is shorter than the whole.
ASSUME SuffixAssumption ==
    \A d \in Domains :
        LengthOf(d) \in Nat /\ \A e \in Domains \ {d} : IsSuffix(e, d) => LengthOf(e) < LengthOf(d)

\* New: longest first; slices.SortFunc is not stable.
Sorted(ds) == \A i, j \in DOMAIN ds : i < j => LengthOf(ds[i]) >= LengthOf(ds[j])

\* matchedDomain: the first one that is the name or a suffix of it.
MatchedDomain(name) ==
    LET matching == {i \in DOMAIN order : IsSuffix(order[i], name)}
    IN IF matching = {} THEN Absent ELSE order[Min(matching)]

ExtractSubdomain(name, d) == SubSeq(name, 1, Len(name) - Len(d))

\* matchDomain: falls back to the first one.
DomainOrFirst(name) == IF MatchedDomain(name) = Absent THEN Head(order) ELSE MatchedDomain(name)

\* Faulty variant: a wildcard is thought to match two labels.
CoveredTwice(name, d) == Len(name) <= Len(d) + 2

Covered(name, d) == Len(name) <= Len(d) + 1

\* wildcardFallbackCertGetter: the name certmagic is asked for.
ServerName(name) ==
    IF MatchedDomain(name) # Absent /\ Covered(name, MatchedDomain(name)) THEN name
    ELSE <<"wild">> \o DomainOrFirst(name)

-------------------------------------------------------------------------------
(* DNS. *)

RR(name, type, data) == [name |-> name, type |-> type, data |-> data]
A(name) == {RR(name, "A", <<ip>>) : ip \in ips.v4}
AAAA(name) == {RR(name, "AAAA", <<ip>>) : ip \in ips.v6}
NS(name, d) == {RR(name, "NS", <<ns>> \o d) : ns \in {"ns1", "ns2"}}
SOA(name, d) == {RR(name, "SOA", <<"ns1">> \o d)}

\* Faulty variant: glue for IPv4 only.
GlueIPv4(d) == UNION {A(ns.data) : ns \in NS(d, d)}

GlueRecords(d) == UNION {A(ns.data) \union AAAA(ns.data) : ns \in NS(d, d)}

Section(rrs, ns, extra) == [answer |-> rrs, ns |-> ns, extra |-> extra]

\* Addresses come with authority and glue, their absence with the zone's SOA.
PositiveOrNODATA(rrs, d) ==
    IF rrs # {} THEN Section(rrs, NS(d, d), GlueRecords(d)) ELSE Section({}, SOA(d, d), {})

DefaultResponse(name, type, d) ==
    CASE type = "A" -> PositiveOrNODATA(A(name), d)
      [] type = "AAAA" -> PositiveOrNODATA(AAAA(name), d)
      [] type = "ANY" -> PositiveOrNODATA(A(name) \union AAAA(name), d)
      [] type = "MX" -> Section({RR(name, "MX", <<"mail">> \o d)}, {}, {})
      [] type = "NS" -> Section(NS(name, d), {}, {})
      [] type = "SOA" -> Section(SOA(name, d), {}, {})
      [] type = "TXT" -> Section({RR(name, "TXT", <<>>)}, {}, {})
      [] OTHER -> Section({}, {}, {})

\* The challenge's TXT values are those of AcmeCerts, here none.
ACMEResponse(name, type, d) ==
    Section(CASE type = "SOA" -> SOA(name, d) [] type = "NS" -> NS(name, d)
              [] type = "A" -> A(name) [] type = "AAAA" -> AAAA(name) [] OTHER -> {},
            {}, {})

Builtin == [sub \in {<<"aws">>, <<"alibaba">>, <<"localhost">>, <<"oracle">>} |->
               {[type |-> "A", value |-> <<"ip4">>]}]

\* loadCustomRecords: the operator's records over the built-in ones.
CustomRecords(file) ==
    [sub \in DOMAIN Builtin \union DOMAIN file |->
        IF sub \in DOMAIN file THEN file[sub] ELSE Builtin[sub]]

\* customRecordToRR: an address that does not parse as its type gives no record.
Valid(rec) ==
    /\ rec.type = "A" => rec.value = <<"ip4">>
    /\ rec.type = "AAAA" => rec.value = <<"ip6">>

CustomResponse(name, type, recs) ==
    Section({RR(name, rec.type, rec.value) :
                rec \in {r \in recs : Valid(r) /\ type \in {r.type, "ANY"}}}, {}, {})

HandleDNS(name, type, file) ==
    LET d == MatchedDomain(name)
        sub == ExtractSubdomain(name, d)
    IN CASE d = Absent -> Section({}, {}, {})
         [] d # Absent /\ sub # <<>> /\ Head(sub) = "_acme-challenge" -> ACMEResponse(name, type, d)
         [] OTHER -> IF sub \in DOMAIN CustomRecords(file)
                     THEN CustomResponse(name, type, CustomRecords(file)[sub])
                     ELSE DefaultResponse(name, type, d)

QTypes == {"A", "AAAA", "ANY", "MX", "NS", "SOA", "TXT", "other"}

-------------------------------------------------------------------------------
(* HTTP.  cfg is [auth, dynamicResp, directory, defaultResponse], a request     *)
(* [path, status, headers, body, b64, delay, tls], a header [name, value].      *)

Redirects == {302, 307}

\* A header without a colon has no name.
IsLocation(h) == h.name = "location"

\* ResponseConfig.IsAllowedUnauthenticated.
IsAllowedUnauthenticated(c) ==
    /\ c.status \in Redirects
    /\ c.body = Absent
    /\ c.headers # <<>>
    /\ \A i \in DOMAIN c.headers : IsLocation(c.headers[i])

Clamped(code) == IF code < 100 THEN 100 ELSE IF code > 999 THEN 999 ELSE code

\* redirectLocationScheme.
Location(status, h) ==
    IF status \in Redirects /\ IsLocation(h) /\ h.value = "host" THEN [h EXCEPT !.value = "url"] ELSE h

\* The headers that are sent: those with a colon, Location made absolute.
HeadersOf(status, hs) ==
    {Location(status, hs[i]) : i \in {j \in DOMAIN hs : hs[j].name # Absent}}

Reply(from, status, headers, body) ==
    [from |-> from, status |-> status, headers |-> headers, body |-> body]

\* The number in the status parameter, 0 when there is none that counts.
CodeOf(r) == IF r.status \in {Absent, NotANumber} \/ r.status <= 0 THEN 0 ELSE r.status

\* applyDynamicParams, without the wait: status and headers.
Applied(from, r, body) ==
    LET status == IF CodeOf(r) = 0 THEN 200 ELSE Clamped(CodeOf(r))
    IN Reply(from, status, HeadersOf(status, r.headers), body)

HasPathBody(r) == r.path = "/b64_body:ok"
HasBodyParam(r) == r.body \/ r.b64 # Absent
HasParams(r) == r.headers # <<>> \/ r.status # Absent

\* Faulty variant: the body in the path is not among the parameters that are checked.
NonDelayParamsOfQuery(r) == HasBodyParam(r) \/ HasParams(r)

NonDelayParams(r) == HasPathBody(r) \/ HasBodyParam(r) \/ HasParams(r)

AskedConfig(r) ==
    [status |-> CodeOf(r), headers |-> r.headers,
     body |-> IF HasPathBody(r) \/ HasBodyParam(r) THEN "-" ELSE Absent]

\* serveDynamicResponse: whether it answers, and what.
Triggered(cfg, r) ==
    /\ cfg.dynamicResp
    /\ HasPathBody(r) \/ HasBodyParam(r) \/ HasParams(r) \/ r.delay
    /\ ~cfg.auth /\ NonDelayParams(r) => IsAllowedUnauthenticated(AskedConfig(r))

DynamicResponse(r) ==
    Applied("dynamic", r,
        IF HasPathBody(r) \/ r.b64 = "ok" \/ (r.body /\ r.b64 = Absent) THEN "asked"
        ELSE IF r.b64 # Absent THEN "empty" ELSE "reflection")

\* writeResponseConfig.
StoredResponse(c) ==
    Reply("stored", IF c.status = 0 THEN 200 ELSE Clamped(c.status),
          HeadersOf(c.status, c.headers), IF c.body # Absent THEN "asked" ELSE "reflection")

NotFound == Reply("static", 404, {}, "not found")

\* serveStaticFile: an existing file, or any other path under /s/.
StaticFile(cfg, r) ==
    IF r.path # "/s/file" THEN NotFound
    ELSE IF cfg.dynamicResp THEN Applied("static", r, "file")
    ELSE Reply("static", 200, {}, "file")

Typed == {"/robots.txt", "x.json", "x.xml"}

\* serveDefault; matched: some label of the host holds a registered ID, whose stored
\* response is stored.
ServeDefault(cfg, r, matched, stored) ==
    CASE cfg.defaultResponse -> Reply("default", 200, {}, "file")
      [] ~cfg.defaultResponse /\ cfg.directory /\ r.path \in {"/s/", "/s/file"} -> StaticFile(cfg, r)
      [] OTHER ->
            IF r.path \in Typed
            THEN Reply("typed", 200, {}, IF matched THEN "reflection" ELSE "empty")
            ELSE IF ~matched THEN Reply("banner", 200, {}, "banner")
            ELSE IF Triggered(cfg, r) THEN DynamicResponse(r)
            ELSE IF stored # Absent /\ (cfg.auth \/ IsAllowedUnauthenticated(stored)) THEN StoredResponse(stored)
            ELSE Reply("reflection", 200, {}, "reflection")

Paths == {"/", "/robots.txt", "/s/", "/s/file", "/b64_body:ok", "/b64_body:bad"}
Headers == {[name |-> "location", value |-> v] : v \in Values}
           \union {[name |-> "other", value |-> Absent], [name |-> Absent, value |-> Absent]}
HeaderLists == {<<>>} \union {<<h>> : h \in Headers} \union {<<g, h>> : g, h \in Headers}

Configs == [auth : BOOLEAN, dynamicResp : BOOLEAN, directory : BOOLEAN, defaultResponse : BOOLEAN]
HTTPRequests == [path : Paths, status : Statuses \union {Absent, NotANumber}, headers : HeaderLists,
                 body : BOOLEAN, b64 : {Absent, "ok", "bad"}, delay : BOOLEAN]

\* handleRegister refuses a response that an unauthenticated server may not serve.
Registered(cfg) ==
    {Absent} \union {c \in [status : Statuses, headers : HeaderLists, body : {Absent, "text"}] :
                      cfg.auth \/ IsAllowedUnauthenticated(c)}

-------------------------------------------------------------------------------
RespIdle ==
    /\ order = <<>> /\ ips = [v4 |-> {}, v6 |-> {}]
    /\ question = Absent /\ answer = Absent

\* New sorts the domains.
Orders == {ds \in [1 .. Cardinality(Domains) -> Domains] : ToSet(ds) = Domains /\ Sorted(ds)}

AskedDNS ==
    /\ order \in Orders
    /\ ips \in [v4 : SUBSET IPv4, v6 : SUBSET IPv6]
    /\ \E n \in Names, t \in QTypes, f \in OperatorFiles :
          question = [kind |-> "dns", name |-> n, type |-> t, file |-> f]

AskedTLS ==
    /\ order \in Orders
    /\ ips = [v4 |-> {}, v6 |-> {}]
    /\ \E n \in Names \union {<<>>} : question = [kind |-> "tls", name |-> n]

\* All parameters without a stored response, all stored responses without parameters.
AskedHTTP ==
    /\ order = <<>>
    /\ ips = [v4 |-> {}, v6 |-> {}]
    /\ \E cfg \in Configs, matched \in BOOLEAN :
        \/ \E r \in HTTPRequests :
              question = [kind |-> "http", cfg |-> cfg, request |-> r, matched |-> matched,
                          stored |-> Absent]
        \/ \E c \in Registered(cfg) :
              question = [kind |-> "http", cfg |-> cfg, matched |-> matched, stored |-> c,
                          request |-> [path |-> "/", status |-> Absent, headers |-> <<>>,
                                       body |-> FALSE, b64 |-> Absent, delay |-> FALSE]]

RespInit == answer = Absent /\ (AskedDNS \/ AskedTLS \/ AskedHTTP)

Asks(kind) == question # Absent /\ answer = Absent /\ question.kind = kind

AnswerDNS ==
    /\ Asks("dns")
    /\ answer' = HandleDNS(question.name, question.type, question.file)
    /\ UNCHANGED <<order, ips, question>>

AnswerHTTP ==
    /\ Asks("http")
    /\ answer' = ServeDefault(question.cfg, question.request, question.matched, question.stored)
    /\ UNCHANGED <<order, ips, question>>

AskForCertificate ==
    /\ Asks("tls")
    /\ answer' = ServerName(question.name)
    /\ UNCHANGED <<order, ips, question>>

Answered == answer # Absent /\ UNCHANGED respVars

RespNext == AnswerDNS \/ AnswerHTTP \/ AskForCertificate \/ Answered

RespSpec == RespInit /\ [][RespNext]_respVars

-------------------------------------------------------------------------------
Has(kind) == question # Absent /\ question.kind = kind /\ answer # Absent

(* A certificate for d and *.d exists for every configured domain, so the name   *)
(* asked for is the most specific domain the client's name belongs to, or one    *)
(* label below it; a name of no domain gets any of them (tls.go:436-454, the     *)
(* order of the domains from server.go:109-112).                                 *)
CertificateFits ==
    Has("tls") =>
        \E d \in Domains :
            /\ IsSuffix(d, answer) /\ Len(answer) <= Len(d) + 1
            /\ \A e \in Domains : IsSuffix(e, question.name) =>
                   IsSuffix(d, question.name) /\ Len(e) <= Len(d)

(* Every name server and mail host the server hands out resolves, asked of the   *)
(* server itself, to all of its addresses, and glue says the same as that answer *)
(* would, unless the operator has a record of that name (dns.go:285-486).        *)
Targets == {rr \in answer.answer \union answer.ns : rr.type \in {"NS", "MX", "SOA"}}
Resolved(host) == {rr.data : rr \in HandleDNS(host, "ANY", question.file).answer}
Glue(host) == {rr.data : rr \in {g \in answer.extra : g.name = host}}
Overridden(name) ==
    /\ MatchedDomain(name) # Absent
    /\ ExtractSubdomain(name, MatchedDomain(name)) \in DOMAIN CustomRecords(question.file)

HandedOutResolves ==
    Has("dns") /\ ~Overridden(question.name) =>
        \A rr \in Targets : ~Overridden(rr.data) =>
            /\ Resolved(rr.data) = {<<ip>> : ip \in ips.v4 \union ips.v6}
            /\ rr \in answer.ns /\ rr.type = "NS" => Glue(rr.data) = Resolved(rr.data)

(* Without authentication the parameters of a request and the stored response of  *)
(* a session yield redirects only: Location headers and nothing else, absolute,   *)
(* and no body but the reflection.  The gate reads the parameters itself before    *)
(* applyDynamicParams reads them again (httpapi.go:317-377, options.go:20-41).     *)
UnauthenticatedRedirectsOnly ==
    Has("http") /\ ~question.cfg.auth /\ answer.from \in {"dynamic", "stored"} =>
        /\ answer.body = "reflection"
        /\ \/ answer.status = 200 /\ answer.headers = {}
           \/ /\ answer.status \in Redirects /\ answer.headers # {}
              /\ \A h \in answer.headers : IsLocation(h) /\ h.value # "host"
===============================================================================
