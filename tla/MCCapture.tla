------------------------------- MODULE MCCapture -------------------------------
(***************************************************************************)
(* Capture for TLC: two domains, IDs "a" and "b", and the messages whose   *)
(* handlers differ most: through the wildcard bucket, through the extra    *)
(* bucket, not captured, and in several parts.                             *)
(***************************************************************************)
EXTENDS Capture

MCDomains == <<"d1", "d2">>

To(rcpt, domain, mentions) == [rcpt |-> rcpt, domain |-> domain, mentions |-> mentions]
One(service, op, domain, mentions) ==
    [service |-> service, op |-> op, parts |-> <<To("-", domain, mentions)>>]

\* Two addresses of a in one domain, one of them twice, and one of b in another.
Mail ==
    [service |-> "smtp", op |-> "message",
     parts |-> <<To("x", "d1", <<"a">>), To("y", "d1", <<"a">>),
                 To("x", "d1", <<"a">>), To("z", "d2", <<"b">>)>>]

MCArrivals ==
    {One("dns", "query", "d1", <<"a">>), One("dns", "acme", "d1", <<>>),
     One("ldap", "search", None, <<"a", "a">>), Mail}
===============================================================================
