------------------------------ MODULE Registration ------------------------------
(***************************************************************************)
(* oobclient.New up to the registered client: the lengths of the ID and    *)
(* the nonce, the servers in their rotated order, each over https and then *)
(* http, those skipped, and the second list with a new ID.                 *)
(*                                                                         *)
(* External: what a server makes of the request, and the resolver.         *)
(***************************************************************************)
EXTENDS Naturals, Sequences, SequencesExt, FiniteSets

CONSTANTS
    DefaultServers,   \* DefaultOptions.ServerURLs
    FallbackServers,  \* fallbackServerURLs
    ServerLists,      \* values of opts.ServerURLs, <<>> among them
    ByURL,            \* servers written with a scheme or a port
    PlainHTTP,        \* of these: with http://
    AddressBooks,     \* what servers' hosts may resolve to: [servers -> sets of addresses]
    Lengths           \* [id, nonce] as in the options, 0 if not set

ASSUME ServersAssumption ==
    /\ DefaultServers # <<>> /\ PlainHTTP \subseteq ByURL
    /\ ToSet(DefaultServers) \cap ToSet(FallbackServers) = {}
ASSUME ListsAssumption ==
    \A l \in ServerLists \union {DefaultServers, FallbackServers} : l \in Seq(ToSet(l))
ASSUME OptionsAssumption == Lengths \subseteq [id : Nat, nonce : Nat]

VARIABLES
    options,   \* opts: [servers, lengths, http], the last for not DisableHTTPFallback
    address,   \* address[s]: the addresses of the host of s
    new,       \* New: [pc, list, start, i, scheme, unauthorized]
    failedIPs,
    client,    \* the ID (its number and length), nonce length and serverURL
    held,      \* sessions at the servers: <<server, number of the ID>>
    tried      \* history: servers that were sent a registration

regVars == <<options, address, new, failedIPs, client, held, tried>>

AllServers == UNION {ToSet(l) : l \in ServerLists \union {DefaultServers, FallbackServers}}

DefaultServerLengths == [id |-> 16, nonce |-> 4]
StandardLengths == [id |-> 20, nonce |-> 13]
FallbackLengths == [id |-> 20, nonce |-> 13]

NewAt(pc) == [pc |-> pc, list |-> <<>>, start |-> 0, i |-> 0, scheme |-> "https",
              unauthorized |-> FALSE]
NoClient == [id |-> 0, length |-> 0, nonce |-> 0, serverURL |-> <<>>]

RegInit ==
    /\ options \in [servers : ServerLists, lengths : Lengths, http : BOOLEAN]
    /\ address \in AddressBooks
    /\ new = NewAt("options")
    /\ failedIPs = {} /\ client = NoClient /\ held = {} /\ tried = {}

RegIdle ==
    /\ options = [servers |-> <<>>, lengths |-> [id |-> 0, nonce |-> 0], http |-> TRUE]
    /\ address = [s \in AllServers |-> {}]
    /\ new = NewAt("idle")
    /\ failedIPs = {} /\ client = NoClient /\ held = {} /\ tried = {}

-------------------------------------------------------------------------------
UserProvided == options.servers \notin {<<>>, DefaultServers}
Standard == IF UserProvided THEN StandardLengths ELSE DefaultServerLengths

Chosen(part) == IF options.lengths[part] = 0 THEN Standard[part] ELSE options.lengths[part]

\* The default servers have one length.
LengthsRefused ==
    \/ ~UserProvided /\ Chosen("id") # DefaultServerLengths.id
    \/ Chosen("id") < 4 \/ Chosen("nonce") < 4

\* tryRegisterServers is entered; serverStartIndex is shared by all clients.
Tries(list) ==
    \E start \in 0 .. Len(list) - 1 :
        new' = [NewAt("server") EXCEPT !.list = list, !.start = start]

Options ==
    /\ new.pc = "options"
    /\ IF LengthsRefused
       THEN new' = NewAt("error") /\ UNCHANGED client
       ELSE /\ Tries(IF UserProvided THEN options.servers ELSE DefaultServers)
            /\ client' = [client EXCEPT !.id = 1, !.length = Chosen("id"),
                                        !.nonce = Chosen("nonce")]
    /\ UNCHANGED <<options, address, failedIPs, held, tried>>

\* Faulty variant: the index does not wrap around.
ServerAtUnwrapped(i) ==
    LET n == Len(new.list) IN new.list[IF new.start + i < n THEN new.start + i + 1 ELSE n]

ServerAt(i) == new.list[((new.start + i) % Len(new.list)) + 1]
Current == ServerAt(new.i)

\* LookupHost of the server as it is written, which is no name if it is a URL.
Lookup(s) == IF s \in ByURL THEN {} ELSE address[s]

\* Not found, or an address that failed before.
Skipped == failedIPs # {} /\ (Lookup(Current) = {} \/ Lookup(Current) \cap failedIPs # {})

NextServer ==
    /\ new.pc = "server" /\ new.i < Len(new.list)
    /\ new' = IF Skipped THEN [new EXCEPT !.i = @ + 1]
              ELSE [new EXCEPT !.pc = "request",
                               !.scheme = IF Current \in PlainHTTP THEN "http" ELSE "https"]
    /\ UNCHANGED <<options, address, failedIPs, client, held, tried>>

\* tryRegisterServer goes on with http.
FallsBack == new.scheme = "https" /\ Current \notin PlainHTTP /\ options.http

\* performRegistration returned: the session is there and the client knows; it is
\* there but the answer was lost; the token was refused; or anything else, a
\* status or a body that is not the expected one.
Accepted ==
    /\ new.pc = "request"
    /\ held' = held \union {<<Current, client.id>>}
    /\ tried' = tried \union {Current}
    /\ new' = [new EXCEPT !.pc = "registered"]
    /\ client' = [client EXCEPT !.serverURL = <<new.scheme, Current>>]
    /\ UNCHANGED <<options, address, failedIPs>>

NotAccepted ==
    /\ new.pc = "request"
    /\ \E outcome \in {"lost", "unauthorized", "other"} :
          /\ held' = IF outcome = "lost" THEN held \union {<<Current, client.id>>} ELSE held
          /\ new' = IF FallsBack THEN [new EXCEPT !.scheme = "http"]
                    ELSE IF outcome = "unauthorized"
                    THEN [new EXCEPT !.pc = "server", !.i = Len(new.list), !.unauthorized = TRUE]
                    ELSE [new EXCEPT !.pc = "server", !.i = @ + 1]
          /\ failedIPs' = IF FallsBack \/ outcome = "unauthorized" THEN failedIPs
                          ELSE failedIPs \union Lookup(Current)
    /\ tried' = tried \union {Current}
    /\ UNCHANGED <<options, address, client>>

\* Faulty variant: the second list is asked with the ID and the nonce of the first.
FittedKept == client

\* The second list needs longer ones; an ID that is long enough is kept.
Fitted ==
    [client EXCEPT
        !.id = IF client.length < FallbackLengths.id THEN 2 ELSE @,
        !.length = IF @ < FallbackLengths.id THEN FallbackLengths.id ELSE @,
        !.nonce = IF @ < FallbackLengths.nonce THEN FallbackLengths.nonce ELSE @]

\* All servers of a list failed.  Also after a refused token the second list follows.
ListFailed ==
    /\ new.pc = "server" /\ new.i = Len(new.list)
    /\ IF UserProvided \/ new.list = FallbackServers
       THEN new' = [new EXCEPT !.pc = "error"] /\ UNCHANGED client
       ELSE Tries(FallbackServers) /\ client' = Fitted
    /\ failedIPs' = {}
    /\ UNCHANGED <<options, address, held, tried>>

RegNext == Options \/ NextServer \/ Accepted \/ NotAccepted \/ ListFailed

RegSpec == RegInit /\ [][RegNext]_regVars

-------------------------------------------------------------------------------
\* What the servers of the two lists require, which cut longer IDs (endpoints.go:72);
\* what others do, the caller must know.
Fits(s) ==
    /\ s \in ToSet(DefaultServers) =>
          client.length >= DefaultServerLengths.id /\ client.nonce >= DefaultServerLengths.nonce
    /\ s \in ToSet(FallbackServers) =>
          client.length >= FallbackLengths.id /\ client.nonce >= FallbackLengths.nonce

(* A client that New returned gets its interactions: the server it will poll   *)
(* holds a session for the ID it has now, whatever servers accepted an earlier *)
(* one, and payloads have the lengths that server looks for                    *)
(* (client.go:189-208, 233-254).                                               *)
ReturnedClientWorks ==
    new.pc = "registered" =>
        /\ <<client.serverURL[2], client.id>> \in held
        /\ ~UserProvided => Fits(client.serverURL[2])

\* s was asked, or stands for an address that was, or for none.
Considered(s) ==
    \/ s \in tried \/ address[s] = {}
    \/ \E t \in tried \cap ToSet(new.list) : address[s] \cap address[t] # {}

\* A list was worked through, without a refused token.
Exhausted == new.list # <<>> /\ new.i = Len(new.list) /\ ~new.unauthorized

(* New gives up on a list only when every server of it that is written as a    *)
(* name was asked, wherever the rotation started, or shares an address with    *)
(* one that was (client.go:219-254).                                           *)
NamesConsidered == Exhausted => \A s \in ToSet(new.list) \ ByURL : Considered(s)

(* "The client will try servers from opts.ServerURLs in random order until one *)
(* successfully accepts the registration" (client.go:97): also those given as  *)
(* URLs, as tryRegisterServer takes them (client.go:258-261).                  *)
AllConsidered == Exhausted => \A s \in ToSet(new.list) : Considered(s)
===============================================================================
